---------------------------- MODULE Catalog_proofs ----------------------------
(***************************************************************************)
(* Proofs about the two parts of MCCatalogReviews: the operations of the   *)
(* context catalog, for any projects, contents and number of snapshots,    *)
(* with a crash or a failing write at any step; and the assessments of     *)
(* proposals, for any number of people and requests.                       *)
(***************************************************************************)
EXTENDS MCCatalogReviews, TLAPS

LEMMA CatalogRuns == MCSpec => Spec
<1>1. MCInit => Init
  BY DEF MCInit
<1>2. [MCNext]_<<part, vars, reviewVars>> => [Next]_vars
  BY DEF MCNext, vars
<1> QED
  BY <1>1, <1>2, PTL DEF MCSpec, Spec

LEMMA ReviewsRun == MCSpec => Reviews!Spec
<1>1. MCInit => Reviews!Init
  BY DEF MCInit
<1>2. [MCNext]_<<part, vars, reviewVars>> => [Reviews!Next]_(Reviews!vars)
  BY DEF MCNext, reviewVars, Reviews!vars
<1> QED
  BY <1>1, <1>2, PTL DEF MCSpec, Reviews!Spec

------------------------------------------------------------------------------
(* The invariant of the catalog. *)

InTree(o) == ~OnPolicy(o)

\* Snapshots are made on what is there, and no card of the parent is missing.
TreeInv ==
    /\ active <= made
    /\ files \subseteq 1 .. made
    /\ \A s \in Snapshots : s > made => parent[s] = 0
    /\ \A s \in 1 .. made : parent[s] < s
    /\ \A s \in 1 .. made, p \in Projects :
          Card(parent[s], p) # None => Card(s, p) # None

\* What an operation is, is known from its target.
OpsInv ==
    /\ done \subseteq intents
    /\ \A o \in intents : InTree(o) =>
          /\ o.target \in 1 .. made /\ o.source = parent[o.target]
          /\ o.kind = "publish" => o = Record("publish", o.source, o.target)
          /\ o.kind = "restore" => o.target \notin files
    /\ \A o, d \in intents : InTree(o) /\ InTree(d) /\ o.target = d.target => o = d
    /\ \A o \in intents : OnPolicy(o) => o.project \in Projects /\ o.target <= made

\* What has happened can be seen in the pointer and in the policies.
PastInv ==
    /\ \A o \in done : InTree(o) => o.target \in Ancestry(active)
    /\ \A s \in Ancestry(active) : \E o \in done : InTree(o) /\ o.target = s
    /\ \A o \in done : OnPolicy(o) => policies[o.project].revision >= o.revision
    /\ \A o \in Unresolved : OnPolicy(o) => (Happened(o) <=> o \in done)

\* The operations on the target of the call.
TargetInv ==
    call.target # 0 =>
        /\ call.target \in 1 .. made
        /\ \A o \in intents : InTree(o) /\ o.target = call.target => o = Publication
        /\ pc # "receipt" => parent[call.target] = active
        /\ call.by = "restore" =>
              /\ call.target \notin files
              /\ Publication \notin notApplied
              /\ pc # "receipt" => \A o \in done : InTree(o) => o.target # call.target
              /\ pc \in {"restoreIntent", "policyIntent", "policy"} =>
                    \A o \in notApplied : o.kind = "hold" => o.target # call.target
              /\ pc \notin {"restoreIntent", "policyIntent", "policy", "policyReceipt"} =>
                    \E h \in applied :
                       /\ h.kind = "hold" /\ h.target = call.target
                       /\ policies[call.project].revision >= h.revision
                       /\ policies[call.project].revision = h.revision =>
                             policies[call.project].hold

Publishes == {"manual", "registration", "maintenance"}
PolicyPlaces == {"policyIntent", "policy", "policyReceipt"}
TreePlaces == {"snapshot", "intent", "pointer", "receipt"}

\* Where a call can be, and what it carries.
CallInv ==
    /\ call.by = "nobody" <=> pc = "idle"
    /\ call.by \in Publishes => call.target # 0 /\ pc \in {"reconcile"} \cup TreePlaces
    /\ call.by \in {"nobody", "reconcile", "hold"} => call.target = 0
    /\ call.by = "reconcile" => pc = "reconcile"
    /\ call.by = "hold" => pc \in {"reconcile"} \cup PolicyPlaces
    /\ call.by = "restore" /\ call.target = 0 => pc = "reconcile"
    /\ call.by \in {"hold", "restore"} => call.project \in Projects
    /\ call.by = "restore" => call.hold

\* The policy that the call replaces, and then the one that it has written.
PolicyInv ==
    /\ call.by \in {"hold", "restore"} /\
          ((pc = "reconcile" /\ call.target = 0) \/ pc \in {"restoreIntent", "policyIntent", "policy"})
          => call.revision = policies[call.project].revision
    /\ pc \in {"restoreIntent"} \cup PolicyPlaces => call.revision < MaxRevision
    /\ pc = "policyReceipt" =>
          /\ policies[call.project].revision = call.revision + 1
          /\ policies[call.project].hold = call.hold
          /\ PolicyChange \in done

\* What is without a receipt while a call is at work.
OpenInv ==
    /\ pc \in {"restoreIntent", "policyIntent", "snapshot", "intent"} => Unresolved \subseteq Own
    /\ pc \in {"policy", "policyReceipt"} =>
          PolicyChange \in intents /\ Unresolved \subseteq Own \cup {PolicyChange}
    /\ pc \in {"pointer", "receipt"} =>
          Publication \in intents /\ Unresolved \subseteq Own \cup {Publication}
    /\ pc = "receipt" => Publication \in done
    /\ pc \in {"intent", "pointer"} => stored[call.target] = "yes"
    /\ call.by = "maintenance" /\ pc # "receipt" =>
          \A p \in Projects : cards[call.target][p] # Card(active, p) => ~policies[p].hold

CInv ==
    /\ TypeOK /\ TreeInv /\ OpsInv /\ PastInv /\ TargetInv /\ CallInv /\ PolicyInv /\ OpenInv
    /\ JournalNeverAmbiguous
    /\ VerdictsAreTrue
    /\ RestoreIsProtected


------------------------------------------------------------------------------
(* Ancestry, whatever the tree of parents. *)

Parents == [Snapshots -> 0 .. MaxSnapshots]

\* Ancestry, of a tree that is given.
Anc(par, s) ==
    {t \in Snapshots : \A S \in SUBSET Snapshots :
        ((s # 0 => s \in S) /\ (\A u \in S : par[u] # 0 => par[u] \in S)) => t \in S}

LEMMA Bounds == MaxSnapshots \in Nat /\ MaxRevision \in Nat /\ Snapshots = 1 .. MaxSnapshots
BY BoundsAssumption DEF Snapshots

LEMMA AncestryIs == \A s : Ancestry(s) = Anc(parent, s)
BY DEF Ancestry, Anc

LEMMA AncestryBecomes == \A s : Ancestry(s)' = Anc(parent', s')
BY DEF Ancestry, Anc

LEMMA AncSelf ==
    ASSUME NEW par, NEW s \in Snapshots
    PROVE  s \in Anc(par, s)
BY Bounds DEF Anc

LEMMA AncClosed ==
    ASSUME NEW par \in Parents, NEW s, NEW u \in Anc(par, s), par[u] # 0
    PROVE  par[u] \in Anc(par, s)
BY Bounds DEF Anc, Parents

LEMMA AncLeast ==
    ASSUME NEW par, NEW s, NEW C \in SUBSET Snapshots, s # 0 => s \in C,
           \A u \in C : par[u] # 0 => par[u] \in C
    PROVE  Anc(par, s) \subseteq C
BY DEF Anc

LEMMA AncNone ==
    ASSUME NEW par
    PROVE  Anc(par, 0) = {}
BY {} \in SUBSET Snapshots, AncLeast

LEMMA AncChild ==
    ASSUME NEW par \in Parents, NEW t \in Snapshots
    PROVE  Anc(par, t) = Anc(par, par[t]) \cup {t}
<1>1. par[t] \in 0 .. MaxSnapshots /\ (par[t] # 0 => par[t] \in Snapshots)
  BY Bounds DEF Parents
<1>2. Anc(par, t) \subseteq Anc(par, par[t]) \cup {t}
  <2>1. PICK C : C = Anc(par, par[t]) \cup {t}
    OBVIOUS
  <2>2. C \in SUBSET Snapshots
    BY <2>1 DEF Anc
  <2>3. \A u \in C : par[u] # 0 => par[u] \in C
    BY <1>1, <2>1, AncSelf, AncClosed
  <2> QED
    BY <2>1, <2>2, <2>3, AncLeast
<1>3. t \in Anc(par, t)
  BY AncSelf
<1>4. Anc(par, par[t]) \subseteq Anc(par, t)
  <2>1. Anc(par, t) \in SUBSET Snapshots
    BY DEF Anc
  <2>2. par[t] # 0 => par[t] \in Anc(par, t)
    BY <1>3, AncClosed
  <2>3. \A u \in Anc(par, t) : par[u] # 0 => par[u] \in Anc(par, t)
    BY AncClosed
  <2> QED
    BY <2>1, <2>2, <2>3, AncLeast
<1> QED
  BY <1>2, <1>3, <1>4

\* What is made later does not change where the earlier ones come from.
LEMMA AncPart ==
    ASSUME NEW par \in Parents, NEW new \in Parents, NEW m \in 0 .. MaxSnapshots, NEW s \in 0 .. m,
           \A u \in 1 .. m : par[u] \in 0 .. m /\ new[u] = par[u]
    PROVE  Anc(par, s) \subseteq Anc(new, s) \cap 1 .. m
<1>1. PICK C : C = Anc(new, s) \cap 1 .. m
  OBVIOUS
<1>2. C \in SUBSET Snapshots
  BY <1>1, Bounds
<1>3. s # 0 => s \in C
  BY <1>1, Bounds, AncSelf
<1>4. \A u \in C : par[u] # 0 => par[u] \in C
  BY <1>1, AncClosed, Bounds
<1> QED
  BY <1>1, <1>2, <1>3, <1>4, AncLeast

LEMMA AncSame ==
    ASSUME NEW par \in Parents, NEW new \in Parents, NEW m \in 0 .. MaxSnapshots, NEW s \in 0 .. m,
           \A u \in 1 .. m : par[u] \in 0 .. m /\ new[u] = par[u]
    PROVE  Anc(new, s) = Anc(par, s) /\ Anc(par, s) \subseteq 1 .. m
<1>1. Anc(par, s) \subseteq Anc(new, s) \cap 1 .. m
  BY AncPart
<1>2. Anc(new, s) \subseteq Anc(par, s) \cap 1 .. m
  BY AncPart
<1> QED
  BY <1>1, <1>2

------------------------------------------------------------------------------
(* The operations of a call, and its parts of the invariant. *)

\* The operations of a call, field by field.
LEMMA PublicationIs ==
    /\ Publication.source = parent[call.target] /\ Publication.target = call.target
    /\ Publication.kind = IF call.by = "restore" THEN "restore" ELSE "publish"
    /\ Publication.revision = 0
    /\ call.by # "restore" => Publication = Record("publish", parent[call.target], call.target)
    /\ call.by = "restore" =>
          /\ Publication.project = call.project /\ Publication.reason = call.reason
          /\ Publication.id = call.id
BY DEF Publication, Record

LEMMA PolicyChangeIs ==
    /\ PolicyChange.source = active
    /\ PolicyChange.kind = IF call.by = "restore" THEN "hold" ELSE "policy"
    /\ PolicyChange.target = IF call.by = "restore" THEN call.target ELSE active
    /\ PolicyChange.project = call.project /\ PolicyChange.reason = call.reason
    /\ PolicyChange.revision = call.revision + 1 /\ PolicyChange.id = None
BY DEF PolicyChange, Record

LEMMA PublicationTyped ==
    ASSUME TypeOK, call.target \in Snapshots
    PROVE  Publication \in Operations /\ InTree(Publication)
<1>1. /\ parent[call.target] \in 0 .. MaxSnapshots /\ call.target \in 0 .. MaxSnapshots
      /\ call.project \in Projects \cup {None} /\ call.reason \in Reasons \cup {None}
      /\ call.id \in OperationIds \cup {None} /\ 0 \in 0 .. MaxRevision
  BY Bounds DEF TypeOK, Calls
<1>2. CASE call.by = "restore"
  BY <1>1, <1>2 DEF Publication, Record, Operations, InTree, OnPolicy
<1>3. CASE call.by # "restore"
  BY <1>1, <1>3 DEF Publication, Record, Operations, InTree, OnPolicy
<1> QED
  BY <1>2, <1>3

LEMMA PolicyChangeTyped ==
    ASSUME TypeOK, call.revision < MaxRevision
    PROVE  PolicyChange \in Operations /\ OnPolicy(PolicyChange)
<1>1. /\ active \in 0 .. MaxSnapshots /\ call.target \in 0 .. MaxSnapshots
      /\ call.project \in Projects \cup {None} /\ call.reason \in Reasons \cup {None}
      /\ call.revision + 1 \in 0 .. MaxRevision
  BY Bounds DEF TypeOK, Calls
<1>2. CASE call.by = "restore"
  BY <1>1, <1>2 DEF PolicyChange, Record, Operations, OnPolicy
<1>3. CASE call.by # "restore"
  BY <1>1, <1>3 DEF PolicyChange, Record, Operations, OnPolicy
<1> QED
  BY <1>2, <1>3


\* What the catalog holds, whatever call is at work.
DataInv ==
    /\ TreeInv /\ OpsInv /\ PastInv
    /\ JournalNeverAmbiguous
    /\ VerdictsAreTrue
    /\ RestoreIsProtected

WorkInv == TargetInv /\ CallInv /\ PolicyInv /\ OpenInv

LEMMA Parts == CInv <=> TypeOK /\ DataInv /\ WorkInv
BY DEF CInv, DataInv, WorkInv

LEMMA EndInv == End => WorkInv'
<1> SUFFICES ASSUME End PROVE WorkInv'
  OBVIOUS
<1>1. /\ pc' = "idle" /\ call' = NoCall /\ call'.target = 0 /\ call'.by = "nobody"
  BY DEF End, NoCall
<1>2. TargetInv'
  BY <1>1 DEF TargetInv
<1>3. CallInv'
  BY <1>1 DEF CallInv, Publishes
<1>4. PolicyInv'
  BY <1>1 DEF PolicyInv, PolicyPlaces
<1>5. OpenInv'
  BY <1>1 DEF OpenInv
<1> QED
  BY <1>2, <1>3, <1>4, <1>5 DEF WorkInv

LEMMA Idle ==
    ASSUME TypeOK
    PROVE  NoCall \in Calls
BY Bounds DEF NoCall, Calls

\* Where the pointer and the policies stay, what has happened has happened.
LEMMA SameTree ==
    ASSUME UNCHANGED <<active, parent>>
    PROVE  Ancestry(active)' = Ancestry(active)
BY AncestryIs, AncestryBecomes

LEMMA SameHappened ==
    ASSUME UNCHANGED <<active, policies>>, Ancestry(active)' = Ancestry(active)
    PROVE  \A o : /\ (Happened(o))' <=> Happened(o)
                  /\ (Ambiguous(o))' <=> Ambiguous(o)
BY DEF Happened, Ambiguous

\* Receipts given to what had none.
LEMMA ReceiptGiven ==
    ASSUME TypeOK, DataInv, UNCHANGED <<snapshotVars, active, policies, intents, done>>,
           applied \subseteq applied', notApplied \subseteq notApplied',
           \A o \in applied' \ applied : o \in done,
           \A o \in (notApplied' \ notApplied) \cap done : o.kind \in {"publish", "policy"}
    PROVE  DataInv'
<1>1. /\ UNCHANGED <<made, parent, cards, files>> /\ Ancestry(active)' = Ancestry(active)
  BY SameTree DEF snapshotVars
<1>2. \A o : /\ (Happened(o))' <=> Happened(o)
             /\ (Ambiguous(o))' <=> Ambiguous(o)
  BY <1>1, SameHappened
<1>3. Unresolved' \subseteq Unresolved
  BY DEF Unresolved
<1>4. TreeInv'
  BY <1>1 DEF DataInv, TreeInv, Card
<1>5. OpsInv'
  BY <1>1 DEF DataInv, OpsInv
<1>6. PastInv'
  <2>1. \A o \in done : InTree(o) => o.target \in Ancestry(active)
    BY DEF DataInv, PastInv
  <2>2. \A s \in Ancestry(active) : \E o \in done : InTree(o) /\ o.target = s
    BY DEF DataInv, PastInv
  <2>3. \A o \in done : OnPolicy(o) => policies[o.project].revision >= o.revision
    BY DEF DataInv, PastInv
  <2>4. \A o \in Unresolved' : OnPolicy(o) => ((Happened(o))' <=> o \in done)
    BY <1>2, <1>3 DEF DataInv, PastInv
  <2> QED
    BY <1>1, <2>1, <2>2, <2>3, <2>4 DEF PastInv, InTree, OnPolicy
<1>7. JournalNeverAmbiguous'
  BY <1>2, <1>3 DEF DataInv, JournalNeverAmbiguous
<1>8. VerdictsAreTrue'
  BY DEF DataInv, VerdictsAreTrue
<1>9. RestoreIsProtected'
  BY DEF DataInv, RestoreIsProtected
<1> QED
  BY <1>4, <1>5, <1>6, <1>7, <1>8, <1>9 DEF DataInv

\* An intent written for something that has not happened.
LEMMA IntentWritten ==
    ASSUME TypeOK, DataInv, NEW x, x.source = active, x.target \in 0 .. made,
           UNCHANGED <<snapshotVars, active, policies, applied, notApplied, done>>,
           intents' \in {intents, intents \cup {x}},
           InTree(x) => /\ x.target \in 1 .. made /\ x.source = parent[x.target]
                        /\ x.kind = "publish" => x = Record("publish", x.source, x.target)
                        /\ x.kind = "restore" => x.target \notin files
                        /\ \A o \in intents : InTree(o) /\ o.target = x.target => o = x,
           OnPolicy(x) => /\ x.project \in Projects
                          /\ policies[x.project].revision < x.revision
                          /\ policies[x.project].revision \in Nat /\ x.revision \in Nat
    PROVE  DataInv'
<1>1. /\ UNCHANGED <<made, parent, cards, files>> /\ Ancestry(active)' = Ancestry(active)
  BY SameTree DEF snapshotVars
<1>2. \A o : /\ (Happened(o))' <=> Happened(o)
             /\ (Ambiguous(o))' <=> Ambiguous(o)
  BY <1>1, SameHappened
<1>3. Unresolved' \subseteq Unresolved \cup {x}
  BY DEF Unresolved
<1>4. TreeInv'
  BY <1>1 DEF DataInv, TreeInv, Card
<1>5. OpsInv'
  <2>1. done' \subseteq intents'
    BY DEF DataInv, OpsInv
  <2>2. \A o \in intents' : InTree(o) =>
          /\ o.target \in 1 .. made /\ o.source = parent[o.target]
          /\ o.kind = "publish" => o = Record("publish", o.source, o.target)
          /\ o.kind = "restore" => o.target \notin files
    BY DEF DataInv, OpsInv
  <2>3. \A o, d \in intents' : InTree(o) /\ InTree(d) /\ o.target = d.target => o = d
    BY DEF DataInv, OpsInv
  <2>4. \A o \in intents' : OnPolicy(o) => o.project \in Projects /\ o.target <= made
    BY DEF DataInv, OpsInv
  <2> QED
    BY <1>1, <2>1, <2>2, <2>3, <2>4 DEF OpsInv, InTree, OnPolicy, Record
<1>6. PastInv'
  <2>1. \A o \in done : InTree(o) => o.target \in Ancestry(active)
    BY DEF DataInv, PastInv
  <2>2. \A s \in Ancestry(active) : \E o \in done : InTree(o) /\ o.target = s
    BY DEF DataInv, PastInv
  <2>3. \A o \in done : OnPolicy(o) => policies[o.project].revision >= o.revision
    BY DEF DataInv, PastInv
  <2>4. OnPolicy(x) => ~Happened(x) /\ x \notin done
    <3>1. OnPolicy(x) => ~Happened(x)
      BY DEF Happened
    <3>2. OnPolicy(x) => x \notin done
      BY <2>3
    <3> QED
      BY <3>1, <3>2
  <2>5. \A o \in Unresolved' : OnPolicy(o) => ((Happened(o))' <=> o \in done)
    BY <1>2, <1>3, <2>4 DEF DataInv, PastInv
  <2> QED
    BY <1>1, <2>1, <2>2, <2>3, <2>5 DEF PastInv, InTree, OnPolicy
<1>7. JournalNeverAmbiguous'
  <2>1. ~Ambiguous(x)
    BY DEF Ambiguous
  <2> QED
    BY <1>2, <1>3, <2>1 DEF DataInv, JournalNeverAmbiguous
<1>8. VerdictsAreTrue'
  BY DEF DataInv, VerdictsAreTrue
<1>9. RestoreIsProtected'
  BY DEF DataInv, RestoreIsProtected
<1> QED
  BY <1>4, <1>5, <1>6, <1>7, <1>8, <1>9 DEF DataInv


\* An operation without a receipt has happened exactly when it was carried out.
LEMMA TruthIsVisible ==
    ASSUME DataInv, NEW o \in Unresolved
    PROVE  Happened(o) <=> o \in done
<1>1. CASE OnPolicy(o)
  BY <1>1 DEF DataInv, PastInv
<1>2. CASE ~OnPolicy(o)
  <2>1. Happened(o) <=> o.target \in Ancestry(active)
    BY <1>2 DEF Happened
  <2>2. o \in done => o.target \in Ancestry(active)
    BY <1>2 DEF DataInv, PastInv, InTree
  <2>3. ASSUME o.target \in Ancestry(active) PROVE o \in done
    <3>1. PICK d \in done : InTree(d) /\ d.target = o.target
      BY <2>3 DEF DataInv, PastInv
    <3>2. d \in intents /\ o \in intents
      BY DEF DataInv, OpsInv, Unresolved
    <3>3. d = o
      BY <1>2, <3>1, <3>2 DEF DataInv, OpsInv, InTree
    <3> QED
      BY <3>1, <3>3
  <2> QED
    BY <2>1, <2>2, <2>3
<1> QED
  BY <1>1, <1>2

LEMMA SameOperations ==
    ASSUME UNCHANGED <<call, parent, active>>
    PROVE  Publication' = Publication /\ PolicyChange' = PolicyChange
BY DEF Publication, PolicyChange, Record

------------------------------------------------------------------------------
(* Reconciliation, and the steps that only move the call. *)

LEMMA ResolveStep ==
    ASSUME CInv, NEW o \in intents, Resolve(o)
    PROVE  CInv'
<1>1. TypeOK /\ DataInv /\ WorkInv
  BY Parts
<1>2. /\ pc = "reconcile" /\ o \in Unresolved /\ o \notin Own
      /\ UNCHANGED <<made, parent, cards, files, stored, active, policies, intents, done>>
      /\ torn' \in {torn, torn \cup {o}}
      /\ \/ (UNCHANGED <<applied, notApplied>>)
         \/ (Happened(o) /\ applied' = applied \cup {o} /\ UNCHANGED notApplied)
         \/ (~Happened(o) /\ notApplied' = notApplied \cup {o} /\ UNCHANGED applied)
      /\ (pc' = "reconcile" /\ call' = call) \/ End
  BY DEF Resolve, Goto, snapshotVars
<1>3. Happened(o) <=> o \in done
  BY <1>1, <1>2, TruthIsVisible
<1>4. TypeOK'
  <2>1. pc' \in {"reconcile", "idle"} /\ call' \in Calls
    BY <1>1, <1>2, Idle DEF TypeOK, End
  <2> QED
    BY <1>1, <1>2, <2>1 DEF TypeOK
<1>5. DataInv'
  <2>1. /\ applied \subseteq applied' /\ notApplied \subseteq notApplied'
        /\ \A x \in applied' \ applied : x \in done
        /\ \A x \in (notApplied' \ notApplied) \cap done : x.kind \in {"publish", "policy"}
    BY <1>2, <1>3
  <2>2. UNCHANGED <<snapshotVars, active, policies, intents, done>>
    BY <1>2 DEF snapshotVars
  <2> QED
    BY <1>1, <2>1, <2>2, ReceiptGiven
<1>6. WorkInv'
  <2>1. CASE End
    BY <2>1, EndInv
  <2>2. CASE pc' = "reconcile" /\ call' = call
    <3>1. Publication' = Publication
      BY <1>2, <2>2, SameOperations
    <3>2. call.by = "restore" /\ call.target # 0 => Publication \notin notApplied'
      <4> SUFFICES ASSUME call.by = "restore", call.target # 0, Publication \in intents
                   PROVE  Publication \in Own
        BY <1>1, <1>2, <1>4 DEF TypeOK, WorkInv, TargetInv
      <4> QED
        BY PublicationIs DEF Own
    <3>3. TargetInv'
      BY <1>1, <1>2, <2>2, <3>1, <3>2 DEF WorkInv, TargetInv, InTree, OnPolicy
    <3>4. CallInv'
      BY <1>1, <1>2, <2>2 DEF WorkInv, CallInv
    <3>5. PolicyInv'
      BY <1>1, <1>2, <2>2 DEF WorkInv, PolicyInv, PolicyPlaces
    <3>6. OpenInv'
      BY <1>1, <1>2, <2>2 DEF WorkInv, OpenInv, Card
    <3> QED
      BY <3>3, <3>4, <3>5, <3>6 DEF WorkInv
  <2> QED
    BY <1>2, <2>1, <2>2
<1> QED
  BY <1>4, <1>5, <1>6 DEF CInv, DataInv, WorkInv

\* A call that ends, or goes on, and leaves the catalog as it is.
LEMMA CallMoves ==
    ASSUME CInv, End \/ WorkInv',
           UNCHANGED <<snapshotVars, active, policies, journalVars, done>>,
           stored' \in [Snapshots -> {"no", "torn", "yes"}],
           End \/ (call' = call /\ pc' \in {"reconcile", "policyIntent", "snapshot", "intent"})
    PROVE  CInv'
<1>1. TypeOK /\ DataInv
  BY Parts
<1>2. TypeOK'
  <2>1. /\ pc' \in {"idle", "reconcile", "policyIntent", "snapshot", "intent"}
        /\ call' \in Calls
    BY <1>1, Idle DEF TypeOK, End
  <2> QED
    BY <1>1, <2>1 DEF TypeOK, snapshotVars, journalVars
<1>3. DataInv'
  BY <1>1, ReceiptGiven DEF journalVars
<1>4. WorkInv'
  BY EndInv
<1> QED
  BY <1>2, <1>3, <1>4 DEF CInv, DataInv, WorkInv

LEMMA LeaveStep ==
    ASSUME CInv, LeaveReconcile
    PROVE  CInv'
BY CallMoves DEF LeaveReconcile, CInv, TypeOK

LEMMA StartStep ==
    ASSUME CInv, StartPublication
    PROVE  CInv'
<1>1. /\ pc = "reconcile" /\ Unresolved \subseteq Own /\ call.target # 0
      /\ pc' = "snapshot" /\ call' = call
      /\ UNCHANGED <<made, parent, cards, files, stored, active, policies, intents,
                     applied, notApplied, torn, done>>
  BY DEF StartPublication, Reconciled, Goto, snapshotVars, journalVars
<1>2. WorkInv /\ Publication' = Publication
  BY <1>1, Parts, SameOperations
<1>3. TargetInv'
  BY <1>1, <1>2 DEF WorkInv, TargetInv, InTree, OnPolicy
<1>4. CallInv'
  BY <1>1, <1>2 DEF WorkInv, CallInv, Publishes, TreePlaces
<1>5. PolicyInv'
  BY <1>1, <1>2 DEF WorkInv, PolicyInv, PolicyPlaces
<1>6. OpenInv'
  BY <1>1, <1>2 DEF WorkInv, OpenInv, Card, Unresolved, Own
<1> QED
  BY <1>1, <1>3, <1>4, <1>5, <1>6, CallMoves
     DEF WorkInv, snapshotVars, journalVars, CInv, TypeOK

LEMMA StoreStep ==
    ASSUME CInv, StoreSnapshot
    PROVE  CInv'
<1>1. /\ pc = "snapshot"
      /\ UNCHANGED <<made, parent, cards, files, active, policies, intents,
                     applied, notApplied, torn, done>>
      /\ End \/ (stored' = [stored EXCEPT ![call.target] = "yes"] /\ pc' = "intent" /\ call' = call)
      /\ stored' \in {stored, [stored EXCEPT ![call.target] = "yes"],
                      [stored EXCEPT ![call.target] = "torn"]}
  BY DEF StoreSnapshot, Goto, snapshotVars, journalVars
<1>2. WorkInv /\ TypeOK
  BY Parts
<1>3. stored' \in [Snapshots -> {"no", "torn", "yes"}]
  BY <1>1, <1>2 DEF TypeOK
<1>4. CASE End
  BY <1>1, <1>3, <1>4, CallMoves DEF snapshotVars, journalVars
<1>5. CASE stored' = [stored EXCEPT ![call.target] = "yes"] /\ pc' = "intent" /\ call' = call
  <2>1. call.by \in Publishes \cup {"restore"} /\ call.target # 0 /\ call.target \in Snapshots
    BY <1>1, <1>2, Bounds DEF WorkInv, CallInv, TargetInv, PolicyPlaces,
                              TypeOK, Calls, Publishes
  <2>2. stored'[call.target] = "yes" /\ Publication' = Publication
    BY <1>1, <1>2, <1>5, <2>1, SameOperations DEF TypeOK
  <2>3. TargetInv'
    BY <1>1, <1>2, <1>5, <2>2 DEF WorkInv, TargetInv, InTree, OnPolicy
  <2>4. CallInv'
    BY <1>1, <1>2, <1>5, <2>1 DEF WorkInv, CallInv, Publishes, TreePlaces,
                                  PolicyPlaces
  <2>5. PolicyInv'
    BY <1>1, <1>2, <1>5 DEF WorkInv, PolicyInv, PolicyPlaces
  <2>6. OpenInv'
    BY <1>1, <1>2, <1>5, <2>2 DEF WorkInv, OpenInv, Card, Unresolved, Own
  <2> QED
    BY <1>1, <1>3, <1>5, <2>3, <2>4, <2>5, <2>6, CallMoves
       DEF WorkInv, snapshotVars, journalVars
<1> QED
  BY <1>1, <1>4, <1>5

LEMMA AdmitHoldStep ==
    ASSUME CInv, AdmitHold
    PROVE  CInv'
<1>1. /\ pc = "reconcile" /\ Unresolved \subseteq Own /\ call.by = "hold"
      /\ call.revision < MaxRevision
      /\ pc' = "policyIntent" /\ call' = call
      /\ UNCHANGED <<made, parent, cards, files, stored, active, policies, intents,
                     applied, notApplied, torn, done>>
  BY DEF AdmitHold, Reconciled, Goto, snapshotVars, journalVars
<1>2. WorkInv
  BY Parts
<1>3. call.target = 0
  BY <1>1, <1>2 DEF WorkInv, CallInv
<1>4. TargetInv'
  BY <1>1, <1>3 DEF TargetInv
<1>5. CallInv'
  BY <1>1, <1>2 DEF WorkInv, CallInv, Publishes, PolicyPlaces
<1>6. PolicyInv'
  BY <1>1, <1>2, <1>3 DEF WorkInv, PolicyInv, PolicyPlaces
<1>7. OpenInv'
  BY <1>1, <1>2 DEF WorkInv, OpenInv, Card, Unresolved, Own
<1> QED
  BY <1>1, <1>4, <1>5, <1>6, <1>7, CallMoves
     DEF WorkInv, snapshotVars, journalVars, CInv, TypeOK


\* Which call is at a place, and on which snapshot.
LEMMA CallAt ==
    ASSUME CInv
    PROVE  /\ pc \in TreePlaces => /\ call.by \in Publishes \cup {"restore"}
                                   /\ call.target \in 1 .. made /\ call.target \in Snapshots
           /\ pc = "restoreIntent" => call.by = "restore"
           /\ pc \in PolicyPlaces => call.by \in {"hold", "restore"}
           /\ pc \in {"restoreIntent"} \cup PolicyPlaces =>
                 /\ call.project \in Projects
                 /\ call.by = "restore" => call.target \in 1 .. made /\ call.target \in Snapshots
           /\ made \in 0 .. MaxSnapshots /\ active \in 0 .. made
<1>1. TypeOK /\ CallInv /\ TargetInv /\ TreeInv
  BY DEF CInv
<1>2. /\ made \in 0 .. MaxSnapshots /\ active \in 0 .. made
      /\ call.target \in 0 .. MaxSnapshots /\ call \in Calls
  BY <1>1, Bounds DEF TypeOK, TreeInv, Calls
<1>3. call.by \in {"nobody", "reconcile", "manual", "registration", "maintenance", "hold", "restore"}
  BY <1>2 DEF Calls
<1>4. call.target # 0 => call.target \in 1 .. made /\ call.target \in Snapshots
  BY <1>1, <1>2, Bounds DEF TargetInv
<1> QED
  BY <1>1, <1>2, <1>3, <1>4 DEF CallInv, Publishes, TreePlaces, PolicyPlaces

LEMMA IntentStep ==
    ASSUME CInv, NEW x \in Operations, NEW next \in {"pointer", "policyIntent", "policy"},
           WriteIntent(x, next), UNCHANGED <<snapshotVars, stored, active, policies, done>>,
           x.source = active, x.target \in 0 .. made,
           InTree(x) => /\ x.target \in 1 .. made /\ x.source = parent[x.target]
                        /\ x.kind = "publish" => x = Record("publish", x.source, x.target)
                        /\ x.kind = "restore" => x.target \notin files
                        /\ \A o \in intents : InTree(o) /\ o.target = x.target => o = x,
           OnPolicy(x) => /\ x.project \in Projects
                          /\ policies[x.project].revision < x.revision
    PROVE  /\ TypeOK' /\ DataInv'
           /\ UNCHANGED <<made, parent, cards, files, stored, active, policies, applied,
                          notApplied, done>>
           /\ End \/ (pc' = next /\ call' = call /\ intents' = intents \cup {x})
<1>1. TypeOK /\ DataInv
  BY Parts
<1>2. /\ UNCHANGED <<applied, notApplied, made, parent, cards, files, stored, active, policies, done>>
      /\ intents' \in {intents, intents \cup {x}}
      /\ torn' \in {torn, torn \cup ({x} \ intents)}
      /\ End \/ (pc' = next /\ call' = call /\ intents' = intents \cup {x})
  BY DEF WriteIntent, Goto, snapshotVars
<1>3. TypeOK'
  <2>1. /\ pc' \in {"idle", "pointer", "policyIntent", "policy"} /\ call' \in Calls
    BY <1>1, <1>2, Idle DEF TypeOK, End
  <2> QED
    BY <1>1, <1>2, <2>1 DEF TypeOK
<1>4. OnPolicy(x) => policies[x.project].revision \in Nat /\ x.revision \in Nat
  BY <1>1, Bounds DEF TypeOK, Policies, Operations
<1>5. DataInv'
  BY <1>1, <1>2, <1>4, IntentWritten DEF snapshotVars
<1> QED
  BY <1>2, <1>3, <1>5

LEMMA IntendPublicationStep ==
    ASSUME CInv, IntendPublication
    PROVE  CInv'
<1>1. TypeOK /\ WorkInv
  BY Parts
<1>2. /\ pc = "intent" /\ UNCHANGED <<snapshotVars, stored, active, policies, done>>
  BY DEF IntendPublication
<1>3. CASE NothingRestored
  BY <1>1, <1>3, CallMoves DEF IntendPublication, TypeOK
<1>4. CASE ~NothingRestored
  <2>1. WriteIntent(Publication, "pointer")
    BY <1>4 DEF IntendPublication
  <2>2. /\ call.by \in Publishes \cup {"restore"} /\ call.target \in 1 .. made
        /\ call.target \in Snapshots /\ made \in 0 .. MaxSnapshots /\ active \in 0 .. made
    BY <1>2, CallAt DEF TreePlaces
  <2>3. Publication \in Operations /\ InTree(Publication)
    BY <1>1, <2>2, PublicationTyped
  <2>4. /\ parent[call.target] = active
        /\ \A o \in intents : InTree(o) /\ o.target = call.target => o = Publication
        /\ call.by = "restore" => call.target \notin files
    BY <1>1, <1>2, <2>2, Bounds DEF WorkInv, TargetInv
  <2>5. /\ Publication.source = active /\ Publication.target \in 0 .. made
        /\ Publication.target \in 1 .. made /\ Publication.source = parent[Publication.target]
        /\ Publication.kind = "publish"
              => Publication = Record("publish", Publication.source, Publication.target)
        /\ Publication.kind = "restore" => Publication.target \notin files
        /\ \A o \in intents : InTree(o) /\ o.target = Publication.target => o = Publication
    BY <2>2, <2>4, PublicationIs
  <2>6. /\ TypeOK' /\ DataInv'
        /\ UNCHANGED <<made, parent, cards, files, stored, active, policies, applied,
                       notApplied, done>>
        /\ End \/ (pc' = "pointer" /\ call' = call /\ intents' = intents \cup {Publication})
    BY <1>2, <2>1, <2>3, <2>5, IntentStep DEF InTree
  <2>7. WorkInv'
    <3>1. CASE End
      BY <3>1, EndInv
    <3>2. CASE pc' = "pointer" /\ call' = call /\ intents' = intents \cup {Publication}
      <4>1. Publication' = Publication
        BY <2>6, <3>2, SameOperations
      <4>2. TargetInv'
        BY <1>1, <1>2, <2>6, <3>2, <4>1 DEF WorkInv, TargetInv, InTree, OnPolicy
      <4>3. CallInv'
        BY <1>1, <1>2, <2>2, <3>2 DEF WorkInv, CallInv, Publishes, TreePlaces
      <4>4. PolicyInv'
        BY <1>1, <1>2, <2>6, <3>2 DEF WorkInv, PolicyInv, PolicyPlaces
      <4>5. OpenInv'
        BY <1>1, <1>2, <2>6, <3>2, <4>1 DEF WorkInv, OpenInv, Card, Unresolved, Own
      <4> QED
        BY <4>2, <4>3, <4>4, <4>5 DEF WorkInv
    <3> QED
      BY <2>6, <3>1, <3>2
  <2> QED
    BY <2>6, <2>7 DEF CInv, DataInv, WorkInv
<1> QED
  BY <1>3, <1>4

LEMMA IntendRestoreStep ==
    ASSUME CInv, IntendRestore
    PROVE  CInv'
<1>1. TypeOK /\ WorkInv
  BY Parts
<1>2. /\ pc = "restoreIntent" /\ UNCHANGED <<snapshotVars, stored, active, policies, done>>
      /\ WriteIntent(Publication, "policyIntent")
  BY DEF IntendRestore
<1>3. /\ call.by = "restore" /\ call.target \in 1 .. made
      /\ call.target \in Snapshots /\ made \in 0 .. MaxSnapshots /\ active \in 0 .. made
  BY <1>2, CallAt DEF TreePlaces
<1>4. Publication \in Operations /\ InTree(Publication)
  BY <1>1, <1>3, PublicationTyped
<1>5. /\ parent[call.target] = active
      /\ \A o \in intents : InTree(o) /\ o.target = call.target => o = Publication
      /\ call.target \notin files
  BY <1>1, <1>2, <1>3, Bounds DEF WorkInv, TargetInv
<1>6. /\ Publication.source = active /\ Publication.target \in 0 .. made
      /\ Publication.target \in 1 .. made /\ Publication.source = parent[Publication.target]
      /\ Publication.kind = "restore" /\ Publication.target \notin files
      /\ \A o \in intents : InTree(o) /\ o.target = Publication.target => o = Publication
  BY <1>3, <1>5, PublicationIs
<1>7. /\ TypeOK' /\ DataInv'
      /\ UNCHANGED <<made, parent, cards, files, stored, active, policies, applied,
                     notApplied, done>>
      /\ End \/ (pc' = "policyIntent" /\ call' = call /\ intents' = intents \cup {Publication})
  BY <1>2, <1>4, <1>6, IntentStep DEF InTree
<1>8. WorkInv'
  <2>1. CASE End
    BY <2>1, EndInv
  <2>2. CASE pc' = "policyIntent" /\ call' = call /\ intents' = intents \cup {Publication}
    <3>1. Publication' = Publication
      BY <1>7, <2>2, SameOperations
    <3>2. TargetInv'
      BY <1>1, <1>2, <1>7, <2>2, <3>1 DEF WorkInv, TargetInv, InTree, OnPolicy
    <3>3. CallInv'
      BY <1>1, <1>2, <1>3, <2>2, Bounds DEF WorkInv, CallInv, Publishes, TreePlaces
    <3>4. PolicyInv'
      BY <1>1, <1>2, <1>7, <2>2 DEF WorkInv, PolicyInv, PolicyPlaces
    <3>5. Publication.kind = "restore" /\ Publication.target = call.target
      BY <1>6, PublicationIs
    <3>6. Unresolved' \subseteq Own'
      BY <1>1, <1>2, <1>3, <1>7, <2>2, <3>5 DEF WorkInv, OpenInv, Unresolved, Own
    <3>7. OpenInv'
      BY <1>3, <2>2, <3>6 DEF OpenInv
    <3> QED
      BY <3>2, <3>3, <3>4, <3>7 DEF WorkInv
  <2> QED
    BY <1>7, <2>1, <2>2
<1> QED
  BY <1>7, <1>8 DEF CInv, DataInv, WorkInv

LEMMA IntendPolicyStep ==
    ASSUME CInv, IntendPolicy
    PROVE  CInv'
<1>1. TypeOK /\ WorkInv
  BY Parts
<1>2. /\ pc = "policyIntent" /\ UNCHANGED <<snapshotVars, stored, active, policies, done>>
      /\ WriteIntent(PolicyChange, "policy")
  BY DEF IntendPolicy
<1>3. /\ call.by \in {"hold", "restore"} /\ call.project \in Projects
      /\ call.by = "restore" => call.target \in 1 .. made
      /\ made \in 0 .. MaxSnapshots /\ active \in 0 .. made
  BY <1>2, CallAt DEF PolicyPlaces
<1>4. /\ call.revision < MaxRevision /\ call.revision = policies[call.project].revision
      /\ call.revision \in Nat
  BY <1>1, <1>2, <1>3, Bounds DEF WorkInv, PolicyInv, PolicyPlaces, TypeOK, Calls
<1>5. PolicyChange \in Operations /\ OnPolicy(PolicyChange)
  BY <1>1, <1>4, PolicyChangeTyped
<1>6. /\ PolicyChange.source = active /\ PolicyChange.target \in 0 .. made
      /\ PolicyChange.project \in Projects
      /\ policies[PolicyChange.project].revision < PolicyChange.revision
  BY <1>3, <1>4, PolicyChangeIs
<1>7. /\ TypeOK' /\ DataInv'
      /\ UNCHANGED <<made, parent, cards, files, stored, active, policies, applied,
                     notApplied, done>>
      /\ End \/ (pc' = "policy" /\ call' = call /\ intents' = intents \cup {PolicyChange})
  BY <1>2, <1>5, <1>6, IntentStep DEF InTree
<1>8. WorkInv'
  <2>1. CASE End
    BY <2>1, EndInv
  <2>2. CASE pc' = "policy" /\ call' = call /\ intents' = intents \cup {PolicyChange}
    <3>1. Publication' = Publication /\ PolicyChange' = PolicyChange
      BY <1>7, <2>2, SameOperations
    <3>2. TargetInv'
      BY <1>1, <1>2, <1>5, <1>7, <2>2, <3>1 DEF WorkInv, TargetInv, InTree, OnPolicy
    <3>3. CallInv'
      BY <1>1, <1>2, <1>3, <2>2, Bounds DEF WorkInv, CallInv, Publishes,
                                            PolicyPlaces
    <3>4. PolicyInv'
      BY <1>1, <1>2, <1>7, <2>2 DEF WorkInv, PolicyInv, PolicyPlaces
    <3>5. OpenInv'
      BY <1>1, <1>2, <1>3, <1>7, <2>2, <3>1 DEF WorkInv, OpenInv, Unresolved, Own
    <3> QED
      BY <3>2, <3>3, <3>4, <3>5 DEF WorkInv
  <2> QED
    BY <1>7, <2>1, <2>2
<1> QED
  BY <1>7, <1>8 DEF CInv, DataInv, WorkInv

LEMMA ReceiptStep ==
    ASSUME CInv, NEW x \in intents, x \in done, NEW next \in {"idle", "reconcile"},
           WriteReceipt(x, next), UNCHANGED <<snapshotVars, stored, active, policies, done>>
    PROVE  /\ TypeOK' /\ DataInv'
           /\ UNCHANGED <<made, parent, cards, files, stored, active, policies, intents,
                          notApplied, done>>
           /\ End \/ (next # "idle" /\ pc' = next /\ call' = call /\ applied' = applied \cup {x})
<1>1. TypeOK /\ DataInv
  BY Parts
<1>2. /\ UNCHANGED <<intents, notApplied, made, parent, cards, files, stored, active, policies, done>>
      /\ applied' \in {applied, applied \cup {x}}
      /\ torn' \in {torn, torn \cup ({x} \ (applied \cup notApplied))}
      /\ End \/ (next # "idle" /\ pc' = next /\ call' = call /\ applied' = applied \cup {x})
  BY DEF WriteReceipt, Goto, snapshotVars
<1>3. TypeOK'
  <2>1. /\ pc' \in {"idle", "reconcile"} /\ call' \in Calls
    BY <1>1, <1>2, Idle DEF TypeOK, End
  <2> QED
    BY <1>1, <1>2, <2>1 DEF TypeOK
<1>4. DataInv'
  BY <1>1, <1>2, ReceiptGiven DEF snapshotVars
<1> QED
  BY <1>2, <1>3, <1>4

LEMMA ConfirmPublicationStep ==
    ASSUME CInv, ConfirmPublication
    PROVE  CInv'
<1>1. TypeOK /\ WorkInv
  BY Parts
<1>2. /\ pc = "receipt" /\ UNCHANGED <<snapshotVars, stored, active, policies, done>>
      /\ WriteReceipt(Publication, "idle")
  BY DEF ConfirmPublication
<1>3. Publication \in intents /\ Publication \in done
  BY <1>1, <1>2 DEF WorkInv, OpenInv
<1>4. TypeOK' /\ DataInv' /\ End
  BY <1>2, <1>3, ReceiptStep
<1> QED
  BY <1>4, EndInv DEF CInv, DataInv, WorkInv

LEMMA ConfirmPolicyStep ==
    ASSUME CInv, ConfirmPolicy
    PROVE  CInv'
<1>1. TypeOK /\ WorkInv
  BY Parts
<1>2. /\ pc = "policyReceipt" /\ UNCHANGED <<snapshotVars, stored, active, policies, done>>
      /\ WriteReceipt(PolicyChange, IF call.by = "restore" THEN "reconcile" ELSE "idle")
  BY DEF ConfirmPolicy
<1>3. PolicyChange \in intents /\ PolicyChange \in done
  BY <1>1, <1>2 DEF WorkInv, OpenInv, PolicyInv
<1>4. PICK next \in {"idle", "reconcile"} :
          next = IF call.by = "restore" THEN "reconcile" ELSE "idle"
  OBVIOUS
<1>5. /\ TypeOK' /\ DataInv'
      /\ UNCHANGED <<made, parent, cards, files, stored, active, policies, intents,
                     notApplied, done>>
      /\ End \/ (next # "idle" /\ pc' = next /\ call' = call
                   /\ applied' = applied \cup {PolicyChange})
  BY <1>2, <1>3, <1>4, ReceiptStep
<1>6. WorkInv'
  <2>1. CASE End
    BY <2>1, EndInv
  <2>2. CASE /\ call.by = "restore" /\ pc' = "reconcile" /\ call' = call
             /\ applied' = applied \cup {PolicyChange}
    <3>1. Publication' = Publication
      BY <1>5, <2>2, SameOperations
    <3>2. /\ PolicyChange.kind = "hold" /\ PolicyChange.target = call.target
          /\ PolicyChange.revision = call.revision + 1
      BY <2>2, PolicyChangeIs
    <3>3. /\ policies[call.project].revision = call.revision + 1
          /\ policies[call.project].hold /\ call.revision \in Nat
      BY <1>1, <1>2, <2>2, Bounds DEF WorkInv, PolicyInv, CallInv, TypeOK, Calls
    <3>4. \E h \in applied' :
             /\ h.kind = "hold" /\ h.target = call.target
             /\ policies[call.project].revision >= h.revision
             /\ policies[call.project].revision = h.revision => policies[call.project].hold
      BY <2>2, <3>2, <3>3
    <3>5. TargetInv'
      BY <1>1, <1>2, <1>5, <2>2, <3>1, <3>4 DEF WorkInv, TargetInv, InTree, OnPolicy
    <3>6. CallInv'
      BY <1>1, <1>2, <2>2 DEF WorkInv, CallInv, Publishes
    <3>7. PolicyInv'
      BY <1>1, <1>2, <2>2 DEF WorkInv, PolicyInv, CallInv, PolicyPlaces
    <3>8. OpenInv'
      BY <2>2 DEF OpenInv
    <3> QED
      BY <3>5, <3>6, <3>7, <3>8 DEF WorkInv
  <2> QED
    BY <1>4, <1>5, <2>1, <2>2
<1> QED
  BY <1>5, <1>6 DEF CInv, DataInv, WorkInv


------------------------------------------------------------------------------
(* The calls begin. *)

\* A snapshot is made on the active one.
LEMMA SnapshotMade ==
    ASSUME TypeOK, DataInv, NEW cs \in Cards, MakeSnapshot(active, cs),
           files' \in {files, files \cup {made + 1}},
           \A p \in Projects : Card(active, p) # None => cs[p] # None,
           UNCHANGED <<active, policies, intents, applied, notApplied, done>>
    PROVE  /\ DataInv'
           /\ made \in 0 .. MaxSnapshots /\ made + 1 \in Snapshots /\ made' = made + 1
           /\ parent' \in Parents /\ cards' \in [Snapshots -> Cards] /\ files' \subseteq Snapshots
           /\ parent'[made + 1] = active /\ cards'[made + 1] = cs
           /\ \A s \in 1 .. made : parent'[s] = parent[s] /\ cards'[s] = cards[s]
           /\ \A p \in Projects : Card(active, p)' = Card(active, p)
<1>1. /\ made \in 0 .. MaxSnapshots /\ made + 1 \in Snapshots /\ made' = made + 1
      /\ active \in 0 .. made /\ files \subseteq 1 .. made
  BY Bounds DEF MakeSnapshot, TypeOK, DataInv, TreeInv
<1>2. /\ parent \in Parents /\ parent' \in Parents /\ cards' \in [Snapshots -> Cards]
      /\ parent'[made + 1] = active /\ cards'[made + 1] = cs
      /\ \A s \in Snapshots : s # made + 1 => parent'[s] = parent[s] /\ cards'[s] = cards[s]
  BY <1>1, Bounds DEF MakeSnapshot, TypeOK, Parents
<1>3. \A s \in 1 .. made : s \in Snapshots /\ s # made + 1 /\ parent'[s] = parent[s] /\ cards'[s] = cards[s]
  BY <1>1, <1>2, Bounds
<1>4. \A s \in 1 .. made : parent[s] \in 0 .. made
  BY <1>1, <1>2, Bounds DEF DataInv, TreeInv, Parents
<1>5. Ancestry(active)' = Ancestry(active) /\ Ancestry(active) \subseteq 1 .. made
  <2>1. Anc(parent', active) = Anc(parent, active) /\ Anc(parent, active) \subseteq 1 .. made
    BY <1>1, <1>2, <1>3, <1>4, AncSame
  <2> QED
    BY <2>1, AncestryIs, AncestryBecomes
<1>6. \A o : /\ (Happened(o))' <=> Happened(o)
             /\ (Ambiguous(o))' <=> Ambiguous(o)
  BY <1>5, SameHappened
<1>7. \A s \in 0 .. made, p \in Projects : Card(s, p)' = Card(s, p)
  BY <1>1, <1>3 DEF Card
<1>8. TreeInv'
  <2>1. active' <= made' /\ files' \subseteq 1 .. made'
    BY <1>1
  <2>2. \A s \in Snapshots : s > made' => parent'[s] = 0
    BY <1>1, <1>2, Bounds DEF DataInv, TreeInv
  <2>3. \A s \in 1 .. made' : parent'[s] < s
    BY <1>1, <1>2, <1>3 DEF DataInv, TreeInv
  <2>4. (\A s \in 1 .. made, p \in Projects : Card(parent[s], p) # None => Card(s, p) # None)'
    <3> SUFFICES ASSUME NEW s \in 1 .. made', NEW p \in Projects, (Card(parent[s], p) # None)'
                 PROVE  (Card(s, p) # None)'
      OBVIOUS
    <3>1. CASE s = made + 1
      <4>1. Card(active, p)' # None
        BY <1>2, <3>1 DEF Card
      <4>2. Card(active, p) # None
        BY <1>1, <1>7, <4>1 DEF Card
      <4>3. cs[p] # None
        BY <4>2
      <4> QED
        BY <1>1, <1>2, <3>1, <4>3 DEF Card
    <3>2. CASE s # made + 1
      <4>1. s \in 1 .. made
        BY <1>1, <3>2
      <4>2. Card(parent[s], p) # None
        BY <1>3, <1>4, <3>2, <4>1 DEF Card
      <4>3. Card(s, p) # None
        BY <4>1, <4>2 DEF DataInv, TreeInv
      <4> QED
        BY <1>3, <4>1, <4>3 DEF Card
    <3> QED
      BY <3>1, <3>2
  <2> QED
    BY <2>1, <2>2, <2>3, <2>4 DEF TreeInv
<1>9. OpsInv'
  <2>1. \A o \in intents : InTree(o) =>
          /\ o.target \in 1 .. made' /\ o.source = parent'[o.target]
          /\ o.kind = "publish" => o = Record("publish", o.source, o.target)
          /\ o.kind = "restore" => o.target \notin files'
    BY <1>1, <1>3 DEF DataInv, OpsInv
  <2>2. \A o, d \in intents : InTree(o) /\ InTree(d) /\ o.target = d.target => o = d
    BY DEF DataInv, OpsInv
  <2>3. \A o \in intents : OnPolicy(o) => o.project \in Projects /\ o.target <= made'
    <3> SUFFICES ASSUME NEW o \in intents, OnPolicy(o)
                 PROVE  o.project \in Projects /\ o.target <= made'
      OBVIOUS
    <3>1. o \in Operations /\ o.target \in 0 .. MaxSnapshots
      BY DEF TypeOK, Operations
    <3>2. o.project \in Projects /\ o.target <= made
      BY DEF DataInv, OpsInv
    <3> QED
      BY <1>1, <3>1, <3>2, Bounds
  <2>4. done' \subseteq intents'
    BY DEF DataInv, OpsInv
  <2> QED
    BY <2>1, <2>2, <2>3, <2>4 DEF OpsInv, InTree, OnPolicy, Record
<1>10. PastInv'
  <2>1. \A o \in done : InTree(o) => o.target \in Ancestry(active)
    BY DEF DataInv, PastInv
  <2>2. \A s \in Ancestry(active) : \E o \in done : InTree(o) /\ o.target = s
    BY DEF DataInv, PastInv
  <2>3. \A o \in done : OnPolicy(o) => policies[o.project].revision >= o.revision
    BY DEF DataInv, PastInv
  <2>4. \A o \in Unresolved' : OnPolicy(o) => ((Happened(o))' <=> o \in done)
    BY <1>6 DEF DataInv, PastInv, Unresolved
  <2> QED
    BY <1>5, <2>1, <2>2, <2>3, <2>4 DEF PastInv, InTree, OnPolicy
<1>11. JournalNeverAmbiguous'
  BY <1>6 DEF DataInv, JournalNeverAmbiguous, Unresolved
<1>12. VerdictsAreTrue' /\ RestoreIsProtected'
  BY DEF DataInv, VerdictsAreTrue, RestoreIsProtected
<1>13. DataInv'
  BY <1>8, <1>9, <1>10, <1>11, <1>12 DEF DataInv
<1>14. files' \subseteq Snapshots
  BY <1>1, Bounds
<1>15. \A p \in Projects : Card(active, p)' = Card(active, p)
  BY <1>1, <1>7 DEF Card
<1> QED
  BY <1>1, <1>2, <1>3, <1>13, <1>14, <1>15

\* A call that publishes begins.
LEMMA BeginPublishes ==
    ASSUME CInv, NEW c \in Calls, Begin(c), c.by \in Publishes, DataInv',
           made' \in 0 .. MaxSnapshots, parent' \in Parents, cards' \in [Snapshots -> Cards],
           files' \subseteq Snapshots, c.target \in 1 .. made', parent'[c.target] = active,
           \A o \in intents : InTree(o) /\ o.target = c.target
              => o = Record("publish", active, c.target),
           c.by = "maintenance" =>
              \A p \in Projects : cards'[c.target][p] # Card(active, p)' => ~policies[p].hold
    PROVE  CInv'
<1>1. TypeOK /\ WorkInv
  BY Parts
<1>2. /\ pc = "idle" /\ pc' = "reconcile" /\ call' = c
      /\ UNCHANGED <<stored, active, policies, intents, applied, notApplied, torn, done>>
  BY DEF Begin, journalVars
<1>3. c.by \notin {"nobody", "reconcile", "hold", "restore"} /\ c.target # 0
  BY DEF Publishes
<1>4. TypeOK'
  BY <1>1, <1>2 DEF TypeOK, Parents
<1>5. TargetInv'
  <2>1. Publication' = Record("publish", active, c.target)
    BY <1>2, <1>3 DEF Publication, Record
  <2> QED
    BY <1>2, <1>3, <2>1 DEF TargetInv, InTree, OnPolicy
<1>6. CallInv'
  BY <1>2, <1>3 DEF CallInv
<1>7. PolicyInv'
  BY <1>2, <1>3 DEF PolicyInv, PolicyPlaces
<1>8. OpenInv'
  BY <1>2, <1>3 DEF OpenInv
<1> QED
  BY <1>4, <1>5, <1>6, <1>7, <1>8 DEF CInv, DataInv

\* A call that reconciles, sets a hold or restores begins.
LEMMA BeginOther ==
    ASSUME CInv, NEW c \in Calls, Begin(c), UNCHANGED snapshotVars,
           c.by \in {"reconcile", "hold", "restore"}, c.target = 0,
           c.by # "reconcile" => /\ c.project \in Projects
                                 /\ c.revision = policies[c.project].revision,
           c.by = "restore" => c.hold
    PROVE  CInv'
<1>1. TypeOK /\ DataInv
  BY Parts
<1>2. /\ pc' = "reconcile" /\ call' = c /\ UNCHANGED <<made, parent, cards, files>>
      /\ UNCHANGED <<stored, active, policies, intents, applied, notApplied, torn, done>>
  BY DEF Begin, journalVars, snapshotVars
<1>3. TypeOK'
  BY <1>1, <1>2 DEF TypeOK
<1>4. DataInv'
  BY <1>1, <1>2, ReceiptGiven
<1>5. TargetInv' /\ OpenInv'
  BY <1>2 DEF TargetInv, OpenInv
<1>6. CallInv'
  BY <1>2 DEF CallInv, Publishes
<1>7. PolicyInv'
  BY <1>2 DEF PolicyInv, PolicyPlaces
<1> QED
  BY <1>3, <1>4, <1>5, <1>6, <1>7 DEF CInv, DataInv

LEMMA CardTyped ==
    ASSUME TypeOK, NEW s \in 0 .. MaxSnapshots, NEW p \in Projects
    PROVE  Card(s, p) \in Contents \cup {None}
BY Bounds DEF TypeOK, Cards, Card

LEMMA AmendedTyped ==
    ASSUME TypeOK, NEW p \in Projects, NEW c \in Contents
    PROVE  /\ Amended(active, p, c) \in Cards
           /\ \A q \in Projects : Card(active, q) # None => Amended(active, p, c)[q] # None
<1>1. active \in 0 .. MaxSnapshots /\ c # None
  BY NoneAssumption DEF TypeOK
<1>2. \A q \in Projects : Card(active, q) \in Contents \cup {None}
  BY <1>1, CardTyped
<1> QED
  BY <1>1, <1>2 DEF Amended, Cards

\* No intent is about a snapshot that has yet to be made.
LEMMA NothingAhead ==
    ASSUME CInv, NEW o \in intents
    PROVE  o.target # made + 1
<1>1. TypeOK /\ OpsInv /\ o \in Operations /\ o.target \in 0 .. MaxSnapshots /\ made \in 0 .. MaxSnapshots
  BY DEF CInv, TypeOK, Operations
<1>2. o.target <= made
  <2>1. CASE OnPolicy(o)
    BY <1>1, <2>1 DEF OpsInv
  <2>2. CASE ~OnPolicy(o)
    BY <1>1, <2>2, Bounds DEF OpsInv, InTree
  <2> QED
    BY <2>1, <2>2
<1> QED
  BY <1>1, <1>2, Bounds

\* A publication of a snapshot made for it begins.
LEMMA BeginOnNew ==
    ASSUME CInv, NEW cs \in Cards, MakeSnapshot(active, cs),
           files' \in {files, files \cup {made + 1}},
           \A p \in Projects : Card(active, p) # None => cs[p] # None,
           NEW c \in Calls, Begin(c), c.by \in Publishes, c.target = made + 1,
           c.by = "maintenance" =>
              \A p \in Projects : cs[p] # Card(active, p) => ~policies[p].hold
    PROVE  CInv'
<1>1. TypeOK /\ DataInv
  BY Parts
<1>2. /\ UNCHANGED <<active, policies, intents, applied, notApplied, done>>
  BY DEF Begin, journalVars
<1>3. /\ DataInv'
      /\ made \in 0 .. MaxSnapshots /\ made + 1 \in Snapshots /\ made' = made + 1
      /\ parent' \in Parents /\ cards' \in [Snapshots -> Cards] /\ files' \subseteq Snapshots
      /\ parent'[made + 1] = active /\ cards'[made + 1] = cs
      /\ \A p \in Projects : Card(active, p)' = Card(active, p)
  BY <1>1, <1>2, SnapshotMade
<1>4. \A o \in intents : o.target # c.target
  BY NothingAhead
<1>5. made' \in 0 .. MaxSnapshots /\ c.target \in 1 .. made'
  BY <1>3, Bounds
<1> QED
  BY <1>3, <1>4, <1>5, BeginPublishes


\* The requests that calls are made of, field by field.
LEMMA NoCallIs ==
    /\ NoCall \in Calls /\ NoCall.by = "nobody" /\ NoCall.target = 0
    /\ NoCall.revision = 0 /\ NoCall.project = None /\ ~NoCall.hold
BY Bounds DEF NoCall, Calls

LEMMA RetargetedCall ==
    ASSUME NEW n \in Calls, NEW t \in 0 .. MaxSnapshots, NEW d, d = [n EXCEPT !.target = t]
    PROVE  /\ d \in Calls /\ d.by = n.by /\ d.target = t /\ d.project = n.project
           /\ d.revision = n.revision /\ d.hold = n.hold
<1>1. d.by = n.by /\ d.target = t /\ d.project = n.project /\ d.revision = n.revision
  BY DEF Calls
<1>2. d.hold = n.hold
  BY DEF Calls
<1>3. d \in Calls
  BY DEF Calls
<1> QED
  BY <1>1, <1>2, <1>3


LEMMA PublishFileStep ==
    ASSUME CInv, NEW p \in Projects, NEW c \in Contents, NEW s \in 0 .. MaxSnapshots,
           PublishFile(s, p, c)
    PROVE  CInv'
<1>1. TypeOK /\ s = active /\ files' = files \cup {made + 1}
  BY DEF PublishFile, Current, CInv
<1>2. /\ Amended(active, p, c) \in Cards
      /\ \A q \in Projects : Card(active, q) # None => Amended(active, p, c)[q] # None
  BY <1>1, AmendedTyped
<1>3. MakeSnapshot(active, Amended(active, p, c))
  BY <1>1 DEF PublishFile
<1>4. PICK d : d = [NoCall EXCEPT !.by = "manual", !.target = made + 1]
  OBVIOUS
<1>5. made + 1 \in 0 .. MaxSnapshots
  BY <1>1, <1>3, Bounds DEF MakeSnapshot, TypeOK
<1>6. d \in Calls /\ d.by = "manual" /\ d.target = made + 1
  <2>1. PICK n \in Calls : n = NoCall
    BY NoCallIs
  <2>2. d = [n EXCEPT !.by = "manual", !.target = made + 1]
    BY <1>4, <2>1
  <2>3. d.by = "manual" /\ d.target = made + 1
    BY <2>2 DEF Calls
  <2>4. d \in Calls
    BY <1>5, <2>2 DEF Calls
  <2> QED
    BY <2>3, <2>4
<1>7. Begin(d) /\ d.by \in Publishes /\ d.by # "maintenance"
  BY <1>4, <1>6 DEF PublishFile, Publishes
<1> QED
  BY <1>1, <1>2, <1>3, <1>6, <1>7, BeginOnNew

LEMMA EnsureProjectStep ==
    ASSUME CInv, NEW p \in Projects, NEW c \in Contents, EnsureProject(p, c)
    PROVE  CInv'
<1>1. TypeOK /\ files' = files
  BY DEF EnsureProject, CInv
<1>2. /\ Amended(active, p, c) \in Cards
      /\ \A q \in Projects : Card(active, q) # None => Amended(active, p, c)[q] # None
  BY <1>1, AmendedTyped
<1>3. MakeSnapshot(active, Amended(active, p, c))
  BY DEF EnsureProject
<1>4. PICK d : d = [NoCall EXCEPT !.by = "registration", !.target = made + 1]
  OBVIOUS
<1>5. made + 1 \in 0 .. MaxSnapshots
  BY <1>1, <1>3, Bounds DEF MakeSnapshot, TypeOK
<1>6. d \in Calls /\ d.by = "registration" /\ d.target = made + 1
  <2>1. PICK n \in Calls : n = NoCall
    BY NoCallIs
  <2>2. d = [n EXCEPT !.by = "registration", !.target = made + 1]
    BY <1>4, <2>1
  <2>3. d.by = "registration" /\ d.target = made + 1
    BY <2>2 DEF Calls
  <2>4. d \in Calls
    BY <1>5, <2>2 DEF Calls
  <2> QED
    BY <2>3, <2>4
<1>7. Begin(d) /\ d.by \in Publishes /\ d.by # "maintenance"
  BY <1>4, <1>6 DEF EnsureProject, Publishes
<1> QED
  BY <1>1, <1>2, <1>3, <1>6, <1>7, BeginOnNew

LEMMA MaintainStep ==
    ASSUME CInv, NEW cs \in Cards, Maintain(cs)
    PROVE  CInv'
<1>1. TypeOK /\ files' = files
  BY DEF Maintain, CInv
<1>2. \A q \in Projects : Card(active, q) # None => cs[q] # None
  BY DEF Maintain
<1>3. MakeSnapshot(active, cs)
  BY DEF Maintain
<1>4. PICK d : d = [NoCall EXCEPT !.by = "maintenance", !.target = made + 1]
  OBVIOUS
<1>5. made + 1 \in 0 .. MaxSnapshots
  BY <1>1, <1>3, Bounds DEF MakeSnapshot, TypeOK
<1>6. d \in Calls /\ d.by = "maintenance" /\ d.target = made + 1
  <2>1. PICK n \in Calls : n = NoCall
    BY NoCallIs
  <2>2. d = [n EXCEPT !.by = "maintenance", !.target = made + 1]
    BY <1>4, <2>1
  <2>3. d.by = "maintenance" /\ d.target = made + 1
    BY <2>2 DEF Calls
  <2>4. d \in Calls
    BY <1>5, <2>2 DEF Calls
  <2> QED
    BY <2>3, <2>4
<1>7. Begin(d) /\ d.by \in Publishes
  BY <1>4, <1>6 DEF Maintain, Publishes
<1>8. \A q \in Projects : cs[q] # Card(active, q) => ~policies[q].hold
  BY DEF Maintain, Admitted
<1> QED
  BY <1>1, <1>2, <1>3, <1>6, <1>7, <1>8, BeginOnNew

LEMMA PublishAgainStep ==
    ASSUME CInv, NEW s \in Snapshots, PublishAgain(s)
    PROVE  CInv'
<1>1. TypeOK /\ DataInv
  BY Parts
<1>2. /\ s \in files /\ parent[s] = active /\ UNCHANGED snapshotVars
      /\ s \in 1 .. made /\ UNCHANGED <<made, parent, cards, files>>
  BY <1>1 DEF PublishAgain, Current, snapshotVars, DataInv, TreeInv
<1>3. PICK d : d = [NoCall EXCEPT !.by = "manual", !.target = s]
  OBVIOUS
<1>4. d \in Calls /\ d.by = "manual" /\ d.target = s
  <2>1. PICK n \in Calls : n = NoCall
    BY NoCallIs
  <2>2. d = [n EXCEPT !.by = "manual", !.target = s]
    BY <1>3, <2>1
  <2>3. d.by = "manual" /\ d.target = s
    BY <2>2 DEF Calls
  <2>4. s \in 0 .. MaxSnapshots
    BY Bounds
  <2>5. d \in Calls
    BY <2>2, <2>4 DEF Calls
  <2> QED
    BY <2>3, <2>5
<1>5. Begin(d) /\ d.by \in Publishes /\ d.by # "maintenance"
  BY <1>3, <1>4 DEF PublishAgain, Publishes
<1>6. DataInv'
  BY <1>1, <1>2, <1>5, ReceiptGiven DEF Begin, journalVars
<1>7. \A o \in intents : InTree(o) /\ o.target = s => o = Record("publish", active, s)
  <2> SUFFICES ASSUME NEW o \in intents, InTree(o), o.target = s
               PROVE  o = Record("publish", active, s)
    OBVIOUS
  <2>1. o.kind \in {"publish", "restore"}
    BY <1>1 DEF TypeOK, Operations, InTree, OnPolicy
  <2>2. /\ o.source = parent[s]
        /\ o.kind = "publish" => o = Record("publish", o.source, o.target)
        /\ o.kind = "restore" => o.target \notin files
    BY <1>1 DEF DataInv, OpsInv
  <2> QED
    BY <1>2, <2>1, <2>2
<1>8. /\ made' \in 0 .. MaxSnapshots /\ parent' \in Parents /\ cards' \in [Snapshots -> Cards]
      /\ files' \subseteq Snapshots /\ s \in 1 .. made' /\ parent'[s] = active
  BY <1>1, <1>2 DEF TypeOK, Parents
<1> QED
  BY <1>4, <1>5, <1>6, <1>7, <1>8, BeginPublishes

LEMMA OtherBegins ==
    ASSUME CInv,
           \/ Reconcile
           \/ \E p \in Projects, reason \in Reasons :
                 \/ \E hold \in BOOLEAN : SetPublicationHold(p, hold, reason)
                 \/ \E id \in OperationIds : Restore(id, p, reason)
    PROVE  CInv'
<1>1. TypeOK /\ \A p \in Projects : policies[p].revision \in 0 .. MaxRevision
  BY DEF CInv, TypeOK, Policies
<1>2. CASE Reconcile
  <2>1. PICK d : d = [NoCall EXCEPT !.by = "reconcile"]
    OBVIOUS
  <2>2. PICK n \in Calls : n = NoCall
    BY NoCallIs
  <2>3. d = [n EXCEPT !.by = "reconcile"]
    BY <2>1, <2>2
  <2>4. d.by = "reconcile" /\ d.target = n.target
    BY <2>3 DEF Calls
  <2>5. d \in Calls
    BY <2>3 DEF Calls
  <2> QED
    BY <1>2, <2>1, <2>2, <2>4, <2>5, NoCallIs, BeginOther DEF Reconcile
<1>3. ASSUME NEW p \in Projects, NEW reason \in Reasons, NEW hold \in BOOLEAN,
             SetPublicationHold(p, hold, reason)
      PROVE  CInv'
  <2>1. PICK d : d = [NoCall EXCEPT !.by = "hold", !.project = p, !.hold = hold,
                        !.revision = policies[p].revision, !.reason = reason]
    OBVIOUS
  <2>2. PICK n \in Calls : n = NoCall
    BY NoCallIs
  <2>3. d = [n EXCEPT !.by = "hold", !.project = p, !.hold = hold,
                      !.revision = policies[p].revision, !.reason = reason]
    BY <2>1, <2>2
  <2>4. d.by = "hold" /\ d.project = p /\ d.revision = policies[p].revision /\ d.target = n.target
    BY <2>3 DEF Calls
  <2>5. d \in Calls
    BY <1>1, <2>3 DEF Calls
  <2> QED
    BY <1>3, <2>1, <2>2, <2>4, <2>5, NoCallIs, BeginOther DEF SetPublicationHold
<1>4. ASSUME NEW p \in Projects, NEW reason \in Reasons, NEW id \in OperationIds,
             Restore(id, p, reason)
      PROVE  CInv'
  <2>1. PICK d : d = [NoCall EXCEPT !.by = "restore", !.id = id, !.project = p, !.hold = TRUE,
                        !.revision = policies[p].revision, !.reason = reason]
    OBVIOUS
  <2>2. PICK n \in Calls : n = NoCall
    BY NoCallIs
  <2>3. d = [n EXCEPT !.by = "restore", !.id = id, !.project = p, !.hold = TRUE,
                      !.revision = policies[p].revision, !.reason = reason]
    BY <2>1, <2>2
  <2>4. d.by = "restore" /\ d.project = p /\ d.revision = policies[p].revision /\ d.target = n.target
    BY <2>3 DEF Calls
  <2>5. d.hold
    BY <2>3 DEF Calls
  <2>6. d \in Calls
    BY <1>1, <2>3 DEF Calls
  <2> QED
    BY <1>4, <2>1, <2>2, <2>4, <2>5, <2>6, NoCallIs, BeginOther DEF Restore
<1> QED
  BY <1>2, <1>3, <1>4

LEMMA AdmitRestoreStep ==
    ASSUME CInv, NEW s \in Snapshots, AdmitRestore(s)
    PROVE  CInv'
<1>1. TypeOK /\ DataInv /\ WorkInv
  BY Parts
<1>2. /\ pc = "reconcile" /\ call.by = "restore" /\ call.target = 0
      /\ Unresolved \subseteq Own /\ call.revision < MaxRevision
      /\ MakeSnapshot(active, Amended(active, call.project, Card(s, call.project)))
      /\ pc' = "restoreIntent" /\ call' = [call EXCEPT !.target = made + 1]
      /\ UNCHANGED <<files, stored, active, policies, intents, applied, notApplied, torn, done>>
      /\ Card(s, call.project) # None
  BY DEF AdmitRestore, Reconciled, journalVars, Restorable
<1>3. call.project \in Projects /\ call.hold /\ call.revision = policies[call.project].revision
  BY <1>1, <1>2 DEF WorkInv, CallInv, PolicyInv
<1>4. Card(s, call.project) \in Contents
  BY <1>1, <1>2, <1>3, Bounds, CardTyped
<1>5. PICK cs \in Cards : /\ cs = Amended(active, call.project, Card(s, call.project))
                          /\ \A q \in Projects : Card(active, q) # None => cs[q] # None
  BY <1>1, <1>3, <1>4, AmendedTyped
<1>6. /\ DataInv'
      /\ made \in 0 .. MaxSnapshots /\ made + 1 \in Snapshots /\ made' = made + 1
      /\ parent' \in Parents /\ cards' \in [Snapshots -> Cards] /\ files' \subseteq Snapshots
      /\ parent'[made + 1] = active /\ files \subseteq 1 .. made
  BY <1>1, <1>2, <1>5, SnapshotMade DEF DataInv, TreeInv
<1>7. \A o \in intents : o.target # made + 1
  BY NothingAhead
<1>8. /\ call' \in Calls /\ call'.target = made + 1 /\ call'.by = "restore"
      /\ call'.project = call.project /\ call'.hold = call.hold /\ call'.revision = call.revision
  <2>1. call \in Calls /\ made + 1 \in 0 .. MaxSnapshots
    BY <1>1, <1>6, Bounds DEF TypeOK
  <2> QED
    BY <1>2, <2>1, RetargetedCall
<1>9. TypeOK'
  BY <1>1, <1>2, <1>6, <1>8, Bounds DEF TypeOK, Parents
<1>10. Unresolved = {}
  <2>1. \A o \in intents : o.kind = "restore" => o.target # 0
    BY <1>1 DEF DataInv, OpsInv, InTree, OnPolicy
  <2> QED
    BY <1>2, <2>1 DEF Own
<1>11. TargetInv'
  <2>1. Publication'.target = made + 1
    BY <1>8 DEF Publication, Record
  <2>2. notApplied \subseteq intents /\ done \subseteq intents
    BY <1>1 DEF TypeOK, DataInv, OpsInv
  <2>3. made + 1 \in 1 .. made' /\ made + 1 \notin files
    BY <1>6, Bounds
  <2> QED
    BY <1>2, <1>6, <1>7, <1>8, <2>1, <2>2, <2>3 DEF TargetInv
<1>12. CallInv'
  BY <1>2, <1>3, <1>6, <1>8, Bounds DEF CallInv, Publishes
<1>13. PolicyInv'
  BY <1>2, <1>3, <1>8 DEF PolicyInv, PolicyPlaces
<1>14. OpenInv'
  BY <1>2, <1>8, <1>10 DEF OpenInv, Unresolved
<1> QED
  BY <1>6, <1>9, <1>11, <1>12, <1>13, <1>14 DEF CInv, DataInv

------------------------------------------------------------------------------
(* The pointer and the policies are written. *)

LEMMA MovePointerStep ==
    ASSUME CInv, MovePointer
    PROVE  CInv'
<1>1. TypeOK /\ DataInv /\ WorkInv
  BY Parts
<1>2. /\ pc = "pointer"
      /\ UNCHANGED <<made, parent, cards, files, stored, policies, intents, applied, notApplied, torn>>
  BY DEF MovePointer, snapshotVars, journalVars
<1>3. CASE End /\ UNCHANGED <<active, done>>
  BY <1>1, <1>2, <1>3, CallMoves DEF snapshotVars, journalVars, TypeOK
<1>4. CASE /\ active' = call.target /\ done' = done \cup {Publication}
           /\ (pc' = "receipt" /\ call' = call) \/ End
  <2>1. /\ call.by \in Publishes \cup {"restore"} /\ call.target \in 1 .. made
        /\ call.target \in Snapshots /\ made \in 0 .. MaxSnapshots
    BY <1>2, CallAt DEF TreePlaces
  <2>2. /\ parent[call.target] = active /\ Publication \in intents
        /\ Unresolved \subseteq Own \cup {Publication}
    BY <1>1, <1>2, <2>1, Bounds DEF WorkInv, TargetInv, OpenInv
  <2>3. Publication \in Operations /\ InTree(Publication)
    BY <1>1, <2>1, PublicationTyped
  <2>4. Ancestry(active)' = Ancestry(active) \cup {call.target}
    <3>1. parent \in Parents
      BY <1>1 DEF TypeOK, Parents
    <3>2. Anc(parent, call.target) = Anc(parent, active) \cup {call.target}
      BY <2>1, <2>2, <3>1, AncChild
    <3> QED
      BY <1>2, <1>4, <3>2, AncestryIs, AncestryBecomes
  <2>5. \A o \in Unresolved : InTree(o) /\ o.target = call.target
    BY <2>2, <2>3, PublicationIs DEF Own, InTree, OnPolicy
  <2>6. TypeOK'
    <3>1. pc' \in {"receipt", "idle"} /\ call' \in Calls /\ active' \in 0 .. MaxSnapshots
      BY <1>1, <1>4, <2>1, Bounds, Idle DEF TypeOK, End
    <3> QED
      BY <1>1, <1>2, <1>4, <2>3, <3>1 DEF TypeOK
  <2>7. TreeInv'
    BY <1>1, <1>2, <1>4, <2>1, Bounds DEF DataInv, TreeInv, Card
  <2>8. OpsInv'
    BY <1>1, <1>2, <1>4, <2>2 DEF DataInv, OpsInv, InTree, OnPolicy, Record
  <2>9. PastInv'
    <3>1. \A o \in done' : InTree(o) => o.target \in Ancestry(active)'
      BY <1>1, <1>4, <2>4, PublicationIs DEF DataInv, PastInv
    <3>2. \A s \in Ancestry(active)' : \E o \in done' : InTree(o) /\ o.target = s
      BY <1>1, <1>4, <2>3, <2>4, PublicationIs DEF DataInv, PastInv
    <3>3. \A o \in done' : OnPolicy(o) => policies'[o.project].revision >= o.revision
      BY <1>1, <1>2, <1>4, <2>3 DEF DataInv, PastInv, InTree
    <3>4. \A o \in Unresolved' : ~OnPolicy(o)
      BY <1>2, <2>5 DEF Unresolved, InTree
    <3> QED
      BY <3>1, <3>2, <3>3, <3>4 DEF PastInv, InTree, OnPolicy
  <2>10. JournalNeverAmbiguous'
    <3>1. Unresolved' = Unresolved
      BY <1>2 DEF Unresolved
    <3>2. \A o \in Unresolved : (~Ambiguous(o))'
      BY <2>4, <2>5 DEF Ambiguous, Happened, InTree
    <3> QED
      BY <3>1, <3>2 DEF JournalNeverAmbiguous
  <2>11. VerdictsAreTrue'
    <3>1. call.by = "restore" => Publication \notin notApplied
      BY <1>1, <2>1, Bounds DEF WorkInv, TargetInv
    <3>2. call.by # "restore" => Publication.kind = "publish"
      BY PublicationIs
    <3> QED
      BY <1>1, <1>2, <1>4, <3>1, <3>2 DEF DataInv, VerdictsAreTrue
  <2>12. RestoreIsProtected'
    <3>1. Publication.kind = "restore" =>
             \E h \in applied :
                /\ h.kind = "hold" /\ h.target = Publication.target
                /\ policies[Publication.project].revision >= h.revision
                /\ policies[Publication.project].revision = h.revision =>
                      policies[Publication.project].hold
      <4> SUFFICES ASSUME call.by = "restore"
                   PROVE  \E h \in applied :
                             /\ h.kind = "hold" /\ h.target = call.target
                             /\ policies[call.project].revision >= h.revision
                             /\ policies[call.project].revision = h.revision =>
                                   policies[call.project].hold
        BY PublicationIs
      <4> QED
        BY <1>1, <1>2, <2>1, Bounds DEF WorkInv, TargetInv
    <3> QED
      BY <1>1, <1>2, <1>4, <3>1 DEF DataInv, RestoreIsProtected
  <2>13. WorkInv'
    <3>1. CASE End
      BY <3>1, EndInv
    <3>2. CASE pc' = "receipt" /\ call' = call
      <4>1. Publication' = Publication
        BY <1>2, <3>2 DEF Publication, Record
      <4>2. TargetInv'
        BY <1>1, <1>2, <3>2, <4>1 DEF WorkInv, TargetInv, InTree, OnPolicy
      <4>3. CallInv'
        BY <1>1, <1>2, <2>1, <3>2 DEF WorkInv, CallInv, Publishes, TreePlaces
      <4>4. PolicyInv'
        BY <1>1, <1>2, <3>2 DEF WorkInv, PolicyInv, PolicyPlaces
      <4>5. OpenInv'
        BY <1>2, <1>4, <2>2, <3>2, <4>1 DEF OpenInv, Unresolved, Own
      <4> QED
        BY <4>2, <4>3, <4>4, <4>5 DEF WorkInv
    <3> QED
      BY <1>4, <3>1, <3>2
  <2> QED
    BY <2>6, <2>7, <2>8, <2>9, <2>10, <2>11, <2>12, <2>13 DEF CInv, WorkInv
<1> QED
  BY <1>3, <1>4 DEF MovePointer, Goto


LEMMA WritePolicyStep ==
    ASSUME CInv, WritePolicy
    PROVE  CInv'
<1>1. TypeOK /\ DataInv /\ WorkInv
  BY Parts
<1>2. /\ pc = "policy"
      /\ UNCHANGED <<made, parent, cards, files, stored, active, intents, applied, notApplied, torn>>
  BY DEF WritePolicy, snapshotVars, journalVars
<1>3. CASE End /\ UNCHANGED <<policies, done>>
  BY <1>1, <1>2, <1>3, CallMoves DEF snapshotVars, journalVars, TypeOK
<1>4. CASE /\ policies' = [policies EXCEPT ![call.project] =
                             [hold |-> call.hold, reason |-> call.reason,
                              revision |-> call.revision + 1]]
           /\ done' = done \cup {PolicyChange}
           /\ (pc' = "policyReceipt" /\ call' = call) \/ End
  <2>1. /\ call.by \in {"hold", "restore"} /\ call.project \in Projects
        /\ call.by = "restore" => call.target \in 1 .. made
        /\ made \in 0 .. MaxSnapshots /\ active \in 0 .. made
    BY <1>2, CallAt DEF PolicyPlaces
  <2>2. /\ call.revision < MaxRevision /\ call.revision = policies[call.project].revision
        /\ call.revision \in 0 .. MaxRevision /\ call.hold \in BOOLEAN
        /\ call.reason \in Reasons \cup {None}
        /\ \A p \in Projects : policies[p].revision \in 0 .. MaxRevision
        /\ policies \in [Projects -> Policies]
    BY <1>1, <1>2, <2>1 DEF WorkInv, PolicyInv, PolicyPlaces, TypeOK, Calls,
                            Policies
  <2>3. PolicyChange \in Operations /\ OnPolicy(PolicyChange) /\ ~InTree(PolicyChange)
    BY <1>1, <2>2, PolicyChangeTyped DEF InTree
  <2>4. PolicyChange \in intents /\ Unresolved \subseteq Own \cup {PolicyChange}
    BY <1>1, <1>2 DEF WorkInv, OpenInv
  <2>5. /\ policies'[call.project].revision = call.revision + 1
        /\ policies'[call.project].reason = call.reason
        /\ policies'[call.project].hold = call.hold
        /\ \A p \in Projects : p # call.project => policies'[p] = policies[p]
    BY <1>4, <2>1, <2>2
  <2>6. policies' \in [Projects -> Policies]
    <3>1. PICK w : w = [hold |-> call.hold, reason |-> call.reason, revision |-> call.revision + 1]
      OBVIOUS
    <3>2. call.revision + 1 \in 0 .. MaxRevision
      BY <2>2, Bounds
    <3>3. w \in Policies
      BY <2>2, <3>1, <3>2 DEF Policies
    <3> QED
      BY <1>4, <2>2, <3>1, <3>3
  <2>7. TypeOK'
    <3>1. pc' \in {"policyReceipt", "idle"} /\ call' \in Calls
      BY <1>1, <1>4, Idle DEF TypeOK, End
    <3> QED
      BY <1>1, <1>2, <1>4, <2>3, <2>6, <3>1 DEF TypeOK
  <2>8. Ancestry(active)' = Ancestry(active) /\ Unresolved' = Unresolved
    BY <1>2, SameTree DEF Unresolved
  <2>9. TreeInv' /\ OpsInv'
    BY <1>1, <1>2, <1>4, <2>4 DEF DataInv, TreeInv, OpsInv, Card, InTree,
                                  OnPolicy, Record
  <2>10. \A p \in Projects : /\ policies'[p].revision >= policies[p].revision
                             /\ p = call.project => policies'[p].revision > policies[p].revision
    BY <2>1, <2>2, <2>5, Bounds
  <2>11. \A o \in done : o \in intents /\ o \in Operations
    BY <1>1 DEF DataInv, OpsInv, TypeOK
  <2>12. PastInv'
    <3>1. \A o \in done' : InTree(o) => o.target \in Ancestry(active)
      BY <1>1, <1>4, <2>3 DEF DataInv, PastInv
    <3>2. \A s \in Ancestry(active) : \E o \in done' : InTree(o) /\ o.target = s
      BY <1>1, <1>4 DEF DataInv, PastInv
    <3>3. \A o \in done' : OnPolicy(o) => policies'[o.project].revision >= o.revision
      <4> SUFFICES ASSUME NEW o \in done', OnPolicy(o)
                   PROVE  policies'[o.project].revision >= o.revision
        OBVIOUS
      <4>1. CASE o = PolicyChange
        BY <2>2, <2>5, <4>1, PolicyChangeIs, Bounds
      <4>2. CASE o \in done
        <5>1. policies[o.project].revision >= o.revision /\ o.project \in Projects
          BY <1>1, <2>11, <4>2 DEF DataInv, PastInv, OpsInv
        <5>2. /\ policies'[o.project].revision \in Nat /\ policies[o.project].revision \in Nat
              /\ o.revision \in Nat
          BY <2>2, <2>6, <2>11, <4>2, <5>1, Bounds DEF Policies, Operations
        <5> QED
          BY <2>10, <5>1, <5>2
      <4> QED
        BY <1>4, <4>1, <4>2
    <3>4. \A o \in Unresolved : OnPolicy(o) => o = PolicyChange
      BY <2>4 DEF Own, OnPolicy
    <3>5. PICK x \in Operations : x = PolicyChange
      BY <2>3
    <3>6. (Happened(x))' /\ x \in done'
      <4>1. x.project = call.project /\ x.revision = call.revision + 1 /\ x.reason = call.reason
        BY <3>5, PolicyChangeIs
      <4>2. x.kind = "hold" => call.hold
        BY <1>1, <3>5, PolicyChangeIs DEF WorkInv, CallInv
      <4>3. OnPolicy(x)
        BY <2>3, <3>5
      <4> QED
        BY <1>4, <2>5, <3>5, <4>1, <4>2, <4>3 DEF Happened, OnPolicy
    <3>7. \A o \in Unresolved' : OnPolicy(o) => ((Happened(o))' <=> o \in done')
      BY <2>8, <3>4, <3>5, <3>6
    <3> QED
      BY <2>8, <3>1, <3>2, <3>3, <3>7 DEF PastInv, InTree, OnPolicy
  <2>13. JournalNeverAmbiguous'
    <3> SUFFICES ASSUME NEW o \in Unresolved, (Ambiguous(o))'
                 PROVE  FALSE
      BY <2>8 DEF JournalNeverAmbiguous
    <3>1. CASE o = PolicyChange
      BY <1>2, <3>1, PolicyChangeIs DEF Ambiguous
    <3>2. CASE o \in Own
      <4>1. ~OnPolicy(o)
        BY <3>2 DEF Own, OnPolicy
      <4>2. (Happened(o))' <=> Happened(o)
        BY <2>8, <4>1 DEF Happened, OnPolicy
      <4>3. Ambiguous(o)
        BY <1>2, <4>1, <4>2 DEF Ambiguous, OnPolicy
      <4> QED
        BY <1>1, <4>3 DEF DataInv, JournalNeverAmbiguous
    <3> QED
      BY <2>4, <3>1, <3>2
  <2>14. VerdictsAreTrue'
    <3>1. call.by = "restore" => PolicyChange \notin notApplied
      <4> SUFFICES ASSUME call.by = "restore" PROVE PolicyChange \notin notApplied
        OBVIOUS
      <4>1. \A o \in notApplied : o.kind = "hold" => o.target # call.target
        BY <1>1, <1>2, <2>1, Bounds DEF WorkInv, TargetInv
      <4> QED
        BY <4>1, PolicyChangeIs
    <3>2. call.by # "restore" => PolicyChange.kind = "policy"
      BY PolicyChangeIs
    <3> QED
      BY <1>1, <1>2, <1>4, <3>1, <3>2 DEF DataInv, VerdictsAreTrue
  <2>15. RestoreIsProtected'
    <3> SUFFICES ASSUME NEW o \in done', o.kind = "restore"
                 PROVE  \E h \in applied :
                           /\ h.kind = "hold" /\ h.target = o.target
                           /\ policies'[o.project].revision >= h.revision
                           /\ policies'[o.project].revision = h.revision =>
                                 policies'[o.project].hold
      BY <1>2 DEF RestoreIsProtected
    <3>1. o \in done
      BY <1>4, <2>3 DEF OnPolicy
    <3>2. PICK h \in applied :
             /\ h.kind = "hold" /\ h.target = o.target
             /\ policies[o.project].revision >= h.revision
             /\ policies[o.project].revision = h.revision => policies[o.project].hold
      BY <1>1, <3>1 DEF DataInv, RestoreIsProtected
    <3>3. h.revision \in Nat
      BY <1>1, Bounds DEF TypeOK, Operations
    <3>4. CASE o.project = call.project
      <4>1. policies'[o.project].revision > h.revision
        BY <2>1, <2>2, <2>5, <3>2, <3>3, <3>4, Bounds
      <4>2. policies'[o.project].revision \in Nat
        BY <2>2, <2>5, <3>4, Bounds
      <4> QED
        BY <3>2, <3>3, <4>1, <4>2
    <3>5. CASE o.project # call.project
      <4>1. policies'[o.project] = policies[o.project]
        BY <1>4, <2>2, <3>5
      <4> QED
        BY <3>2, <4>1
    <3> QED
      BY <3>4, <3>5
  <2>16. WorkInv'
    <3>1. CASE End
      BY <3>1, EndInv
    <3>2. CASE pc' = "policyReceipt" /\ call' = call
      <4>1. Publication' = Publication /\ PolicyChange' = PolicyChange
        BY <1>2, <3>2, SameOperations
      <4>2. TargetInv'
        BY <1>1, <1>2, <1>4, <2>3, <3>2, <4>1 DEF WorkInv, TargetInv, InTree,
                                                  OnPolicy
      <4>3. CallInv'
        BY <1>1, <1>2, <2>1, <3>2, Bounds DEF WorkInv, CallInv, Publishes,
                                              PolicyPlaces
      <4>4. PolicyInv'
        BY <1>4, <2>2, <2>5, <3>2, <4>1 DEF PolicyInv, PolicyPlaces
      <4>5. OpenInv'
        BY <1>1, <1>2, <2>1, <2>4, <2>8, <3>2, <4>1 DEF WorkInv, OpenInv, Own
      <4> QED
        BY <4>2, <4>3, <4>4, <4>5 DEF WorkInv
    <3> QED
      BY <1>4, <3>1, <3>2
  <2> QED
    BY <2>7, <2>9, <2>12, <2>13, <2>14, <2>15, <2>16 DEF CInv, WorkInv
<1> QED
  BY <1>3, <1>4 DEF WritePolicy, Goto

------------------------------------------------------------------------------
(* The invariant, and what it explains. *)

LEMMA CatalogInit == Init => CInv
<1> SUFFICES ASSUME Init PROVE CInv
  OBVIOUS
<1>1. TypeOK
  <2>1. policies \in [Projects -> Policies]
    BY Bounds DEF Init, Policies
  <2>2. PICK w : w = [p \in Projects |-> None]
    OBVIOUS
  <2>3. w \in Cards
    BY <2>2 DEF Cards
  <2>4. cards \in [Snapshots -> Cards]
    BY <2>2, <2>3 DEF Init
  <2>5. call \in Calls
    BY NoCallIs DEF Init
  <2>6. made \in 0 .. MaxSnapshots /\ active \in 0 .. MaxSnapshots
    BY Bounds DEF Init
  <2>7. /\ parent \in [Snapshots -> 0 .. MaxSnapshots]
        /\ stored \in [Snapshots -> {"no", "torn", "yes"}]
    BY Bounds DEF Init
  <2> QED
    BY <2>1, <2>4, <2>5, <2>6, <2>7 DEF Init, TypeOK
<1>2. Ancestry(active) = {}
  BY AncestryIs, AncNone DEF Init
<1>3. TreeInv
  BY Bounds DEF Init, TreeInv, Card
<1>4. OpsInv /\ PastInv
  BY <1>2 DEF Init, OpsInv, PastInv, Unresolved
<1>5. JournalNeverAmbiguous /\ VerdictsAreTrue /\ RestoreIsProtected
  BY DEF Init, JournalNeverAmbiguous, VerdictsAreTrue, RestoreIsProtected,
         Unresolved
<1>6. call.target = 0 /\ call.by = "nobody" /\ pc = "idle"
  BY NoCallIs DEF Init
<1>7. TargetInv /\ CallInv /\ PolicyInv /\ OpenInv
  BY <1>6 DEF TargetInv, CallInv, PolicyInv, OpenInv, Publishes, PolicyPlaces
<1> QED
  BY <1>1, <1>3, <1>4, <1>5, <1>7 DEF CInv

LEMMA CatalogStutters == ASSUME CInv, UNCHANGED vars PROVE CInv'
<1>1. TypeOK /\ DataInv /\ WorkInv
  BY Parts
<1>2. UNCHANGED <<made, parent, cards, files, stored, active, policies, intents,
                  applied, notApplied, torn, pc, call, done>>
  BY DEF vars
<1>3. TypeOK'
  BY <1>1, <1>2 DEF TypeOK
<1>4. DataInv'
  BY <1>1, <1>2, ReceiptGiven DEF snapshotVars
<1>5. Publication' = Publication /\ PolicyChange' = PolicyChange
  BY <1>2, SameOperations
<1>6. TargetInv'
  BY <1>1, <1>2, <1>5 DEF WorkInv, TargetInv, InTree, OnPolicy
<1>7. CallInv' /\ PolicyInv'
  BY <1>1, <1>2, <1>5 DEF WorkInv, CallInv, PolicyInv
<1>8. OpenInv'
  BY <1>1, <1>2, <1>5 DEF WorkInv, OpenInv, Card, Unresolved, Own
<1> QED
  BY <1>3, <1>4, <1>6, <1>7, <1>8 DEF CInv, DataInv

LEMMA CatalogStep == CInv /\ [Next]_vars => CInv'
<1> SUFFICES ASSUME CInv, [Next]_vars PROVE CInv'
  OBVIOUS
<1>1. CASE UNCHANGED vars
  BY <1>1, CatalogStutters
<1>2. CASE Reconcile \/ LeaveReconcile
  BY <1>2, OtherBegins, LeaveStep
<1>3. CASE \E o \in intents : Resolve(o)
  BY <1>3, ResolveStep
<1>4. CASE \E p \in Projects, c \in Contents :
             EnsureProject(p, c) \/ \E s \in 0 .. MaxSnapshots : PublishFile(s, p, c)
  BY <1>4, EnsureProjectStep, PublishFileStep
<1>5. CASE \E s \in Snapshots : PublishAgain(s) \/ AdmitRestore(s)
  BY <1>5, PublishAgainStep, AdmitRestoreStep
<1>6. CASE \E cs \in Cards : Maintain(cs)
  BY <1>6, MaintainStep
<1>7. CASE StartPublication \/ StoreSnapshot \/ IntendPublication \/ MovePointer
              \/ ConfirmPublication
  BY <1>7, StartStep, StoreStep, IntendPublicationStep, MovePointerStep,
     ConfirmPublicationStep
<1>8. CASE \E p \in Projects, reason \in Reasons :
              \/ \E hold \in BOOLEAN : SetPublicationHold(p, hold, reason)
              \/ \E id \in OperationIds : Restore(id, p, reason)
  BY <1>8, OtherBegins
<1>9. CASE AdmitHold \/ IntendRestore \/ IntendPolicy \/ WritePolicy \/ ConfirmPolicy
  BY <1>9, AdmitHoldStep, IntendRestoreStep, IntendPolicyStep,
     WritePolicyStep, ConfirmPolicyStep
<1> QED
  BY <1>1, <1>2, <1>3, <1>4, <1>5, <1>6, <1>7, <1>8, <1>9 DEF Next

\* A card that an ancestor has, its descendants have.
LEMMA CardsStay ==
    ASSUME CInv, NEW s \in Ancestry(active), NEW p \in Projects, Card(s, p) # None
    PROVE  Card(active, p) # None
<1>1. TypeOK /\ TreeInv
  BY DEF CInv
<1>2. PICK C : C = {t \in 1 .. made : Card(t, p) # None => Card(active, p) # None}
  OBVIOUS
<1>3. C \in SUBSET Snapshots /\ made \in 0 .. MaxSnapshots
  BY <1>1, <1>2, Bounds DEF TypeOK
<1>4. active # 0 => active \in C
  BY <1>1, <1>2, <1>3, Bounds DEF TypeOK, TreeInv
<1>5. \A u \in C : parent[u] # 0 => parent[u] \in C
  <2> SUFFICES ASSUME NEW u \in C, parent[u] # 0 PROVE parent[u] \in C
    OBVIOUS
  <2>1. u \in 1 .. made /\ u \in Snapshots
    BY <1>2, <1>3, Bounds
  <2>2. parent[u] \in 1 .. made
    BY <1>1, <1>3, <2>1, Bounds DEF TypeOK, TreeInv
  <2>3. Card(parent[u], p) # None => Card(u, p) # None
    BY <1>1, <2>1 DEF TreeInv
  <2> QED
    BY <1>2, <2>1, <2>2, <2>3
<1>6. Ancestry(active) \subseteq C
  BY <1>3, <1>4, <1>5, AncLeast, AncestryIs
<1> QED
  BY <1>2, <1>6

LEMMA VersionsExplained == CInv => VersionsAreExplained
<1> SUFFICES ASSUME CInv, pc = "reconcile", Reconciled, NEW p \in Projects, NEW s \in Versions(p)
             PROVE  /\ Restorable(s, p)
                    /\ Explained(s) \/ \E o \in notApplied : o.kind = "publish" /\ o.target = s
  BY DEF VersionsAreExplained
<1>1. TypeOK /\ DataInv /\ WorkInv
  BY Parts
<1>2. s \in Ancestry(active) /\ Card(s, p) # None
  BY DEF Versions
<1>3. Restorable(s, p)
  BY <1>2, CardsStay DEF Restorable
<1>4. PICK o \in done : InTree(o) /\ o.target = s
  BY <1>1, <1>2 DEF DataInv, PastInv
<1>5. o \in intents /\ o \in Operations
  BY <1>1 DEF DataInv, OpsInv, TypeOK
<1>6. o \notin Own
  <2> SUFFICES ASSUME o \in Own PROVE FALSE
    OBVIOUS
  <2>1. call.by = "restore" /\ o.target = call.target /\ o.target # 0
    BY <1>1, <1>4, <1>5 DEF Own, DataInv, OpsInv
  <2> QED
    BY <1>1, <1>4, <2>1 DEF WorkInv, TargetInv
<1>7. o \in applied \cup notApplied
  BY <1>5, <1>6 DEF Reconciled, Unresolved
<1>8. o \in applied => Explained(s)
  BY <1>4 DEF Explained, InTree
<1>9. o \in notApplied => o.kind = "publish"
  BY <1>1, <1>4 DEF DataInv, VerdictsAreTrue, InTree, OnPolicy
<1> QED
  BY <1>3, <1>4, <1>7, <1>8, <1>9

------------------------------------------------------------------------------
(* The theorems about the catalog. *)

\* Every variable keeps its type: in particular the journal, the policies and
\* the call only ever hold well-formed records, and the pointer a snapshot.
THEOREM CatalogTyped == MCSpec => []TypeOK
<1>1. CInv => TypeOK
  BY DEF CInv
<1> QED
  BY <1>1, CatalogInit, CatalogStep, CatalogRuns, PTL DEF Spec

\* What became of an operation can be told whatever crash or failing write
\* interrupted it, a receipt says what happened, and every version on offer can
\* be restored and is explained by the journal (operations.go).
THEOREM ReceiptsSound == MCSpec => []ReceiptsAreTrue
<1>1. CInv => ReceiptsAreTrue
  BY VersionsExplained DEF CInv, ReceiptsAreTrue
<1> QED
  BY <1>1, CatalogInit, CatalogStep, CatalogRuns, PTL DEF Spec

\* A restored description is on hold before it is published, so that the AI
\* maintenance cannot replace it in between (operations.go).
THEOREM RestoreSound == MCSpec => []RestoreIsProtected
<1>1. CInv => RestoreIsProtected
  BY DEF CInv
<1> QED
  BY <1>1, CatalogInit, CatalogStep, CatalogRuns, PTL DEF Spec

\* Only MovePointer moves the pointer.
LEMMA PointerMoves ==
    ASSUME CInv, [Next]_vars, active' # active
    PROVE  MovePointer /\ active' = call.target
BY DEF Next, vars, Reconcile, LeaveReconcile, Resolve, EnsureProject,
       PublishFile, PublishAgain,
       AdmitRestore, Maintain, StartPublication, StoreSnapshot, IntendPublication,
       ConfirmPublication, SetPublicationHold, Restore, AdmitHold,
       IntendRestore, IntendPolicy,
       WritePolicy, ConfirmPolicy, Begin, MovePointer

LEMMA PointerObeys ==
    ASSUME CInv, [Next]_vars
    PROVE  /\ active' # active => parent[active'] = active /\ stored[active'] = "yes"
           /\ call.by = "maintenance" =>
                 \A p \in Projects : policies[p].hold => Card(active', p) = Card(active, p)
<1>1. CASE active' = active
  BY <1>1
<1>2. CASE active' # active
  <2>1. pc = "pointer" /\ active' = call.target /\ WorkInv
    BY <1>2, PointerMoves, Parts DEF MovePointer
  <2>2. call.target \in 1 .. made /\ made \in 0 .. MaxSnapshots
    BY <2>1, CallAt DEF TreePlaces
  <2>3. parent[call.target] = active /\ stored[call.target] = "yes"
    BY <2>1, <2>2, Bounds DEF WorkInv, TargetInv, OpenInv
  <2>4. call.by = "maintenance" =>
           \A p \in Projects : policies[p].hold => cards[call.target][p] = Card(active, p)
    BY <2>1 DEF WorkInv, OpenInv
  <2> QED
    BY <2>1, <2>2, <2>3, <2>4, Bounds DEF Card
<1> QED
  BY <1>1, <1>2

\* Each snapshot that becomes active follows the one that was, and is stored
\* when it does; the AI maintenance never changes the card of a project on
\* hold (operations.go, storage.go).
THEOREM PointerSound == MCSpec => PointerObeysRules
<1>1. CInv /\ [Next]_vars =>
         [active' # active => parent[active'] = active /\ stored[active'] = "yes"]_vars
  BY PointerObeys
<1>2. CInv /\ [Next]_vars =>
         [call.by = "maintenance" =>
             \A p \in Projects : policies[p].hold =>
                 Card(active', p) = Card(active, p)]_vars
  BY PointerObeys
<1> QED
  BY <1>1, <1>2, CatalogInit, CatalogStep, CatalogRuns, PTL
     DEF Spec, PointerObeysRules, HistoryIsLinear, HeldDescriptionStays

------------------------------------------------------------------------------
(* The invariant of the assessments. *)

Held == {"decide", "write", "publish"}
Places == {"idle", "page", "check", "save"} \cup Held
Files == [Reviews!Revisions -> Reviews!Requests \cup {None, Torn}]

RType ==
    /\ revision \in Files
    /\ head \in 0 .. MaxAssessments
    /\ stage \in [Clients -> Places]
    /\ req \in [Clients -> Reviews!Requests \cup {None}]
    /\ shown \in [Clients -> Reviews!Pages \cup {None}]
    /\ \A a \in answered : a[1] \in 1 .. head
    /\ refused \subseteq Nat

\* Files are made one after the other; each says what it follows.
FileInv ==
    /\ \A n \in 1 .. head : Reviews!IsRecord(n) /\ revision[n].expected = n - 1
    /\ Reviews!IsRecord(head + 1) => revision[head + 1].expected = head /\ head < MaxAssessments
    /\ \A n \in Reviews!Revisions : n > head + 1 => revision[n] = None

\* Nobody is shown, or expects, more than there is.
SeenInv ==
    \A c \in Clients :
       /\ stage[c] = "page" => shown[c] # None
       /\ shown[c] # None => shown[c].revision <= head
       /\ stage[c] \in {"check", "save"} \cup Held => req[c] # None
       /\ req[c] # None => req[c].expected <= head

\* The lock is held from the reading of the head to the answer.
LockInv ==
    \A c \in Clients :
       /\ stage[c] \in Held <=> lock = c
       /\ stage[c] = "write" => /\ revision[head + 1] = Torn /\ head < MaxAssessments
                             /\ req[c].expected = head
       /\ stage[c] = "publish" => revision[head + 1] = req[c] /\ req[c].expected = head

RInv ==
    /\ RType /\ FileInv /\ SeenInv /\ LockInv
    /\ Reviews!AnsweredIsKept
    /\ Reviews!ConflictIsVisible


LEMMA RFacts ==
    /\ MaxAssessments \in Nat /\ Reviews!Revisions = 1 .. (MaxAssessments + 1)
    /\ None \notin Clients /\ None \notin Reviews!Requests /\ Torn \notin Reviews!Requests
    /\ None \notin Reviews!Pages /\ None # Torn
    /\ \A r \in Reviews!Requests : r.expected \in 0 .. MaxAssessments
BY ReviewsAssumption DEF Reviews!ReviewAssumption, Reviews!Revisions,
                         Reviews!Requests

LEMMA LeaveFacts ==
    ASSUME RInv, NEW c \in Clients, NEW to \in Places, Reviews!Leave(c, to)
    PROVE  /\ stage' \in [Clients -> Places] /\ req' \in [Clients -> Reviews!Requests \cup {None}]
           /\ stage'[c] = to /\ req'[c] = IF to = "idle" THEN None ELSE req[c]
           /\ \A d \in Clients \ {c} : stage'[d] = stage[d] /\ req'[d] = req[d]
BY DEF RInv, RType, Reviews!Leave

\* What the holder of the lock does leaves the others as they are.
LEMMA HolderStep ==
    ASSUME RInv, NEW c \in Clients, stage[c] \in Held,
           NEW to \in {"idle", "write", "publish"}, Reviews!Leave(c, to), UNCHANGED shown,
           lock' = IF to = "idle" THEN None ELSE lock,
           revision' \in Files, head' \in 0 .. MaxAssessments, head <= head', FileInv',
           \A a \in answered' : a[1] \in 1 .. head' /\ revision'[a[1]] = a[2],
           \A n \in refused' : n \in Nat /\ n < head',
           to = "write" => /\ revision'[head' + 1] = Torn /\ head' < MaxAssessments
                           /\ req[c].expected = head',
           to = "publish" => revision'[head' + 1] = req[c] /\ req[c].expected = head'
    PROVE  RInv'
<1>1. /\ stage' \in [Clients -> Places] /\ req' \in [Clients -> Reviews!Requests \cup {None}]
      /\ stage'[c] = to /\ req'[c] = IF to = "idle" THEN None ELSE req[c]
      /\ \A d \in Clients \ {c} : stage'[d] = stage[d] /\ req'[d] = req[d]
  <2>1. to \in Places
    BY DEF Places, Held
  <2> QED
    BY <2>1, LeaveFacts
<1>2. lock = c /\ \A d \in Clients \ {c} : stage[d] \notin Held
  BY DEF RInv, LockInv
<1>3. RType'
  BY <1>1 DEF RInv, RType
<1>4. SeenInv'
  <2> SUFFICES ASSUME NEW d \in Clients
               PROVE  /\ stage'[d] = "page" => shown[d] # None
                      /\ shown[d] # None => shown[d].revision <= head'
                      /\ stage'[d] \in {"check", "save"} \cup Held => req'[d] # None
                      /\ req'[d] # None => req'[d].expected <= head'
    BY DEF SeenInv
  <2>1. /\ stage[d] = "page" => shown[d] # None
        /\ shown[d] # None => shown[d].revision <= head
        /\ stage[d] \in {"check", "save"} \cup Held => req[d] # None
        /\ req[d] # None => req[d].expected <= head
    BY DEF RInv, SeenInv
  <2>2. head \in Nat /\ head' \in Nat
    BY RFacts DEF RInv, RType
  <2>3. /\ shown[d] # None => shown[d].revision \in Nat
        /\ req[d] # None => req[d].expected \in Nat
    BY RFacts DEF RInv, RType, Reviews!Pages
  <2>4. /\ shown[d] # None => shown[d].revision <= head'
        /\ req[d] # None => req[d].expected <= head'
    BY <2>1, <2>2, <2>3
  <2>5. req'[d] \in {req[d], None} /\ (req'[d] = None => req[d] = None \/ (d = c /\ to = "idle"))
    BY <1>1
  <2>6. CASE d = c
    BY <1>1, <2>1, <2>4, <2>5, <2>6 DEF Held
  <2>7. CASE d # c
    BY <1>1, <2>1, <2>4, <2>7
  <2> QED
    BY <2>6, <2>7
<1>5. LockInv'
  <2> SUFFICES ASSUME NEW d \in Clients
               PROVE  /\ stage'[d] \in Held <=> lock' = d
                      /\ stage'[d] = "write" => /\ revision'[head' + 1] = Torn /\ head' < MaxAssessments
                                             /\ req'[d].expected = head'
                      /\ stage'[d] = "publish" => /\ revision'[head' + 1] = req'[d]
                                               /\ req'[d].expected = head'
    BY DEF LockInv
  <2>1. CASE d = c
    BY <1>1, <1>2, <2>1, RFacts DEF Held
  <2>2. CASE d # c
    BY <1>1, <1>2, <2>2, RFacts DEF Held
  <2> QED
    BY <2>1, <2>2
<1>6. Reviews!AnsweredIsKept'
  BY <1>3 DEF Reviews!AnsweredIsKept
<1>7. Reviews!ConflictIsVisible'
  BY RFacts DEF Reviews!ConflictIsVisible
<1> QED
  BY <1>3, <1>4, <1>5, <1>6, <1>7 DEF RInv

\* The facts that a holder's step starts from.
LEMMA HolderFacts ==
    ASSUME RInv, NEW c \in Clients, stage[c] \in Held
    PROVE  /\ lock = c /\ req[c] \in Reviews!Requests /\ req[c].expected \in 0 .. head
           /\ head \in 0 .. MaxAssessments /\ revision \in Files
           /\ \A a \in answered : a[1] \in 1 .. head /\ revision[a[1]] = a[2]
           /\ \A n \in refused : n \in Nat /\ n < head
           /\ FileInv
<1>1. /\ lock = c /\ req[c] \in Reviews!Requests /\ req[c].expected <= head
  BY DEF RInv, RType, LockInv, SeenInv
<1>2. /\ head \in 0 .. MaxAssessments /\ revision \in Files /\ FileInv
  BY DEF RInv, RType
<1>3. \A a \in answered : a[1] \in 1 .. head /\ revision[a[1]] = a[2]
  BY DEF RInv, RType, Reviews!AnsweredIsKept
<1>4. \A n \in refused : n \in Nat /\ n < head
  BY <1>2, RFacts DEF RInv, RType, Reviews!ConflictIsVisible
<1> QED
  BY <1>1, <1>2, <1>3, <1>4, RFacts

\* The head moves to the revision that comes next.
LEMMA HeadMoves ==
    ASSUME RInv, NEW c \in Clients, stage[c] \in Held, Reviews!IsRecord(head + 1),
           UNCHANGED revision, head' \in {head, head + 1}
    PROVE  /\ revision' \in Files /\ head' \in 0 .. MaxAssessments /\ head <= head' /\ FileInv'
           /\ \A a \in answered : a[1] \in 1 .. head' /\ revision'[a[1]] = a[2]
           /\ \A n \in refused : n \in Nat /\ n < head'
<1>1. /\ head \in 0 .. MaxAssessments /\ revision \in Files /\ FileInv
      /\ \A a \in answered : a[1] \in 1 .. head /\ revision[a[1]] = a[2]
      /\ \A n \in refused : n \in Nat /\ n < head
  BY HolderFacts
<1>2. revision[head + 1].expected = head /\ head < MaxAssessments
  BY <1>1 DEF FileInv
<1>3. head' \in 0 .. MaxAssessments /\ head <= head'
  BY <1>1, <1>2, RFacts
<1>4. FileInv'
  <2>1. CASE head' = head
    BY <1>1, <2>1 DEF FileInv, Reviews!IsRecord
  <2>2. CASE head' = head + 1
    <3>1. \A n \in 1 .. head' : (Reviews!IsRecord(n) /\ revision[n].expected = n - 1)'
      BY <1>1, <1>2, <2>2, RFacts DEF FileInv, Reviews!IsRecord
    <3>2. (\A n \in Reviews!Revisions : n > head + 1 => revision[n] = None)'
      BY <1>1, <2>2, RFacts DEF FileInv
    <3>3. ~Reviews!IsRecord(head + 1)'
      BY <1>1, <1>2, <2>2, RFacts DEF FileInv, Reviews!IsRecord
    <3> QED
      BY <3>1, <3>2, <3>3 DEF FileInv
  <2> QED
    BY <2>1, <2>2
<1> QED
  BY <1>1, <1>3, <1>4, RFacts

\* The file of the next revision is made, or filled.
LEMMA FileGrows ==
    ASSUME RInv, NEW c \in Clients, stage[c] \in Held, head < MaxAssessments,
           NEW x \in Reviews!Requests \cup {Torn}, x \in Reviews!Requests => x.expected = head,
           revision' \in {revision, [revision EXCEPT ![head + 1] = x]}, UNCHANGED head
    PROVE  /\ revision' \in Files /\ FileInv'
           /\ \A a \in answered : a[1] \in 1 .. head' /\ revision'[a[1]] = a[2]
           /\ revision' = [revision EXCEPT ![head + 1] = x] => revision'[head + 1] = x
<1>1. /\ head \in 0 .. MaxAssessments /\ revision \in Files /\ FileInv
      /\ \A a \in answered : a[1] \in 1 .. head /\ revision[a[1]] = a[2]
  BY HolderFacts
<1>2. CASE revision' = revision
  <2>1. FileInv'
    BY <1>1, <1>2 DEF FileInv, Reviews!IsRecord
  <2>2. revision' = [revision EXCEPT ![head + 1] = x] => revision'[head + 1] = x
    BY <1>1, <1>2, RFacts DEF Files
  <2> QED
    BY <1>1, <1>2, <2>1, <2>2
<1>3. CASE revision' = [revision EXCEPT ![head + 1] = x]
  <2>1. head + 1 \in Reviews!Revisions /\ head \in Nat
    BY <1>1, RFacts
  <2>2. /\ revision' \in Files /\ revision'[head + 1] = x
        /\ \A n \in Reviews!Revisions : n # head + 1 => revision'[n] = revision[n]
    BY <1>1, <1>3, <2>1 DEF Files
  <2>3. \A n \in 1 .. head : n \in Reviews!Revisions /\ n # head + 1 /\ revision'[n] = revision[n]
    BY <1>1, <2>2, RFacts
  <2>4. FileInv'
    <3>1. \A n \in 1 .. head' : (Reviews!IsRecord(n) /\ revision[n].expected = n - 1)'
      BY <1>1, <2>3 DEF FileInv, Reviews!IsRecord
    <3>2. Reviews!IsRecord(head + 1)' => revision'[head + 1].expected = head
      BY <2>2, RFacts DEF Reviews!IsRecord
    <3>3. \A n \in Reviews!Revisions : n > head + 1 => revision'[n] = None
      BY <1>1, <2>1, <2>2, RFacts DEF FileInv
    <3> QED
      BY <3>1, <3>2, <3>3 DEF FileInv
  <2> QED
    BY <1>1, <2>2, <2>3, <2>4
<1> QED
  BY <1>2, <1>3


\* A client that does not hold the lock moves on its own.
LEMMA ClientStep ==
    ASSUME RInv, NEW c \in Clients, stage[c] \notin Held,
           NEW to \in Places \ Held, stage' = [stage EXCEPT ![c] = to],
           NEW r \in Reviews!Requests \cup {None}, req' = [req EXCEPT ![c] = r],
           NEW s \in Reviews!Pages \cup {None}, shown' = [shown EXCEPT ![c] = s],
           to = "page" => s # None, s # None => s.revision <= head,
           to \in {"check", "save"} => r # None, r # None => r.expected <= head,
           UNCHANGED <<revision, head, lock, answered, refused>>
    PROVE  RInv'
<1>1. /\ stage' \in [Clients -> Places] /\ stage'[c] = to
      /\ req' \in [Clients -> Reviews!Requests \cup {None}] /\ req'[c] = r
      /\ shown' \in [Clients -> Reviews!Pages \cup {None}] /\ shown'[c] = s
      /\ \A d \in Clients \ {c} : stage'[d] = stage[d] /\ req'[d] = req[d] /\ shown'[d] = shown[d]
  BY DEF RInv, RType, Places
<1>2. RType'
  BY <1>1 DEF RInv, RType
<1>3. FileInv' /\ Reviews!AnsweredIsKept' /\ Reviews!ConflictIsVisible'
  BY DEF RInv, FileInv, Reviews!AnsweredIsKept, Reviews!ConflictIsVisible,
         Reviews!IsRecord
<1>4. SeenInv'
  <2> SUFFICES ASSUME NEW d \in Clients
               PROVE  /\ stage'[d] = "page" => shown'[d] # None
                      /\ shown'[d] # None => shown'[d].revision <= head
                      /\ stage'[d] \in {"check", "save"} \cup Held => req'[d] # None
                      /\ req'[d] # None => req'[d].expected <= head
    BY DEF SeenInv
  <2>1. CASE d = c
    BY <1>1, <2>1
  <2>2. CASE d # c
    BY <1>1, <2>2 DEF RInv, SeenInv
  <2> QED
    BY <2>1, <2>2
<1>5. LockInv'
  <2> SUFFICES ASSUME NEW d \in Clients
               PROVE  /\ stage'[d] \in Held <=> lock = d
                      /\ stage'[d] = "write" => /\ revision[head + 1] = Torn /\ head < MaxAssessments
                                             /\ req'[d].expected = head
                      /\ stage'[d] = "publish" => /\ revision[head + 1] = req'[d]
                                               /\ req'[d].expected = head
    BY DEF LockInv
  <2>1. CASE d = c
    BY <1>1, <2>1 DEF RInv, LockInv, Held
  <2>2. CASE d # c
    BY <1>1, <2>2 DEF RInv, LockInv
  <2> QED
    BY <2>1, <2>2
<1> QED
  BY <1>2, <1>3, <1>4, <1>5 DEF RInv

LEMMA PageSteps ==
    ASSUME RInv, NEW c \in Clients, Reviews!LoadDraft(c) \/ Reviews!LoadAssessment(c)
    PROVE  RInv'
<1>1. /\ req[c] \in Reviews!Requests \cup {None} /\ req = [req EXCEPT ![c] = req[c]]
      /\ req[c] # None => req[c].expected <= head
      /\ head \in 0 .. MaxAssessments /\ shown \in [Clients -> Reviews!Pages \cup {None}]
  BY DEF RInv, RType, SeenInv
<1>2. "idle" \in Places \ Held /\ "page" \in Places \ Held /\ "page" \notin Held
  BY DEF Places, Held
<1>3. CASE Reviews!LoadDraft(c)
  <2>1. PICK s : s = [revision |-> 0, current |-> entry]
    OBVIOUS
  <2>2. s \in Reviews!Pages /\ s.revision <= head /\ s # None
    BY <1>1, <1>3, <2>1, RFacts DEF Reviews!LoadDraft, Reviews!Readable,
                                    Reviews!Pages
  <2>3. /\ stage[c] \notin Held /\ stage' = [stage EXCEPT ![c] = "page"]
        /\ shown' = [shown EXCEPT ![c] = s] /\ req' = [req EXCEPT ![c] = req[c]]
        /\ UNCHANGED <<revision, head, lock, answered, refused>>
    BY <1>1, <1>2, <1>3, <2>1 DEF Reviews!LoadDraft, Held, Reviews!diskVars
  <2> QED
    BY <1>1, <1>2, <2>2, <2>3, ClientStep
<1>4. CASE Reviews!LoadAssessment(c)
  <2>1. shown[c] \in Reviews!Pages
    BY <1>1, <1>4 DEF Reviews!LoadAssessment, RInv, SeenInv
  <2>2. PICK s : s = [shown[c] EXCEPT !.revision = head]
    OBVIOUS
  <2>3. s \in Reviews!Pages /\ s.revision <= head /\ s # None
    BY <1>1, <2>1, <2>2, RFacts DEF Reviews!Pages
  <2>4. /\ stage[c] \notin Held /\ stage' = [stage EXCEPT ![c] = "idle"]
        /\ shown' = [shown EXCEPT ![c] = s] /\ req' = [req EXCEPT ![c] = req[c]]
        /\ UNCHANGED <<revision, head, lock, answered, refused>>
    BY <1>1, <1>2, <1>4, <2>2 DEF Reviews!LoadAssessment, Held, Reviews!diskVars
  <2> QED
    BY <1>1, <1>2, <2>3, <2>4, ClientStep
<1> QED
  BY <1>3, <1>4

LEMMA SubmitStep ==
    ASSUME RInv, NEW c \in Clients, Reviews!Submit(c)
    PROVE  RInv'
<1>1. /\ shown[c] \in Reviews!Pages /\ shown = [shown EXCEPT ![c] = shown[c]]
      /\ shown[c].revision <= head
  BY DEF Reviews!Submit, RInv, RType, SeenInv
<1>2. PICK v \in Verdicts :
         req' = [req EXCEPT ![c] = [verdict |-> v, expected |-> shown[c].revision,
                                    current |-> shown[c].current]]
  BY DEF Reviews!Submit
<1>3. PICK r : r = [verdict |-> v, expected |-> shown[c].revision,
                    current |-> shown[c].current]
  OBVIOUS
<1>4. r \in Reviews!Requests /\ r.expected <= head /\ r # None
  BY <1>1, <1>3, RFacts DEF Reviews!Requests, Reviews!Pages
<1>5. /\ stage[c] \notin Held /\ stage' = [stage EXCEPT ![c] = "check"]
      /\ shown' = [shown EXCEPT ![c] = shown[c]] /\ req' = [req EXCEPT ![c] = r]
      /\ UNCHANGED <<revision, head, lock, answered, refused>>
  BY <1>1, <1>2, <1>3 DEF Reviews!Submit, Held, Reviews!diskVars
<1>6. "check" \in Places \ Held
  BY DEF Places, Held
<1> QED
  BY <1>1, <1>4, <1>5, <1>6, ClientStep

LEMMA CheckStep ==
    ASSUME RInv, NEW c \in Clients, Reviews!Check(c)
    PROVE  RInv'
<1>1. /\ shown[c] \in Reviews!Pages \cup {None} /\ shown = [shown EXCEPT ![c] = shown[c]]
      /\ shown[c] # None => shown[c].revision <= head
      /\ req[c] \in Reviews!Requests /\ req[c].expected <= head /\ req = [req EXCEPT ![c] = req[c]]
  BY DEF Reviews!Check, RInv, RType, SeenInv
<1>2. PICK to \in {"save", "idle"} : Reviews!Leave(c, to)
  BY DEF Reviews!Check
<1>3. to \in Places \ Held /\ to # "page" /\ stage[c] \notin Held
  BY DEF Places, Held, Reviews!Check
<1>4. PICK r \in Reviews!Requests \cup {None} : /\ req' = [req EXCEPT ![c] = r]
                                        /\ r = IF to = "idle" THEN None ELSE req[c]
  BY <1>1, <1>2 DEF Reviews!Leave
<1>5. /\ stage' = [stage EXCEPT ![c] = to] /\ shown' = [shown EXCEPT ![c] = shown[c]]
      /\ UNCHANGED <<revision, head, lock, answered, refused>>
  BY <1>1, <1>2 DEF Reviews!Check, Reviews!Leave, Reviews!diskVars
<1>6. to \in {"check", "save"} => r # None
  BY <1>1, <1>2, <1>4, RFacts
<1> QED
  BY <1>1, <1>3, <1>4, <1>5, <1>6, ClientStep

LEMMA LockStep ==
    ASSUME RInv, NEW c \in Clients, Reviews!Lock(c)
    PROVE  RInv'
<1>1. /\ "decide" \in Places /\ "decide" \in Held /\ "save" \notin Held /\ "decide" # "idle"
  BY DEF Places, Held
<1>2. /\ stage[c] = "save" /\ lock = None /\ lock' = c /\ Reviews!Leave(c, "decide")
      /\ UNCHANGED <<revision, head, shown, answered, refused>>
  BY DEF Reviews!Lock, Reviews!Free, Reviews!diskVars
<1>3. /\ stage' \in [Clients -> Places] /\ req' \in [Clients -> Reviews!Requests \cup {None}]
      /\ stage'[c] = "decide" /\ req'[c] = req[c]
      /\ \A d \in Clients \ {c} : stage'[d] = stage[d] /\ req'[d] = req[d]
  BY <1>1, <1>2, LeaveFacts
<1>4. RType'
  BY <1>2, <1>3 DEF RInv, RType
<1>5. FileInv' /\ Reviews!AnsweredIsKept' /\ Reviews!ConflictIsVisible'
  BY <1>2 DEF RInv, FileInv, Reviews!AnsweredIsKept,
              Reviews!ConflictIsVisible, Reviews!IsRecord
<1>6. SeenInv'
  <2> SUFFICES ASSUME NEW d \in Clients
               PROVE  /\ stage'[d] = "page" => shown[d] # None
                      /\ shown[d] # None => shown[d].revision <= head
                      /\ stage'[d] \in {"check", "save"} \cup Held => req'[d] # None
                      /\ req'[d] # None => req'[d].expected <= head
    BY <1>2 DEF SeenInv
  <2>1. CASE d = c
    BY <1>2, <1>3, <2>1 DEF RInv, SeenInv
  <2>2. CASE d # c
    BY <1>3, <2>2 DEF RInv, SeenInv
  <2> QED
    BY <2>1, <2>2
<1>7. LockInv'
  <2>1. \A d \in Clients : stage[d] \notin Held
    BY <1>2, RFacts DEF RInv, LockInv
  <2> QED
    BY <1>1, <1>2, <1>3, <2>1, RFacts DEF LockInv, Held
<1> QED
  BY <1>4, <1>5, <1>6, <1>7 DEF RInv

\* A holder that answers, or gives up, with the head where it is or moved on.
LEMMA HolderLeaves ==
    ASSUME RInv, NEW c \in Clients, stage[c] \in Held, Reviews!Leave(c, "idle"), Reviews!Unlock(c),
           UNCHANGED <<shown, revision>>,
           head' = head \/ (Reviews!IsRecord(head + 1) /\ head' \in {head, head + 1}),
           answered' = answered
              \/ \E n \in 1 .. head' : answered' = answered \cup {<<n, req[c]>>} /\ revision[n] = req[c],
           refused' = refused
              \/ (req[c].expected < head' /\ refused' = refused \cup {req[c].expected})
    PROVE  RInv'
<1>1. /\ lock = c /\ req[c] \in Reviews!Requests /\ req[c].expected \in 0 .. head
      /\ head \in 0 .. MaxAssessments /\ revision \in Files
      /\ \A a \in answered : a[1] \in 1 .. head /\ revision[a[1]] = a[2]
      /\ \A n \in refused : n \in Nat /\ n < head
      /\ FileInv
  BY HolderFacts
<1>2. /\ revision' \in Files /\ head' \in 0 .. MaxAssessments /\ head <= head' /\ FileInv'
  <2>1. CASE head' = head
    <3>1. FileInv'
      BY <1>1, <2>1 DEF FileInv, Reviews!IsRecord
    <3> QED
      BY <1>1, <2>1, <3>1
  <2>2. CASE Reviews!IsRecord(head + 1) /\ head' \in {head, head + 1}
    BY <2>2, HeadMoves
  <2> QED
    BY <2>1, <2>2
<1>3. \A a \in answered' : a[1] \in 1 .. head' /\ revision'[a[1]] = a[2]
  BY <1>1, <1>2, RFacts
<1>4. \A n \in refused' : n \in Nat /\ n < head'
  BY <1>1, <1>2, RFacts
<1>5. lock' = None
  BY <1>1 DEF Reviews!Unlock
<1>6. "idle" \in {"idle", "write", "publish"}
  OBVIOUS
<1> QED
  BY <1>2, <1>3, <1>4, <1>5, <1>6, HolderStep

\* A conflict, with the revision found beyond the head published first.
LEMMA AdoptStep ==
    ASSUME RInv, NEW c \in Clients, stage[c] \in Held, Reviews!Adopt(c),
           Reviews!Outdated(c) \/ Reviews!IsRecord(head + 1), UNCHANGED shown
    PROVE  RInv'
<1>1. /\ req[c].expected \in 0 .. head /\ head \in 0 .. MaxAssessments
  BY HolderFacts
<1>2. CASE Reviews!IsRecord(head + 1) /\ Reviews!HeadBecomes(head + 1) /\ Reviews!Conflict(c)
  <2>1. /\ head' = head + 1 /\ refused' = refused \cup {req[c].expected}
        /\ Reviews!Leave(c, "idle") /\ Reviews!Unlock(c) /\ UNCHANGED <<answered, revision>>
    BY <1>2 DEF Reviews!Adopt, Reviews!HeadBecomes, Reviews!Conflict
  <2>2. req[c].expected < head'
    BY <1>1, <2>1, RFacts
  <2> QED
    BY <1>2, <2>1, <2>2, HolderLeaves
<1>3. CASE Reviews!IsRecord(head + 1) /\ Reviews!HeadFails(c, head + 1)
  BY <1>3, HolderLeaves DEF Reviews!Adopt, Reviews!HeadFails
<1>4. CASE ~Reviews!IsRecord(head + 1) /\ Reviews!Conflict(c) /\ UNCHANGED <<head, faults>>
  <2>1. req[c].expected < head'
    BY <1>1, <1>4, RFacts DEF Reviews!Outdated
  <2> QED
    BY <1>4, <2>1, HolderLeaves DEF Reviews!Adopt, Reviews!Conflict
<1> QED
  BY <1>2, <1>3, <1>4 DEF Reviews!Adopt

LEMMA CreateStep ==
    ASSUME RInv, NEW c \in Clients, stage[c] \in Held, Reviews!Create(c), ~Reviews!Outdated(c),
           UNCHANGED shown
    PROVE  RInv'
<1>1. /\ lock = c /\ req[c] \in Reviews!Requests /\ req[c].expected = head
      /\ head \in 0 .. MaxAssessments /\ revision \in Files
      /\ \A a \in answered : a[1] \in 1 .. head /\ revision[a[1]] = a[2]
      /\ \A n \in refused : n \in Nat /\ n < head
      /\ FileInv
  BY HolderFacts DEF Reviews!Outdated
<1>2. CASE revision[head + 1] = None
  <2>1. CASE /\ revision' = [revision EXCEPT ![head + 1] = Torn]
             /\ Reviews!Leave(c, "write")
             /\ UNCHANGED <<lock, faults>>
    <3>1. head < MaxAssessments /\ UNCHANGED <<head, answered, refused>>
      BY <1>2 DEF Reviews!Create
    <3>2. Torn \in Reviews!Requests \cup {Torn} /\ Torn \notin Reviews!Requests
      BY RFacts
    <3>3. /\ revision' \in Files /\ FileInv' /\ revision'[head + 1] = Torn
          /\ \A a \in answered : a[1] \in 1 .. head' /\ revision'[a[1]] = a[2]
      BY <2>1, <3>1, <3>2, FileGrows
    <3>4. head' = head /\ answered' = answered /\ refused' = refused /\ lock' = lock
      BY <2>1, <3>1
    <3>5. /\ head' \in 0 .. MaxAssessments /\ head <= head'
          /\ \A n \in refused' : n \in Nat /\ n < head'
          /\ \A a \in answered' : a[1] \in 1 .. head' /\ revision'[a[1]] = a[2]
          /\ revision'[head' + 1] = Torn /\ head' < MaxAssessments /\ req[c].expected = head'
      BY <1>1, <3>1, <3>3, <3>4, RFacts
    <3> QED
      BY <2>1, <3>3, <3>4, <3>5, HolderStep
  <2>2. CASE Reviews!Leave(c, "idle") /\ Reviews!Unlock(c) /\ UNCHANGED revision
    BY <1>2, <2>2, HolderLeaves DEF Reviews!Create
  <2> QED
    BY <1>2, <2>1, <2>2 DEF Reviews!Create
<1>3. CASE revision[head + 1] # None
  <2>1. UNCHANGED revision
    BY <1>3 DEF Reviews!Create
  <2>2. CASE Reviews!OwnOrphan(c) /\ Reviews!Leave(c, "publish") /\ UNCHANGED <<lock, answered, refused, head, faults>>
    <3>1. head' = head /\ answered' = answered /\ refused' = refused /\ lock' = lock /\ revision' = revision
      BY <2>1, <2>2
    <3>2. FileInv'
      BY <1>1, <3>1 DEF FileInv, Reviews!IsRecord
    <3>3. /\ revision' \in Files /\ head' \in 0 .. MaxAssessments /\ head <= head'
          /\ \A n \in refused' : n \in Nat /\ n < head'
          /\ \A a \in answered' : a[1] \in 1 .. head' /\ revision'[a[1]] = a[2]
          /\ revision'[head' + 1] = req[c] /\ req[c].expected = head'
      BY <1>1, <2>2, <3>1, RFacts DEF Reviews!OwnOrphan
    <3> QED
      BY <2>2, <3>1, <3>2, <3>3, HolderStep
  <2>3. CASE ~Reviews!OwnOrphan(c) /\ Reviews!IsRecord(head + 1) /\ Reviews!Adopt(c)
    BY <2>3, AdoptStep
  <2>4. CASE revision[head + 1] = Torn /\ Reviews!Leave(c, "idle") /\ Reviews!Unlock(c)
             /\ UNCHANGED <<answered, refused, head, faults>>
    BY <2>1, <2>4, HolderLeaves
  <2> QED
    BY <1>3, <2>2, <2>3, <2>4 DEF Reviews!Create
<1> QED
  BY <1>2, <1>3

LEMMA DecideStep ==
    ASSUME RInv, NEW c \in Clients, Reviews!Decide(c)
    PROVE  RInv'
<1>1. stage[c] \in Held /\ UNCHANGED shown
  BY DEF Reviews!Decide, Held
<1>2. CASE Reviews!AlreadySaved(c)
  <2>1. /\ head > 0 /\ revision[head] = req[c] /\ UNCHANGED <<revision, head, refused>>
        /\ answered' = answered \cup {<<head, req[c]>>} /\ Reviews!Leave(c, "idle") /\ Reviews!Unlock(c)
    BY <1>2 DEF Reviews!AlreadySaved, Reviews!Done
  <2>2. head \in 1 .. head'
    BY <1>1, <2>1, HolderFacts, RFacts
  <2> QED
    BY <1>1, <2>1, <2>2, HolderLeaves
<1>3. CASE Reviews!Outdated(c) /\ Reviews!Adopt(c)
  BY <1>1, <1>3, AdoptStep
<1>4. CASE ~Reviews!Outdated(c) /\ Reviews!Create(c)
  BY <1>1, <1>4, CreateStep
<1> QED
  BY <1>2, <1>3, <1>4 DEF Reviews!Decide

LEMMA WriteStep ==
    ASSUME RInv, NEW c \in Clients, Reviews!WriteRevision(c)
    PROVE  RInv'
<1>1. stage[c] \in Held /\ UNCHANGED <<head, shown, answered, refused>>
  BY DEF Reviews!WriteRevision, Held
<1>2. /\ lock = c /\ req[c] \in Reviews!Requests /\ head \in 0 .. MaxAssessments
      /\ \A n \in refused : n \in Nat /\ n < head
  BY <1>1, HolderFacts
<1>3. head < MaxAssessments /\ req[c].expected = head
  BY DEF RInv, LockInv, Reviews!WriteRevision
<1>4. revision' \in {revision, [revision EXCEPT ![head + 1] = req[c]]}
  BY DEF Reviews!WriteRevision
<1>5. /\ revision' \in Files /\ FileInv'
      /\ \A a \in answered : a[1] \in 1 .. head' /\ revision'[a[1]] = a[2]
      /\ revision' = [revision EXCEPT ![head + 1] = req[c]] => revision'[head + 1] = req[c]
  BY <1>1, <1>2, <1>3, <1>4, FileGrows
<1>6. /\ head' \in 0 .. MaxAssessments /\ head <= head' /\ req[c].expected = head'
      /\ \A a \in answered' : a[1] \in 1 .. head' /\ revision'[a[1]] = a[2]
      /\ \A n \in refused' : n \in Nat /\ n < head'
  BY <1>1, <1>2, <1>3, <1>5, RFacts
<1>7. CASE revision' = [revision EXCEPT ![head + 1] = req[c]] /\ Reviews!Leave(c, "publish") /\ UNCHANGED lock
  <2>1. revision'[head' + 1] = req[c]
    BY <1>1, <1>5, <1>7
  <2> QED
    BY <1>1, <1>5, <1>6, <1>7, <2>1, HolderStep
<1>8. CASE Reviews!Leave(c, "idle") /\ Reviews!Unlock(c)
  <2>1. lock' = None
    BY <1>2, <1>8 DEF Reviews!Unlock
  <2> QED
    BY <1>1, <1>5, <1>6, <1>8, <2>1, HolderStep
<1> QED
  BY <1>7, <1>8 DEF Reviews!WriteRevision

LEMMA PublishStep ==
    ASSUME RInv, NEW c \in Clients, Reviews!Publish(c)
    PROVE  RInv'
<1>1. stage[c] \in Held /\ UNCHANGED <<revision, shown>>
  BY DEF Reviews!Publish, Held
<1>2. /\ req[c] \in Reviews!Requests /\ head \in 0 .. MaxAssessments /\ revision[head + 1] = req[c]
  BY <1>1, HolderFacts DEF Reviews!Publish, RInv, LockInv
<1>3. Reviews!IsRecord(head + 1)
  BY <1>2, RFacts DEF Reviews!IsRecord
<1>4. CASE Reviews!HeadBecomes(head + 1) /\ Reviews!Done(c, head + 1) /\ UNCHANGED refused
  <2>1. /\ head' = head + 1 /\ answered' = answered \cup {<<head + 1, req[c]>>}
        /\ Reviews!Leave(c, "idle") /\ Reviews!Unlock(c) /\ UNCHANGED refused
    BY <1>4 DEF Reviews!HeadBecomes, Reviews!Done
  <2>2. head + 1 \in 1 .. head'
    BY <1>2, <2>1, RFacts
  <2> QED
    BY <1>1, <1>2, <1>3, <2>1, <2>2, HolderLeaves
<1>5. CASE Reviews!HeadFails(c, head + 1)
  BY <1>1, <1>3, <1>5, HolderLeaves DEF Reviews!HeadFails
<1> QED
  BY <1>4, <1>5 DEF Reviews!Publish

LEMMA CrashStep ==
    ASSUME RInv, Reviews!Crash
    PROVE  RInv'
<1>1. /\ stage' = [c \in Clients |-> "idle"] /\ req' = [c \in Clients |-> None] /\ lock' = None
      /\ UNCHANGED <<revision, head, shown, answered, refused>>
  BY DEF Reviews!Crash, Reviews!diskVars
<1>2. FileInv' /\ Reviews!AnsweredIsKept' /\ Reviews!ConflictIsVisible'
  BY <1>1 DEF RInv, FileInv, Reviews!AnsweredIsKept,
              Reviews!ConflictIsVisible, Reviews!IsRecord
<1>3. RType'
  BY <1>1 DEF RInv, RType, Places
<1>4. SeenInv' /\ LockInv'
  BY <1>1, RFacts DEF RInv, SeenInv, LockInv, Held
<1> QED
  BY <1>2, <1>3, <1>4 DEF RInv

LEMMA ReviewsInit == Reviews!Init => RInv
<1> SUFFICES ASSUME Reviews!Init PROVE RInv
  OBVIOUS
<1>1. RType
  BY RFacts DEF Reviews!Init, RType, Files, Places
<1>2. FileInv
  BY RFacts DEF Reviews!Init, FileInv, Reviews!IsRecord
<1>3. SeenInv /\ LockInv
  BY RFacts DEF Reviews!Init, SeenInv, LockInv, Held
<1>4. Reviews!AnsweredIsKept /\ Reviews!ConflictIsVisible
  BY DEF Reviews!Init, Reviews!AnsweredIsKept, Reviews!ConflictIsVisible
<1> QED
  BY <1>1, <1>2, <1>3, <1>4 DEF RInv

LEMMA ReviewsStep == RInv /\ [Reviews!Next]_(Reviews!vars) => RInv'
<1> SUFFICES ASSUME RInv, [Reviews!Next]_(Reviews!vars) PROVE RInv'
  OBVIOUS
<1>1. CASE UNCHANGED <<revision, head, lock, stage, req, shown, answered, refused>>
  <2>1. RType' /\ FileInv'
    BY <1>1 DEF RInv, RType, FileInv, Reviews!IsRecord
  <2>2. SeenInv' /\ LockInv'
    BY <1>1 DEF RInv, SeenInv, LockInv
  <2>3. Reviews!AnsweredIsKept' /\ Reviews!ConflictIsVisible'
    BY <1>1 DEF RInv, Reviews!AnsweredIsKept, Reviews!ConflictIsVisible
  <2> QED
    BY <2>1, <2>2, <2>3 DEF RInv
<1>2. CASE Reviews!EditCatalog
  BY <1>1, <1>2 DEF Reviews!EditCatalog, Reviews!diskVars
<1>3. CASE UNCHANGED Reviews!vars
  BY <1>1, <1>3 DEF Reviews!vars
<1>4. ASSUME NEW c \in Clients,
             Reviews!LoadDraft(c) \/ Reviews!LoadAssessment(c) \/ Reviews!Submit(c) \/ Reviews!Check(c) \/ Reviews!Lock(c)
                \/ Reviews!Decide(c) \/ Reviews!WriteRevision(c) \/ Reviews!Publish(c)
      PROVE  RInv'
  BY <1>4, PageSteps, SubmitStep, CheckStep, LockStep, DecideStep, WriteStep,
     PublishStep
<1> QED
  BY <1>2, <1>3, <1>4, CrashStep DEF Reviews!Next

LEMMA ReviewsPromise == RInv => Reviews!AssessmentsAreKept
BY DEF RInv, FileInv, Reviews!AssessmentsAreKept, Reviews!HistoryIsWhole

------------------------------------------------------------------------------
(* The theorem about assessments. *)

\* An assessment that was answered as saved stays where it is, the revisions
\* have no gap and each follows the one its author was shown, and whoever is
\* refused can see what he has missed (internal/aimaintenance/review.go).
THEOREM AssessmentsSound == MCSpec => []AssessmentsAreKept
<1>1. RInv => AssessmentsAreKept
  BY ReviewsPromise DEF AssessmentsAreKept
<1> QED
  BY <1>1, ReviewsInit, ReviewsStep, ReviewsRun, PTL DEF Reviews!Spec

================================================================================
