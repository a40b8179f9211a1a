----------------------------- MODULE MCAiSweeps -----------------------------
(***************************************************************************)
(* The two scopes of the AI worker, for TLC: catalog_only (AiCatalogSweep) *)
(* and facts_and_catalog (AiFactSweep).  A server runs one of them.        *)
(***************************************************************************)
EXTENDS AiCatalogSweep

CONSTANTS NumFacts, PageSize, MaxPublished

VARIABLES
    scope,
    fact, versions, catalog, words, disk, proposals, factRun, deleted,
    changed, published, failed

factVars == <<fact, versions, catalog, words, disk, proposals, factRun,
              deleted, changed, published, failed>>

FactSweep == INSTANCE AiFactSweep WITH
                run <- factRun, changes <- changed, faults <- failed

ASSUME FactsAssumption == FactSweep!FactSweepAssumption

\* One change by people and one fault; with the second card on hold two
\* changes and no fault as well.  The words everything begins with are any of
\* Words; one choice stands for all.  In the facts two changes and no fault,
\* or one change and one fault.
MCInit ==
    /\ scope \in {"catalog_only", "facts_and_catalog"}
    /\ Init
    /\ \A p \in Projects : live[p].text = CHOOSE w \in Words : TRUE
    /\ ~policy[1].hold
    /\ <<changes, faults>> \in {<<0, MaxFaults>>, <<1, 0>>}
    /\ changes = 0 => \E p \in Projects : policy[p].hold
    /\ scope = "facts_and_catalog" => changes = 0
    /\ FactSweep!Init
    /\ IF scope = "facts_and_catalog" THEN changed + failed = 1
                                      ELSE changed = 0 /\ failed = 0

CatalogPart(A) == scope = "catalog_only" /\ A /\ UNCHANGED <<scope, factVars>>

FactsPart(A) == scope = "facts_and_catalog" /\ A /\ UNCHANGED <<scope, vars>>

\* The ticker starts the next run of either sweep.
MCSpec ==
    /\ MCInit
    /\ [][CatalogPart(Next) \/ FactsPart(FactSweep!Next)]_<<scope, vars, factVars>>
    /\ WF_<<scope, vars, factVars>>(CatalogPart(Sweep) \/ FactsPart(FactSweep!Sweep))

------------------------------------------------------------------------------
(* The properties of both scopes. *)

\* Descriptions and their sources belong together, and none is out of reach.
CatalogIsKept == DescribesItsSource /\ NeverLocksItselfOut

\* Nothing is marked as seen without a proposal (AiFactSweep).
SeenWasProposed == FactSweep!SeenWasProposed

\* Nothing is published, or reported gone, on facts that are stale.
PublishedOnCurrentFacts == FactSweep!PublishedOnCurrentFacts

\* The worker comes to rest: under catalog_only with every card processed as
\* it is (ComesToRest), under facts_and_catalog with a proposal for every
\* current fact (EveryFactIsProposed).
SweepsFinish ==
    <>[](IF scope = "catalog_only" THEN AtRest ELSE FactSweep!AllProposed)
=============================================================================
