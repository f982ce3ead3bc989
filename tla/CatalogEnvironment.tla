----------------------- MODULE CatalogEnvironment ------------------------
(***************************************************************************)
(* The scheduler's catalog driven by an arbitrary environment: any packet  *)
(* of Startups and Reports, well formed or not, from any process, in any   *)
(* order and any number of times.  What holds here holds whatever the      *)
(* workers and the transport do.                                           *)
(***************************************************************************)
EXTENDS QuorumCatalog

CONSTANTS
  Startups,     \* startup inventories the environment may present
  Reports,      \* reports the environment may present
  Candidates    \* candidate sets that longest() may be called with

ASSUME EnvironmentAssumption ==
  /\ Startups \subseteq StartupMessage
  /\ Reports \subseteq ReportMessage
  /\ Candidates \subseteq SUBSET (Spans \X Entries)

CatalogInit == catalog = InitCatalog

Startup == \E m \in Startups : apply_startup(m)
Report == \E m \in Reports : apply_report(m)
Lookup == \E cs \in Candidates : longest(cs)

CatalogNext ==
  \/ Startup
  \/ Report
  \/ Lookup
  \/ read_quorum_count

CatalogSpec == CatalogInit /\ [][CatalogNext]_catalog

--------------------------------------------------------------------------
\* The attributes of the catalog keep the types of their annotations.
CatalogTypeOK == IsCatalog(catalog)

\* The two indexes that _withdraw_rank, _replace_rank and _enforce_bound
\* maintain by hand never disagree with _rank_entries: an entry is listed for
\* exactly the ranks that hold it and is evictable exactly while it is listed.
IndexesAgree == InverseIndex(catalog) /\ RecencyIndex(catalog)

\* Whatever is reported, the catalog lists at most Capacity entries between
\* calls: _enforce_bound evicts before _replace_rank returns, never too late.
MemoryBounded == Cardinality(Listed(catalog)) <= Capacity

\* A rank whose image is in doubt (a gap, a malformed packet, a generation
\* change or conflict) contributes to no quorum: an entry has a quorum only
\* while every rank is synchronized and identified (has_quorum, is_ready).
QuorumOnlyWhenReady ==
  \A e \in Entries : has_quorum(catalog, e) =>
    /\ catalog.desynchronized = {}
    /\ catalog.generation_conflicts = {}
    /\ \A r \in Ranks : catalog.generation[r] # NoIdentity

\* The quorum_count cache is dropped by every change that could alter it:
\* when filled it still equals a fresh count.
QuorumCountFresh == CountFresh(catalog)

\* A half-assembled checkpoint, whose size is kept in a counter adjusted page
\* by page, never holds more entries than the image it announced, nor more
\* than the catalog bound, and never a page beyond its count.
PendingBounded ==
  \A r \in Ranks :
    LET p == catalog.pending[r]
    IN /\ p.entry_count <= p.held_count
       /\ p.held_count <= Capacity
       /\ \A i \in p.received : i < p.count
       /\ p.entry_count =
            Cardinality({x \in PageIndex \X Entries : p.pages[x[1]][x[2]] # 0})

\* A rank passes from one process to another only when the other has a
\* strictly greater epoch, and a rank whose processes could not be ordered
\* comes back only that way: neither a delayed packet of an older process nor
\* a packet of either process of an equal epoch re-admits the rank
\* (_generation_disposition, _generation_conflicts).
OnlyNewerTakesOver ==
  [][\A r \in Ranks : catalog.generation[r] # NoIdentity =>
       \/ /\ catalog'.generation[r] = catalog.generation[r]
          /\ r \in catalog.generation_conflicts =>
               r \in catalog'.generation_conflicts
       \/ catalog'.generation[r].epoch > catalog.generation[r].epoch]_catalog
==========================================================================
