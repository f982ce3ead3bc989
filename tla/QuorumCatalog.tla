-------------------------- MODULE QuorumCatalog --------------------------
(***************************************************************************)
(* The scheduler's catalog, class QuorumCatalog of quorum.py: what every   *)
(* rank is known to hold, per worker process generation, and the entries   *)
(* that all ranks hold.                                                    *)
(*                                                                         *)
(* The object is one record.  A method is an operator from the record to   *)
(* the set of records it may leave: the only choice is which entries a     *)
(* batch of touches leaves least recent, because the order in which a dict *)
(* is iterated is abstracted.  Two attributes are not kept:                *)
(* generation_changes_total (a telemetry counter) and max_bytes (Capacity).*)
(***************************************************************************)
EXTENDS InventoryImages, Sequences

CONSTANTS
  Ranks,         \* expected_ranks
  HistoryLimit   \* _GENERATION_HISTORY_LIMIT

ASSUME CatalogAssumption ==
  /\ Ranks # {}
  /\ IsFiniteSet(Ranks)
  /\ HistoryLimit \in Nat \ {0}

VARIABLE catalog

\* A worker process: its UUID and its generation epoch; uuid 0 is None.
Identity == [uuid : Nat \ {0}, epoch : Nat]
NoIdentity == [uuid |-> 0, epoch |-> 0]

\* _PendingCheckpoint: pages[i] is the page received under index i, empty
\* for an index outside received.  A count of 0 stands for None.
PageIndex == 0..(Capacity - 1)

Pending == [sequence : Nat, cycle : Nat, count : Nat, held_count : Nat,
            received : SUBSET PageIndex, pages : [PageIndex -> Image],
            entry_count : Int]

NoPending == [sequence |-> 0, cycle |-> 0, count |-> 0, held_count |-> 0,
              received |-> {}, pages |-> [i \in PageIndex |-> NoEntries],
              entry_count |-> 0]

Unknown == -1     \* quorum_count is None

IsCatalog(c) ==
  /\ DOMAIN c = {"generation", "generation_history", "sequences",
                 "rank_entries", "entry_ranks", "pending", "desynchronized",
                 "generation_conflicts", "recency", "quorum_count"}
  /\ c.generation \in [Ranks -> Identity \cup {NoIdentity}]
  /\ c.generation_history \in [Ranks -> Seq(Identity)]
  /\ c.sequences \in [Ranks -> Nat]
  /\ c.rank_entries \in [Ranks -> Image]
  /\ c.entry_ranks \in [Entries -> SUBSET Ranks]
  /\ c.pending \in [Ranks -> Pending]
  /\ c.desynchronized \subseteq Ranks
  /\ c.generation_conflicts \subseteq Ranks
  /\ c.recency \subseteq Entries \X Entries
  /\ c.quorum_count \in Int

InitCatalog ==
  [generation           |-> [r \in Ranks |-> NoIdentity],
   generation_history   |-> [r \in Ranks |-> <<>>],
   sequences            |-> [r \in Ranks |-> 0],
   rank_entries         |-> [r \in Ranks |-> NoEntries],
   entry_ranks          |-> [e \in Entries |-> {}],
   pending              |-> [r \in Ranks |-> NoPending],
   desynchronized       |-> Ranks,
   generation_conflicts |-> {},
   recency              |-> {},
   quorum_count         |-> Unknown]

--------------------------------------------------------------------------
(* Recency: the OrderedDict is the total preorder "touched no later than"  *)
(* on its keys, a set of pairs.  Entries touched in one loop are equal.    *)

RecencyKeys(R) == {e \in Entries : <<e, e>> \in R}

Forget(R, S) == {p \in R : p[1] \notin S /\ p[2] \notin S}

touch(R, S) == Forget(R, S) \cup ((RecencyKeys(R) \cup S) \X S)

\* V is a possible result of popping oldest entries: nothing that stays was
\* touched before something that goes.
OldestFirst(R, V) == \A v \in V, x \in RecencyKeys(R) \ V : <<v, x>> \in R

--------------------------------------------------------------------------
(* The private methods.                                                    *)

\* Mutants: the recency of a withdrawn entry, or the count, is left behind.
withdraw_rank_leaves_recency(c, r) ==
  [c EXCEPT !.quorum_count = Unknown,
            !.entry_ranks = [e \in Entries |-> c.entry_ranks[e] \ {r}],
            !.rank_entries[r] = NoEntries]

withdraw_rank_leaves_count(c, r) ==
  [c EXCEPT !.entry_ranks = [e \in Entries |-> c.entry_ranks[e] \ {r}],
            !.recency = Forget(c.recency, {e \in Keys(c.rank_entries[r]) :
                                             c.entry_ranks[e] = {r}}),
            !.rank_entries[r] = NoEntries]

withdraw_rank(c, r) ==
  LET mine == Keys(c.rank_entries[r])
      gone == {e \in mine : c.entry_ranks[e] \subseteq {r}}
  IN [c EXCEPT !.quorum_count = Unknown,
               !.entry_ranks = [e \in Entries |->
                  IF e \in mine THEN c.entry_ranks[e] \ {r}
                                ELSE c.entry_ranks[e]],
               !.recency = Forget(c.recency, gone),
               !.rank_entries[r] = NoEntries]

Listed(c) == {e \in Entries : c.entry_ranks[e] # {}}

\* The catalog without the entries V that the bound pushed out.
Evicted(c, V) ==
  [c EXCEPT !.quorum_count = Unknown,
            !.recency = Forget(c.recency, V),
            !.entry_ranks = [e \in Entries |->
               IF e \in V THEN {} ELSE c.entry_ranks[e]],
            !.rank_entries = [r \in Ranks |->
               [e \in Entries |-> IF e \in V /\ r \in c.entry_ranks[e]
                                  THEN 0 ELSE c.rank_entries[r][e]]]]

\* Mutant: the bound is off by one.
enforce_bound_late(c) ==
  IF Cardinality(Listed(c)) <= Capacity + 1 THEN {c}
  ELSE {Evicted(c, V) : V \in {V \in SUBSET Listed(c) :
                                 /\ Cardinality(Listed(c) \ V) = Capacity + 1
                                 /\ OldestFirst(c.recency, V)}}

enforce_bound(c) ==
  IF Cardinality(Listed(c)) <= Capacity THEN {c}
  ELSE {Evicted(c, V) : V \in {V \in SUBSET RecencyKeys(c.recency) :
                                 /\ Cardinality(Listed(c) \ V) = Capacity
                                 /\ V \subseteq Listed(c)
                                 /\ OldestFirst(c.recency, V)}}

\* The part of _replace_rank before _enforce_bound.
Replaced(c, r, image) ==
  LET w == withdraw_rank(c, r)
  IN [w EXCEPT !.rank_entries[r] = image,
               !.entry_ranks = [e \in Entries |->
                  IF e \in Keys(image) THEN w.entry_ranks[e] \cup {r}
                                       ELSE w.entry_ranks[e]],
               !.recency = touch(w.recency, Keys(image)),
               !.desynchronized = w.desynchronized \ {r}]

replace_rank(c, r, image) == enforce_bound(Replaced(c, r, image))

\* Mutants: another process of the same epoch, or of any epoch, is newer.
disposition_of_equal_epoch(c, r, id) ==
  IF c.generation[r] = NoIdentity THEN "initial"
  ELSE IF id = c.generation[r] THEN "current"
  ELSE IF id.epoch < c.generation[r].epoch THEN "stale" ELSE "newer"

disposition_of_any_epoch(c, r, id) ==
  IF c.generation[r] = NoIdentity THEN "initial"
  ELSE IF id = c.generation[r] THEN "current" ELSE "newer"

generation_disposition(c, r, id) ==
  LET previous == c.generation[r]
      history == c.generation_history[r]
  IN IF previous = NoIdentity THEN "initial"
     ELSE IF id.epoch < previous.epoch
          THEN IF \E i \in 1..Len(history) : history[i] = id
               THEN "stale" ELSE "conflict"
     ELSE IF id.epoch > previous.epoch THEN "newer"
     ELSE IF id.uuid # previous.uuid \/ r \in c.generation_conflicts
          THEN "conflict"
     ELSE "current"

\* A deque of at most HistoryLimit identities.
Remember(history, id) ==
  IF \E i \in 1..Len(history) : history[i] = id THEN history
  ELSE Append(IF Len(history) < HistoryLimit THEN history ELSE Tail(history),
              id)

\* Mutants: the absent process is remembered; pages of the previous process
\* are kept.
adopt_generation_remembers_none(c, r, id) ==
  [withdraw_rank(c, r) EXCEPT
     !.generation_history[r] = Remember(@, c.generation[r]),
     !.generation[r] = id,
     !.sequences[r] = 0,
     !.pending[r] = NoPending,
     !.desynchronized = @ \cup {r},
     !.generation_conflicts = @ \ {r}]

adopt_generation_keeps_pages(c, r, id) ==
  [withdraw_rank(c, r) EXCEPT !.generation[r] = id,
                              !.sequences[r] = 0,
                              !.desynchronized = @ \cup {r},
                              !.generation_conflicts = @ \ {r}]

adopt_generation(c, r, id) ==
  LET previous == c.generation[r]
      w == withdraw_rank(c, r)
  IN [w EXCEPT !.generation_history[r] =
                 IF previous \in {NoIdentity, id} THEN @
                 ELSE Remember(@, previous),
               !.generation[r] = id,
               !.sequences[r] = 0,
               !.pending[r] = NoPending,
               !.desynchronized = @ \cup {r},
               !.generation_conflicts = @ \ {r}]

\* Mutant: the rank is marked but its image stays listed.
desynchronize_only_marks(c, r) == [c EXCEPT !.desynchronized = @ \cup {r}]

\* Withdraw the image and wait for a complete checkpoint.
desynchronize(c, r) ==
  [withdraw_rank(c, r) EXCEPT !.desynchronized = @ \cup {r}]

\* The same, with the half-assembled checkpoint thrown away.
discard(c, r) == [desynchronize(c, r) EXCEPT !.pending[r] = NoPending]

mark_generation_conflict(c, r) ==
  [discard(c, r) EXCEPT !.generation_conflicts = @ \cup {r}]

--------------------------------------------------------------------------
(* Messages.  identified is FALSE when the generation identity itself is   *)
(* ill-typed or out of range; wellformed is FALSE when any other field has *)
(* the wrong Python type or range, or a delta or startup inventory lists   *)
(* an entry twice.  A page lists an entry once; two pages may list it.     *)

Checkpoint == [sequence : Nat, cycle : Nat, index : Nat, count : Nat,
               held_count : Nat, entries : Image]

StartupMessage == [rank : Ranks, identified : BOOLEAN, id : Identity,
                   wellformed : BOOLEAN, entries : Image]

ReportMessage == [rank : Ranks, identified : BOOLEAN, id : Identity,
                  wellformed : BOOLEAN, checkpoint : Checkpoint,
                  delta : Delta]

validate_inventory_report(m) ==
  LET cp == m.checkpoint
      delta == m.delta
  IN /\ m.wellformed
     /\ cp.count > 0
     /\ cp.count <= 1 \/ cp.count <= cp.held_count
     /\ cp.index < cp.count
     /\ cp.held_count <= Capacity
     /\ Size(cp.entries) <= MaxReportEntries
     /\ Size(cp.entries) <= cp.held_count
     /\ \/ delta = NoDelta
        \/ /\ delta.base_sequence >= 0
           /\ delta.sequence = delta.base_sequence + 1
           /\ Size(delta.added) + Cardinality(delta.removed)
                <= MaxReportEntries
           /\ Keys(delta.added) \cap delta.removed = {}

--------------------------------------------------------------------------
(* apply_startup                                                           *)

startup_results(c, m) ==
  LET r == m.rank
      disposition == generation_disposition(c, r, m.id)
      adopted == adopt_generation(c, r, m.id)
  IN IF ~m.identified \/ disposition = "conflict"
     THEN {mark_generation_conflict(c, r)}
     ELSE IF disposition \in {"stale", "current"} THEN {c}
     ELSE IF ~m.wellformed \/ Size(m.entries) > Capacity THEN {adopted}
     ELSE replace_rank(adopted, r, m.entries)

--------------------------------------------------------------------------
(* apply_report, in the order of its statements.                           *)

delta_results(c, r, delta) ==
  LET current == c.sequences[r]
  IN IF delta = NoDelta \/ r \in c.desynchronized THEN {c}
     ELSE IF delta.base_sequence = current /\ delta.sequence = current + 1
     THEN replace_rank([c EXCEPT !.sequences[r] = delta.sequence], r,
                       Patched(c.rank_entries[r], delta))
     ELSE IF delta.sequence > current THEN {desynchronize(c, r)}
     ELSE {c}

\* Mutant: a later checkpoint is no reason to withdraw.
checkpoint_gap_ignored(c, r, cp) == c

\* A checkpoint of a later state than the catalog's proves a missed delta.
checkpoint_gap(c, r, cp) ==
  IF r \notin c.desynchronized /\ cp.sequence > c.sequences[r]
  THEN desynchronize(c, r) ELSE c

\* Mutant: a page joins whatever checkpoint is under assembly.
pending_for_any_cycle(c, r, cp) ==
  IF c.pending[r].count # 0 THEN c.pending[r]
  ELSE [NoPending EXCEPT !.sequence = cp.sequence, !.cycle = cp.cycle,
                         !.count = cp.count, !.held_count = cp.held_count]

\* The checkpoint that the page belongs to, fresh unless already begun.
pending_for(c, r, cp) ==
  LET pending == c.pending[r]
  IN IF /\ pending.count # 0
        /\ pending.cycle = cp.cycle
        /\ pending.sequence = cp.sequence
     THEN pending
     ELSE [NoPending EXCEPT !.sequence = cp.sequence, !.cycle = cp.cycle,
                            !.count = cp.count, !.held_count = cp.held_count]

\* Mutant: a page received again is counted again.
with_page_counted_twice(pending, cp) ==
  [pending EXCEPT !.received = @ \cup {cp.index},
                  !.pages = [@ EXCEPT ![cp.index] = cp.entries],
                  !.entry_count = @ + Size(cp.entries)]

\* The page stored under its index; a page received again is overwritten.
with_page(pending, cp) ==
  [pending EXCEPT
     !.received = @ \cup {cp.index},
     !.pages = [@ EXCEPT ![cp.index] = cp.entries],
     !.entry_count = @ - Size(pending.pages[cp.index]) + Size(cp.entries)]

\* dict(flattened): the union of the pages.
Flattened(pages) ==
  [e \in Entries |->
     IF \E i \in PageIndex : pages[i][e] # 0
     THEN pages[CHOOSE i \in PageIndex : pages[i][e] # 0][e]
     ELSE 0]

\* All pages are there: the image replaces the rank's, unless a delta has
\* overtaken it or the pages do not add up to the image they announce.
completed(c, r, pending) ==
  LET done == [c EXCEPT !.pending[r] = NoPending]
      image == Flattened(pending.pages)
  IN IF pending.sequence < c.sequences[r] THEN {done}
     ELSE IF \/ pending.entry_count # pending.held_count
             \/ Size(image) # pending.entry_count
     THEN {desynchronize(done, r)}
     ELSE replace_rank([done EXCEPT !.sequences[r] = pending.sequence], r,
                       image)

checkpoint_results(c, r, cp) ==
  LET g == checkpoint_gap(c, r, cp)
      pending == pending_for(g, r, cp)
      grown == with_page(pending, cp)
  IN IF \/ cp.count # pending.count
        \/ cp.held_count # pending.held_count
        \/ grown.entry_count > pending.held_count
     THEN {discard(g, r)}
     ELSE IF Cardinality(grown.received) = grown.count
     THEN completed(g, r, grown)
     ELSE {[g EXCEPT !.pending[r] = grown]}

report_results(c, m) ==
  LET r == m.rank
      disposition == generation_disposition(c, r, m.id)
      adopted == IF disposition \in {"initial", "newer"}
                 THEN adopt_generation(c, r, m.id) ELSE c
  IN IF ~m.identified \/ disposition = "conflict"
     THEN {mark_generation_conflict(c, r)}
     ELSE IF disposition = "stale" THEN {c}
     ELSE IF ~validate_inventory_report(m) THEN {discard(adopted, r)}
     ELSE UNION {checkpoint_results(d, r, m.checkpoint) :
                   d \in delta_results(adopted, r, m.delta)}

--------------------------------------------------------------------------
(* Queries.                                                                *)

\* Mutant: the ranks may hold different spans.
has_quorum_of_any_span(c, e) == c.entry_ranks[e] = Ranks

has_quorum(c, e) ==
  /\ c.entry_ranks[e] = Ranks
  /\ \E span \in Spans : \A r \in Ranks : c.rank_entries[r][e] = span

QuorumSpan(c, e) == c.rank_entries[CHOOSE r \in Ranks : TRUE][e]

Quorate(c) == {e \in Entries : has_quorum(c, e)}

--------------------------------------------------------------------------
(* The parts of the catalog's structural invariant, as predicates of one   *)
(* record: the proof follows each method's intermediate records.           *)

\* _entry_ranks is the inverse of _rank_entries.
InverseIndex(c) ==
  \A r \in Ranks, e \in Entries :
    r \in c.entry_ranks[e] <=> c.rank_entries[r][e] # 0

\* _recency has exactly the keys of _entry_ranks.
RecencyIndex(c) ==
  /\ c.recency \subseteq Listed(c) \X Listed(c)
  /\ \A e \in Listed(c) : <<e, e>> \in c.recency

\* A desynchronized rank exposes nothing, and so does a rank in conflict or
\* without a generation.
WithdrawnEmpty(c) ==
  /\ \A r \in c.desynchronized : c.rank_entries[r] = NoEntries
  /\ c.generation_conflicts \subseteq c.desynchronized
  /\ \A r \in Ranks : c.generation[r] = NoIdentity => r \in c.desynchronized

\* The cached quorum count is absent or right.
CountFresh(c) == c.quorum_count \in {Unknown, Cardinality(Quorate(c))}

--------------------------------------------------------------------------
(* The public methods as actions.                                          *)

apply_startup(m) == catalog' \in startup_results(catalog, m)

apply_report(m) == catalog' \in report_results(catalog, m)

\* longest() touches the quorate candidate of greatest (span, id), if any.
longest(candidates) ==
  LET hits == {e \in Quorate(catalog) :
                 <<QuorumSpan(catalog, e), e>> \in candidates}
  IN \E e \in hits :
       /\ \A f \in hits : \/ QuorumSpan(catalog, f) < QuorumSpan(catalog, e)
                          \/ /\ QuorumSpan(catalog, f) = QuorumSpan(catalog, e)
                             /\ f <= e
       /\ catalog' = [catalog EXCEPT !.recency = touch(@, {e})]

\* The quorum_count property fills its cache when it is empty.
read_quorum_count ==
  /\ catalog.quorum_count = Unknown
  /\ catalog' = [catalog EXCEPT
                   !.quorum_count = Cardinality(Quorate(catalog))]
==========================================================================
