-------------------------- MODULE ProtocolProofs --------------------------
(***************************************************************************)
(* Theorems about workers, transport and catalog together, for any ranks,  *)
(* entries, batches and bounds.                                            *)
(***************************************************************************)
EXTENDS InventoryProtocol, CatalogProofs

---------------------------------------------------------------------------
(* The invariant.                                                          *)

\* A delta leads from what its process advertised at one sequence number to
\* what it advertised at the next, or to less.
DeltaRight(r, g, delta) ==
  \/ delta = NoDelta
  \/ /\ delta.base_sequence \in Nat
     /\ delta.sequence = delta.base_sequence + 1
     /\ delta.sequence \in Sequence
     /\ Within(Patched(images[r][g][delta.base_sequence], delta),
               images[r][g][delta.sequence])

\* A reporter: what it has not yet announced it knows of, and its checkpoint is
\* of what it last announced.
ReporterOK(w) ==
  /\ Size(w.held) <= Capacity
  /\ ~w.dirty => w.held = w.observed
  /\ w.checkpoint_sequence = w.sequence
  /\ w.checkpoint_items = w.observed
  /\ w.sequence \in Sequence

ReportersOK == \A r \in Ranks : ReporterOK(reporter[r])

\* The record of what the running process has advertised ends with what the
\* reporter last announced, and its retained deltas fit the record.
HistoryOK ==
  \A r \in Ranks : process[r] # 0 =>
    /\ images[r][process[r]][reporter[r].sequence] = reporter[r].observed
    /\ \A s \in Sequence :
         s > reporter[r].sequence => images[r][process[r]][s] = NoEntries
    /\ \A i \in 1..Len(reporter[r].history) :
         /\ DeltaRight(r, process[r], reporter[r].history[i])
         /\ reporter[r].history[i].sequence <= reporter[r].sequence

\* Nothing comes from a process that has not started.
Unborn ==
  \A r \in Ranks, g \in Generations : g > process[r] =>
    /\ images[r][g] = [s \in Sequence |-> NoEntries]
    /\ wire[r][g] = <<>>

HandshakesOK ==
  \A m \in handshakes :
    /\ m.identified
    /\ m.id.uuid \in 1..process[m.rank]
    /\ m.id = IdentityOf(m.rank, m.id.uuid)
    /\ m.entries = images[m.rank][m.id.uuid][0]

\* A report under way: its page and its delta are of what its process had
\* advertised, which is no more than it held when it sent the report.
PacketOK(r, g, p) ==
  LET m == p.report
      cp == m.checkpoint
  IN /\ m.rank = r /\ m.identified /\ m.id = IdentityOf(r, g)
     /\ cp.sequence \in Sequence
     /\ g = process[r] => cp.sequence <= reporter[r].sequence
     /\ Within(images[r][g][cp.sequence], p.held)
     /\ Within(cp.entries, images[r][g][cp.sequence])
     /\ cp.held_count = Size(images[r][g][cp.sequence])
     /\ DeltaRight(r, g, m.delta)
     /\ m.delta.sequence <= cp.sequence

SequenceOf(p) == p.report.checkpoint.sequence

\* Reports of one process are under way in the order of their sequence numbers.
WireOK ==
  \A r \in Ranks, g \in Generations :
    /\ \A i \in 1..Len(wire[r][g]) : PacketOK(r, g, wire[r][g][i])
    /\ \A i, j \in 1..Len(wire[r][g]) :
         i <= j => SequenceOf(wire[r][g][i]) <= SequenceOf(wire[r][g][j])

\* What a catalog has of rank r is part of what process g advertised at the
\* sequence number that the catalog has, and so are the pages under assembly.
Tracks(c, r, g) ==
  /\ c.sequences[r] \in Sequence
  /\ c.pending[r].sequence \in Sequence
  /\ Within(c.rank_entries[r], images[r][g][c.sequences[r]])
  /\ \A i \in PageIndex :
       Within(c.pending[r].pages[i], images[r][g][c.pending[r].sequence])

\* It is not ahead of n.
Upto(c, r, n) == c.sequences[r] <= n /\ c.pending[r].sequence <= n

\* The catalog follows one process of each rank, from behind.
Following ==
  \A r \in Ranks : catalog.generation[r] # NoIdentity =>
    LET g == catalog.generation[r].uuid
    IN /\ g \in 1..process[r]
       /\ catalog.generation[r] = IdentityOf(r, g)
       /\ Tracks(catalog, r, g)
       /\ g = process[r] => Upto(catalog, r, reporter[r].sequence)
       /\ \A i \in 1..Len(wire[r][g]) :
            Upto(catalog, r, SequenceOf(wire[r][g][i]))

\* No process heard of is newer than the one the catalog follows, and none is
\* as new unless the rank is in conflict.
HeardOK ==
  \A r \in Ranks :
    /\ heard[r] \subseteq 1..process[r]
    /\ catalog.generation[r] = NoIdentity => heard[r] = {}
    /\ \A h \in heard[r] :
         LET g == catalog.generation[r].uuid
         IN /\ epochs[r][h] <= epochs[r][g]
            /\ h # g /\ r \notin catalog.generation_conflicts =>
                 epochs[r][h] < epochs[r][g]

PInv ==
  /\ TypeOK /\ Sound(catalog) /\ Bounded(catalog)
  /\ ReportersOK /\ HistoryOK /\ Unborn /\ HandshakesOK /\ WireOK /\ Following
  /\ HeardOK /\ Fresh

---------------------------------------------------------------------------
(* Inventories.                                                            *)

\* Parts of parts are parts.
LEMMA WithinTrans ==
  ASSUME NEW a, NEW b, NEW c, Within(a, b), Within(b, c)
  PROVE  Within(a, c)
  BY DEF Within

\* Nothing, the same and a selection are parts.
LEMMA WithinEasy ==
  ASSUME NEW a, NEW S
  PROVE  Within(NoEntries, a) /\ Within(a, a) /\ Within(Only(a, S), a)
  BY DEF Within, NoEntries, Only

\* A delta takes a part to a part.
LEMMA PatchedWithin ==
  ASSUME NEW a, NEW b, Within(a, b), NEW delta
  PROVE  Within(Patched(a, delta), Patched(b, delta))
  BY DEF Within, Patched

\* A part with as many keys is the whole: this is why next_report may compare
\* lengths only, and apply_report too.
LEMMA WithinEqual ==
  ASSUME NEW a \in Image, NEW b \in Image, Within(a, b), Size(a) = Size(b)
  PROVE  a = b
<1>1. Keys(a) \in SUBSET Keys(b)
  BY DEF Within, Keys
<1>2. IsFiniteSet(Keys(b))
  BY ImagesAssumption, FS_Subset DEF Keys
<1>3. Keys(a) = Keys(b)
  BY <1>1, <1>2, FS_Subset DEF Size
<1>4. \A e \in Entries : a[e] = b[e]
  BY <1>3 DEF Within, Keys
<1> QED  BY <1>4 DEF Image

\* A part has no more keys.
LEMMA WithinSize ==
  ASSUME NEW a, NEW b, Within(a, b)
  PROVE  Size(a) <= Size(b)
<1>1. Keys(a) \in SUBSET Keys(b)
  BY DEF Within, Keys
<1>2. IsFiniteSet(Keys(b))
  BY ImagesAssumption, FS_Subset DEF Keys
<1> QED  BY <1>1, <1>2, FS_Subset DEF Size

---------------------------------------------------------------------------
(* The reporter.                                                           *)

\* The delta that leads from what w has announced to what o has.
Fitting(w, o) ==
  \E delta \in Delta :
    /\ delta.base_sequence = w.sequence /\ delta.sequence = w.sequence + 1
    /\ o.sequence = w.sequence + 1
    /\ o.history = Retained(w.history, delta)
    /\ o.observed = Patched(w.observed, delta)

\* The deliberate gap.
Skipping(w, o) ==
  \E delta \in Delta :
    /\ delta.base_sequence = w.sequence + 1 /\ delta.sequence = w.sequence + 2
    /\ delta.added = NoEntries /\ delta.removed = {}
    /\ o.sequence = w.sequence + 2
    /\ o.history = <<delta>>

\* Nothing new to announce.
Settled(w, o) ==
  o.sequence = w.sequence /\ o.history = w.history /\ o.observed = w.observed

\* The mutation branch of next_report.
LEMMA ObserveIs ==
  ASSUME NEW w \in Reporter
  PROVE  LET o == observe(w)
         IN /\ o \in Reporter /\ o.held = w.held
            /\ Within(o.observed, o.held)
            /\ o.checkpoint_sequence = o.sequence
            /\ o.checkpoint_items = o.observed
            /\ Fitting(w, o) \/ Skipping(w, o)
<1> DEFINE fits == Cardinality(Obsolete(w)) <= BatchSize
           delta == NewDelta(w)
           history == IF fits THEN Retained(w.history, delta) ELSE <<delta>>
           observed == IF fits THEN Patched(w.observed, delta) ELSE w.held
           cycle == (w.checkpoint_cycle + 1) % CycleModulus
           o == observe(w)
<1>0. /\ w.held \in Image /\ w.observed \in Image /\ w.sequence \in Nat
      /\ w.history \in Seq(Delta) /\ w.checkpoint_cycle \in Nat
  BY DEF Reporter
<1>1. Announced(w) \in Image /\ Within(Announced(w), w.held)
  BY <1>0, WithinEasy DEF Announced, Only, Image
<1>2. /\ delta \in Delta
      /\ fits => /\ delta.base_sequence = w.sequence
                 /\ delta.sequence = w.sequence + 1
                 /\ delta.added = Announced(w) /\ delta.removed = Obsolete(w)
      /\ ~fits => /\ delta.base_sequence = w.sequence + 1
                  /\ delta.sequence = w.sequence + 2
                  /\ delta.added = NoEntries /\ delta.removed = {}
  <2>1. Obsolete(w) \in SUBSET Entries
    BY DEF Obsolete, Keys
  <2>2. CASE fits
    <3>1. delta = [sequence |-> w.sequence + 1, base_sequence |-> w.sequence,
                   added |-> Announced(w), removed |-> Obsolete(w)]
      BY <2>2 DEF NewDelta
    <3> QED  BY <1>0, <1>1, <2>1, <2>2, <3>1 DEF Delta
  <2>3. CASE ~fits
    <3>1. delta = [sequence |-> w.sequence + 2, base_sequence |-> w.sequence + 1,
                   added |-> NoEntries, removed |-> {}]
      BY <2>3 DEF NewDelta
    <3> QED  BY <1>0, <2>3, <3>1, NoneTypes DEF Delta
  <2> QED  BY <2>2, <2>3
<1>3. o = [w EXCEPT !.sequence = delta.sequence,
                    !.observed = observed,
                    !.history = history,
                    !.delta_cursor = Len(history) - 1,
                    !.checkpoint_items = observed,
                    !.checkpoint_sequence = delta.sequence,
                    !.checkpoint_cycle = cycle,
                    !.checkpoint_index = 0]
  BY DEF observe
<1> HIDE DEF delta, fits, o
<1>4. history \in Seq(Delta) /\ Len(history) - 1 \in Nat
  <2>1. CASE fits /\ Len(w.history) < DeltaHistoryLimit
    BY <1>0, <1>2, <2>1 DEF Retained
  <2>2. CASE fits /\ ~(Len(w.history) < DeltaHistoryLimit)
    <3>1. w.history # <<>>
      BY <1>0, <2>2, ReporterAssumption
    <3>2. Tail(w.history) \in Seq(Delta)
      BY <1>0, <3>1
    <3> QED  BY <1>2, <2>2, <3>2 DEF Retained
  <2>3. CASE ~fits
    BY <1>2, <2>3
  <2> QED  BY <2>1, <2>2, <2>3
<1>5. observed \in Image /\ Within(observed, w.held)
  <2>1. CASE fits
    <3>1. Patched(w.observed, delta) \in Image
      BY <1>0, <1>2, PatchedType
    <3>2. ASSUME NEW e \in Entries
          PROVE  Patched(w.observed, delta)[e] \in {0, w.held[e]}
      BY <1>1, <1>2, <2>1 DEF Patched, Within, Obsolete, Keys
    <3> QED  BY <2>1, <3>1, <3>2 DEF Within
  <2>2. CASE ~fits
    BY <1>0, <2>2, WithinEasy
  <2> QED  BY <2>1, <2>2
<1>6. cycle \in Nat /\ delta.sequence \in Nat
  BY <1>0, <1>2, ReporterAssumption DEF Delta
<1>7. fits => history = Retained(w.history, delta) /\ observed = Patched(w.observed, delta)
  OBVIOUS
<1>8. ~fits => history = <<delta>>
  OBVIOUS
<1> HIDE DEF history, observed, cycle
<1>9. /\ o \in Reporter /\ o.held = w.held /\ o.observed = observed
      /\ o.checkpoint_sequence = delta.sequence /\ o.checkpoint_items = observed
      /\ o.sequence = delta.sequence /\ o.history = history
  BY <1>0, <1>3, <1>4, <1>5, <1>6 DEF Reporter
<1>10. Fitting(w, o) \/ Skipping(w, o)
  <2>1. CASE fits
    BY <1>2, <1>7, <1>9, <2>1 DEF Fitting
  <2>2. CASE ~fits
    BY <1>2, <1>8, <1>9, <2>2 DEF Skipping
  <2> QED  BY <2>1, <2>2
<1> QED  BY <1>5, <1>9, <1>10 DEF o

\* Before a report is made: what is announced is held, and whatever is not
\* announced yet leaves the reporter dirty.
LEMMA NoticedIs ==
  ASSUME NEW w \in Reporter, ~w.dirty => w.held = w.observed,
         w.checkpoint_sequence = w.sequence, w.checkpoint_items = w.observed
  PROVE  LET n == noticed(w)
         IN /\ n \in Reporter /\ n.held = w.held
            /\ Within(n.observed, n.held)
            /\ ~n.dirty => n.held = n.observed
            /\ n.checkpoint_sequence = n.sequence
            /\ n.checkpoint_items = n.observed
            /\ Settled(w, n) \/ Fitting(w, n) \/ Skipping(w, n)
<1> DEFINE o == IF w.dirty /\ w.held # w.observed THEN observe(w) ELSE w
           n == noticed(w)
           dirty == Size(o.held) # Size(o.observed)
<1>1. n = [o EXCEPT !.dirty = dirty] /\ dirty \in BOOLEAN
  BY DEF noticed
<1>2. /\ o \in Reporter /\ o.held = w.held
      /\ Within(o.observed, o.held)
      /\ o.checkpoint_sequence = o.sequence
      /\ o.checkpoint_items = o.observed
      /\ Settled(w, o) \/ Fitting(w, o) \/ Skipping(w, o)
  <2>1. CASE w.dirty /\ w.held # w.observed
    BY <2>1, ObserveIs
  <2>2. CASE ~(w.dirty /\ w.held # w.observed)
    <3>1. w.held = w.observed
      BY <2>2 DEF Reporter
    <3> QED  BY <2>2, <3>1, WithinEasy DEF Settled
  <2> QED  BY <2>1, <2>2
<1>3. ~dirty => o.held = o.observed
  <2>1. o.held \in Image /\ o.observed \in Image
    BY <1>2 DEF Reporter
  <2> QED  BY <1>2, <2>1, WithinEqual
<1> HIDE DEF o, n, dirty
<1>4. /\ n \in Reporter /\ n.held = o.held /\ n.observed = o.observed
      /\ n.dirty = dirty /\ n.sequence = o.sequence /\ n.history = o.history
      /\ n.checkpoint_sequence = o.checkpoint_sequence
      /\ n.checkpoint_items = o.checkpoint_items
  BY <1>1, <1>2 DEF Reporter
<1>5. Settled(w, n) \/ Fitting(w, n) \/ Skipping(w, n)
  BY <1>2, <1>4 DEF Settled, Fitting, Skipping
<1> QED  BY <1>2, <1>3, <1>4, <1>5 DEF n

\* The cursors that next_report moves.
LEMMA AdvanceIs ==
  ASSUME NEW w \in Reporter
  PROVE  LET v == advance(w)
         IN /\ v \in Reporter /\ v.held = w.held /\ v.observed = w.observed
            /\ v.dirty = w.dirty /\ v.sequence = w.sequence
            /\ v.history = w.history
            /\ v.checkpoint_sequence = w.checkpoint_sequence
            /\ v.checkpoint_items = w.checkpoint_items
<1> DEFINE wrapped == w.checkpoint_index + 1 >= PageCount(w)
           index == IF wrapped THEN 0 ELSE w.checkpoint_index + 1
           cycle == IF wrapped THEN (w.checkpoint_cycle + 1) % CycleModulus
                    ELSE w.checkpoint_cycle
           cursor == IF w.history = <<>> THEN w.delta_cursor
                     ELSE (w.delta_cursor + 1) % Len(w.history)
           v == advance(w)
<1>0. /\ w.checkpoint_index \in Nat /\ w.checkpoint_cycle \in Nat
      /\ w.delta_cursor \in Nat /\ w.history \in Seq(Delta)
  BY DEF Reporter
<1>1. v = [w EXCEPT !.checkpoint_index = index, !.checkpoint_cycle = cycle,
                    !.delta_cursor = cursor]
  BY DEF advance
<1>2. index \in Nat /\ cycle \in Nat
  BY <1>0, ReporterAssumption
<1>3. cursor \in Nat
  <2>1. w.history # <<>> => Len(w.history) \in Nat /\ Len(w.history) > 0
    BY <1>0
  <2> DEFINE n == Len(w.history)
  <2> HIDE DEF n
  <2>2. ASSUME n \in Nat, n > 0  PROVE (w.delta_cursor + 1) % n \in Nat
    BY <1>0, <2>2
  <2> QED  BY <1>0, <2>1, <2>2 DEF n
<1> HIDE DEF index, cycle, cursor, v
<1>4. /\ v \in Reporter /\ v.held = w.held /\ v.observed = w.observed
      /\ v.dirty = w.dirty /\ v.sequence = w.sequence
      /\ v.history = w.history
      /\ v.checkpoint_sequence = w.checkpoint_sequence
      /\ v.checkpoint_items = w.checkpoint_items
  BY <1>1, <1>2, <1>3 DEF Reporter
<1> QED  BY <1>4 DEF v

\* The page of a report is part of the checkpoint, whose size it names.
LEMMA PageIs ==
  ASSUME NEW w \in Reporter
  PROVE  LET cp == CurrentPage(w)
         IN /\ cp \in Checkpoint
            /\ cp.sequence = w.checkpoint_sequence
            /\ cp.held_count = Size(w.checkpoint_items)
            /\ Within(cp.entries, w.checkpoint_items)
<1> DEFINE entries == PageOf(w.checkpoint_items, w.checkpoint_index)
           cp == CurrentPage(w)
           size == Size(w.checkpoint_items)
<1>0. /\ w.checkpoint_items \in Image /\ w.checkpoint_index \in Nat
      /\ w.checkpoint_sequence \in Nat /\ w.checkpoint_cycle \in Nat
  BY DEF Reporter
<1>1. entries \in Image /\ Within(entries, w.checkpoint_items)
  <2>1. PICK S : entries = Only(w.checkpoint_items, S)
    BY DEF PageOf
  <2>2. Only(w.checkpoint_items, S) \in Image
    BY <1>0 DEF Only, Image
  <2> QED  BY <2>1, <2>2, WithinEasy
<1>2. size \in Nat
  BY SizeType
<1>3. PageCount(w) \in Nat
  <2>1. BatchSize \in Nat /\ BatchSize > 0
    BY ReporterAssumption, ImagesAssumption
  <2>2. PageCount(w) = IF size = 0 THEN 1 ELSE (size + BatchSize - 1) \div BatchSize
    BY DEF PageCount
  <2> HIDE DEF size
  <2>3. size + BatchSize - 1 \in Nat
    BY <1>2, <2>1
  <2>4. (size + BatchSize - 1) \div BatchSize \in Nat
    BY <2>1, <2>3
  <2> QED  BY <2>2, <2>4
<1>4. cp = [sequence |-> w.checkpoint_sequence, cycle |-> w.checkpoint_cycle,
            index |-> w.checkpoint_index, count |-> PageCount(w),
            held_count |-> size, entries |-> entries]
  BY DEF CurrentPage
<1> HIDE DEF entries, cp, size
<1>5. /\ cp \in Checkpoint /\ cp.sequence = w.checkpoint_sequence
      /\ cp.held_count = size /\ cp.entries = entries
  BY <1>0, <1>1, <1>2, <1>3, <1>4 DEF Checkpoint
<1> QED  BY <1>1, <1>5 DEF cp, size

\* The delta of a report is one of those retained.
LEMMA DeltaIs ==
  ASSUME NEW w \in Reporter
  PROVE  /\ CurrentDelta(w) \in Delta
         /\ \/ CurrentDelta(w) = NoDelta
            \/ \E i \in 1..Len(w.history) : CurrentDelta(w) = w.history[i]
<1> DEFINE n == Len(w.history)
           i == (w.delta_cursor % n) + 1
<1>0. w.delta_cursor \in Nat /\ w.history \in Seq(Delta) /\ n \in Nat
  BY DEF Reporter
<1>1. NoDelta \in Delta
  BY NoneTypes DEF NoDelta, Delta
<1>2. CASE w.history = <<>>
  BY <1>1, <1>2 DEF CurrentDelta
<1>3. CASE w.history # <<>>
  <2>1. n > 0
    BY <1>0, <1>3
  <2>2. i \in 1..n
    <3> HIDE DEF n
    <3>1. w.delta_cursor % n \in 0..(n - 1)
      BY <1>0, <2>1
    <3> QED  BY <1>0, <2>1, <3>1
  <2>3. CurrentDelta(w) = w.history[i]
    BY <1>3 DEF CurrentDelta
  <2>4. w.history[i] \in Delta
    BY <1>0, <2>2
  <2> QED  BY <2>2, <2>3, <2>4
<1> QED  BY <1>2, <1>3

\* A mutation of the held catalog: nothing is announced, and the reporter is
\* dirty unless nothing is new.
Mutated(w, v) ==
  /\ v \in Reporter
  /\ Size(v.held) <= Capacity
  /\ ~v.dirty => v.held = v.observed
  /\ v.observed = w.observed /\ v.sequence = w.sequence
  /\ v.history = w.history
  /\ v.checkpoint_sequence = w.checkpoint_sequence
  /\ v.checkpoint_items = w.checkpoint_items

\* replace keeps no more than fit.
LEMMA ReplaceMutates ==
  ASSUME NEW w \in Reporter, NEW image \in Image, NEW v \in replace(w, image)
  PROVE  Mutated(w, v) /\ v.dirty /\ v.held \in Image
<1>1. PICK S \in SUBSET Keys(image) :
        /\ v = [w EXCEPT !.held = Only(image, S), !.dirty = TRUE]
        /\ \/ S = Keys(image) /\ Cardinality(S) <= Capacity
           \/ Size(image) > Capacity /\ Cardinality(S) = Capacity
  BY Zenon DEF replace
<1>c. Cardinality(S) <= Capacity
  BY <1>1, ImagesAssumption
<1> DEFINE held == Only(image, S)
<1>2. held \in Image
  BY DEF Only, Image
<1>3. Keys(held) = S
  BY DEF Only, Keys
<1>4. Size(held) <= Capacity
  BY <1>c, <1>3 DEF Size
<1> HIDE DEF held
<1>5. v = [w EXCEPT !.held = held, !.dirty = TRUE]
  BY <1>1 DEF held
<1> QED  BY <1>2, <1>4, <1>5 DEF Mutated, Reporter

\* add evicts only for an entry that is new: the flag is then set.
LEMMA AddMutates ==
  ASSUME NEW w \in Reporter, ~w.dirty => w.held = w.observed,
         Size(w.held) <= Capacity,
         NEW e \in Entries, NEW span \in Spans, NEW v \in add(w, e, span)
  PROVE  Mutated(w, v)
<1> DEFINE others == Keys(w.held) \ {e}
<1>0. w.held \in Image /\ w.dirty \in BOOLEAN /\ span # 0
  BY ImagesAssumption DEF Reporter
<1>f. IsFiniteSet(Keys(w.held)) /\ IsFiniteSet(others)
  BY ImagesAssumption, FS_Subset DEF Keys
<1>n. /\ Cardinality(others) \in Nat /\ Size(w.held) \in Nat
      /\ Cardinality(others) = IF e \in Keys(w.held) THEN Size(w.held) - 1
                               ELSE Size(w.held)
  BY <1>f, FS_RemoveElement, FS_CardinalityType DEF Size
<1>1. PICK S \in SUBSET others :
        /\ v = [w EXCEPT !.held = [Only(w.held, S) EXCEPT ![e] = span],
                         !.dirty = w.dirty \/ w.held[e] # span]
        /\ \/ S = others /\ ~(Cardinality(others) + 1 > Capacity)
           \/ /\ Cardinality(others) + 1 > Capacity
              /\ \E victim \in others : S = others \ {victim}
  BY DEF add
<1> DEFINE held == [Only(w.held, S) EXCEPT ![e] = span]
           dirty == w.dirty \/ w.held[e] # span
<1>2. held \in Image
  BY <1>0 DEF Only, Image
<1>3. Keys(held) = S \cup {e}
  BY <1>0, <1>1 DEF Only, Keys
<1>s. IsFiniteSet(S) /\ Cardinality(S) \in Nat
  BY <1>f, FS_Subset, FS_CardinalityType
<1>4. Size(held) = Cardinality(S) + 1
  BY <1>1, <1>3, <1>s, FS_AddElement DEF Size
<1>5. Size(held) <= Capacity
  <2>1. CASE S = others /\ ~(Cardinality(others) + 1 > Capacity)
    BY <1>4, <1>n, <2>1, ImagesAssumption
  <2>2. CASE \E victim \in others : S = others \ {victim}
    <3>0. PICK victim \in others : S = others \ {victim}
      BY <2>2
    <3>1. Cardinality(S) = Cardinality(others) - 1
      BY <1>f, <3>0, FS_RemoveElement
    <3> QED  BY <1>4, <1>n, <3>1, ImagesAssumption
  <2> QED  BY <1>1, <2>1, <2>2
<1>6. ~dirty => held = w.observed
  <2> SUFFICES ASSUME ~dirty  PROVE held = w.observed
    OBVIOUS
  <2>1. w.held = w.observed /\ w.held[e] = span
    BY <1>0
  <2>2. e \in Keys(w.held)
    BY <1>0, <2>1 DEF Keys
  <2>3. ~(Cardinality(others) + 1 > Capacity)
    BY <1>n, <2>2, ImagesAssumption
  <2>4. S = others
    BY <1>1, <2>3
  <2>5. \A x \in Entries : held[x] = w.held[x]
    BY <2>1, <2>4 DEF Only, Keys
  <2> QED  BY <1>0, <1>2, <2>1, <2>5 DEF Image
<1>7. dirty \in BOOLEAN
  OBVIOUS
<1>8. v = [w EXCEPT !.held = held, !.dirty = dirty]
  BY <1>1
<1> HIDE DEF held, dirty
<1> QED  BY <1>2, <1>5, <1>6, <1>7, <1>8 DEF Mutated, Reporter

\* remove.
LEMMA RemoveMutates ==
  ASSUME NEW w \in Reporter, ~w.dirty => w.held = w.observed,
         Size(w.held) <= Capacity, NEW e \in Entries
  PROVE  Mutated(w, remove(w, e))
<1> DEFINE held == [w.held EXCEPT ![e] = 0]
           dirty == w.dirty \/ w.held[e] # 0
           v == remove(w, e)
<1>0. w.held \in Image /\ w.dirty \in BOOLEAN
  BY DEF Reporter
<1>1. held \in Image
  BY <1>0 DEF Image
<1>2. Within(held, w.held)
  BY <1>0 DEF Within, Image
<1>3. Size(held) <= Capacity
  BY <1>2, WithinSize, SizeType, ImagesAssumption
<1>4. ~dirty => held = w.observed
  BY <1>0 DEF Image
<1>5. dirty \in BOOLEAN
  OBVIOUS
<1>6. v = [w EXCEPT !.held = held, !.dirty = dirty]
  BY DEF remove
<1> HIDE DEF held, dirty, v
<1>7. Mutated(w, v)
  BY <1>1, <1>3, <1>4, <1>5, <1>6 DEF Mutated, Reporter
<1> QED  BY <1>7 DEF v

---------------------------------------------------------------------------
(* Packets and the catalog.                                                *)

\* If the pages under assembly and the new page are of one image, so is what
\* they make up.
LEMMA PagesOfOne ==
  ASSUME NEW c, IsCatalog(c), NEW r \in Ranks, NEW cp \in Checkpoint,
         cp.index \in PageIndex, NEW image, Within(cp.entries, image),
         c.pending[r].sequence = cp.sequence =>
           \A i \in PageIndex : Within(c.pending[r].pages[i], image)
  PROVE  LET grown == with_page(pending_for(c, r, cp), cp)
         IN /\ \A i \in PageIndex : Within(grown.pages[i], image)
            /\ Within(Flattened(grown.pages), image)
<1> DEFINE p == pending_for(c, r, cp)
           grown == with_page(p, cp)
<1>1. p \in Pending
  BY WithPageType
<1>2. \A i \in PageIndex : Within(p.pages[i], image)
  <2>1. CASE p = c.pending[r] /\ c.pending[r].sequence = cp.sequence
    BY <2>1
  <2>2. CASE p = [NoPending EXCEPT !.sequence = cp.sequence, !.cycle = cp.cycle,
                                   !.count = cp.count, !.held_count = cp.held_count]
    <3>1. p.pages = [i \in PageIndex |-> NoEntries]
      BY <2>2 DEF NoPending
    <3> HIDE DEF p
    <3> QED  BY <3>1, WithinEasy
  <2> QED  BY <2>1, <2>2 DEF pending_for
<1> HIDE DEF p
<1>3. grown.pages = [p.pages EXCEPT ![cp.index] = cp.entries]
  BY <1>1 DEF with_page, Pending
<1>4. p.pages \in [PageIndex -> Image]
  BY <1>1 DEF Pending
<1> HIDE DEF grown
<1>5. \A i \in PageIndex : Within(grown.pages[i], image)
  BY <1>2, <1>3, <1>4
<1>6. Within(Flattened(grown.pages), image)
  <2> SUFFICES ASSUME NEW e \in Entries
               PROVE  Flattened(grown.pages)[e] \in {0, image[e]}
    BY DEF Within
  <2>1. CASE \E i \in PageIndex : grown.pages[i][e] # 0
    <3> DEFINE i == CHOOSE i \in PageIndex : grown.pages[i][e] # 0
    <3>1. i \in PageIndex
      BY <2>1
    <3>2. Flattened(grown.pages)[e] = grown.pages[i][e]
      BY <2>1 DEF Flattened
    <3> HIDE DEF i
    <3> QED  BY <1>5, <3>1, <3>2 DEF Within
  <2>2. CASE ~ \E i \in PageIndex : grown.pages[i][e] # 0
    BY <2>2 DEF Flattened
  <2> QED  BY <2>1, <2>2
<1> QED  BY <1>5, <1>6 DEF grown, p

\* A withdrawn rank has nothing.
LEMMA WithdrawnHasNothing ==
  ASSUME NEW c, Sound(c), NEW r, r \in c.desynchronized, NEW image
  PROVE  c.rank_entries[r] = NoEntries /\ Within(c.rank_entries[r], image)
  BY WithinEasy DEF Sound, WithdrawnEmpty

\* The delta of a report leaves the catalog with part of what its process
\* advertised.
LEMMA DeltaTracks ==
  ASSUME NEW c, Sound(c), Bounded(c), NEW r \in Ranks, Live(c, r), NEW g,
         NEW delta \in Delta, DeltaRight(r, g, delta), NEW n \in Nat,
         delta.sequence <= n, Tracks(c, r, g), Upto(c, r, n),
         NEW d \in delta_results(c, r, delta)
  PROVE  Tracks(d, r, g) /\ Upto(d, r, n)
<1>1. /\ Steady(c, d, r)
      /\ \/ DeltaApplied(c, d, r, delta)
         \/ DeltaMissed(c, d, r)
         \/ DeltaIdle(c, d, r, delta)
  BY DeltaResults
<1>2. CASE DeltaApplied(c, d, r, delta)
  <2>1. /\ delta # NoDelta /\ delta.base_sequence = c.sequences[r]
        /\ d.sequences[r] = delta.sequence /\ d.pending = c.pending
        /\ Within(d.rank_entries[r], Patched(c.rank_entries[r], delta))
    BY <1>2 DEF DeltaApplied
  <2>2. /\ delta.sequence \in Sequence
        /\ Within(Patched(images[r][g][c.sequences[r]], delta),
                  images[r][g][delta.sequence])
    BY <2>1 DEF DeltaRight
  <2>3. Within(Patched(c.rank_entries[r], delta),
               Patched(images[r][g][c.sequences[r]], delta))
    BY PatchedWithin DEF Tracks
  <2>4. Within(d.rank_entries[r], images[r][g][d.sequences[r]])
    BY <2>1, <2>2, <2>3, WithinTrans
  <2> QED  BY <2>1, <2>2, <2>4 DEF Tracks, Upto
<1>3. CASE DeltaMissed(c, d, r)
  <2>1. d.sequences = c.sequences /\ d.pending = c.pending /\ r \in d.desynchronized
        /\ Sound(d)
    BY <1>1, <1>3 DEF DeltaMissed, Steady
  <2>2. Within(d.rank_entries[r], images[r][g][d.sequences[r]])
    BY <2>1, WithdrawnHasNothing
  <2> QED  BY <2>1, <2>2 DEF Tracks, Upto
<1>4. CASE DeltaIdle(c, d, r, delta)
  BY <1>4 DEF DeltaIdle
<1> QED  BY <1>1, <1>2, <1>3, <1>4

\* So does its page; and afterwards the rank is withdrawn, or has reached the
\* sequence number of the report.  If the page brings the rank back, it brings all
\* of what the process advertised.
LEMMA PageTracks ==
  ASSUME NEW c, Sound(c), Bounded(c), NEW r \in Ranks, Live(c, r), NEW g,
         NEW cp \in Checkpoint, cp.index \in PageIndex,
         cp.sequence \in Sequence, cp.held_count <= Capacity,
         images[r][g][cp.sequence] \in Image,
         Within(cp.entries, images[r][g][cp.sequence]),
         cp.held_count = Size(images[r][g][cp.sequence]),
         Tracks(c, r, g), Upto(c, r, cp.sequence),
         NEW d \in checkpoint_results(c, r, cp)
  PROVE  /\ Tracks(d, r, g) /\ Upto(d, r, cp.sequence)
         /\ r \notin d.desynchronized => d.sequences[r] = cp.sequence
         /\ r \in c.desynchronized \ d.desynchronized =>
              d.rank_entries[r] = images[r][g][cp.sequence]
<1> DEFINE image == images[r][g][cp.sequence]
           grown == with_page(pending_for(c, r, cp), cp)
<1>0. IsCatalog(c) /\ c.sequences[r] \in Nat /\ cp.sequence \in Nat
  BY DEF Sound, IsCatalog, Checkpoint
<1>1. /\ Steady(c, d, r)
      /\ PageKept(c, d, r, cp) \/ PageCompletes(c, d, r, cp)
  BY CheckpointResults
<1>2. /\ grown \in Pending /\ grown.sequence = cp.sequence
      /\ Flattened(grown.pages) \in Image
  BY <1>0, WithPageType
<1>3. /\ \A i \in PageIndex : Within(grown.pages[i], image)
      /\ Within(Flattened(grown.pages), image)
  BY <1>0, PagesOfOne DEF Tracks
<1>4. 0 \in Sequence
  BY ProtocolAssumption DEF Sequence
<1>5. /\ NoPending.sequence = 0
      /\ \A i \in PageIndex : NoPending.pages[i] = NoEntries
  BY DEF NoPending
<1> HIDE DEF grown
<1>6. ASSUME d.pending[r] \in {NoPending, grown}
      PROVE  /\ d.pending[r].sequence \in Sequence
             /\ d.pending[r].sequence <= cp.sequence
             /\ \A i \in PageIndex :
                  Within(d.pending[r].pages[i], images[r][g][d.pending[r].sequence])
  BY <1>0, <1>2, <1>3, <1>4, <1>5, <1>6, WithinEasy
<1>7. CASE PageKept(c, d, r, cp)
  <2>1. /\ d.sequences = c.sequences
        /\ d.pending[r] \in {NoPending, grown}
        /\ Within(d.rank_entries[r], c.rank_entries[r])
        /\ \/ r \in d.desynchronized
           \/ r \notin c.desynchronized /\ cp.sequence <= c.sequences[r]
    BY <1>7 DEF PageKept, PendingAfter, grown
  <2>2. Within(d.rank_entries[r], images[r][g][d.sequences[r]])
    BY <2>1, WithinTrans DEF Tracks
  <2> QED  BY <1>0, <1>6, <2>1, <2>2 DEF Tracks, Upto
<1>8. CASE PageCompletes(c, d, r, cp)
  <2>1. /\ d.sequences[r] = cp.sequence /\ d.pending[r] = NoPending
        /\ Within(d.rank_entries[r], Flattened(grown.pages))
        /\ Size(Flattened(grown.pages)) = cp.held_count
        /\ d.rank_entries[r] = Flattened(grown.pages)
    BY <1>8 DEF PageCompletes, grown
  <2>2. Flattened(grown.pages) = image
    BY <1>2, <1>3, <2>1, WithinEqual
  <2>3. Within(d.rank_entries[r], images[r][g][d.sequences[r]])
    BY <2>1, <2>2, WithinEasy
  <2> QED  BY <1>0, <1>6, <2>1, <2>2, <2>3 DEF Tracks, Upto
<1> QED  BY <1>1, <1>7, <1>8

\* The report is of an older process of the rank.
Stale(d, r, g) ==
  /\ d = catalog
  /\ catalog.generation[r] # NoIdentity
  /\ catalog.generation[r].uuid # g
  /\ epochs[r][g] < catalog.generation[r].epoch

\* It cannot be ordered.
Conflict(d, r, g) ==
  /\ Conflicted(catalog, d, r)
  /\ catalog.generation[r] # NoIdentity
  /\ epochs[r][g] <= catalog.generation[r].epoch

\* The catalog follows process g now, as it did before or from now on.
Follows(d, r, g) ==
  /\ d.generation[r] = IdentityOf(r, g)
  /\ r \notin d.generation_conflicts
  /\ \/ d.generation[r] = catalog.generation[r] /\ r \notin catalog.generation_conflicts
     \/ catalog.generation[r] = NoIdentity
     \/ epochs[r][g] > catalog.generation[r].epoch
  /\ Tracks(d, r, g)

\* A packet of the rank's process, or of one that can be ordered neither before
\* nor after.
LEMMA DispositionOf ==
  ASSUME PInv, NEW r \in Ranks, NEW g \in Generations
  PROVE  LET w == generation_disposition(catalog, r, IdentityOf(r, g))
         IN /\ w = "stale" => /\ catalog.generation[r] # NoIdentity
                              /\ catalog.generation[r].uuid # g
                              /\ epochs[r][g] < catalog.generation[r].epoch
            /\ w = "conflict" => /\ catalog.generation[r] # NoIdentity
                                 /\ epochs[r][g] <= catalog.generation[r].epoch
            /\ w = "current" => /\ catalog.generation[r] = IdentityOf(r, g)
                                /\ r \notin catalog.generation_conflicts
<1> DEFINE id == IdentityOf(r, g)
           previous == catalog.generation[r]
<1>1. /\ id.epoch = epochs[r][g] /\ id.uuid = g /\ epochs[r][g] \in Nat
      /\ id = [uuid |-> g, epoch |-> epochs[r][g]]
  BY DEF PInv, TypeOK, IdentityOf
<1>2. previous # NoIdentity => /\ previous \in Identity
                               /\ previous.epoch = epochs[r][previous.uuid]
  <2>1. catalog.generation \in [Ranks -> Identity \cup {NoIdentity}]
    BY DEF PInv, TypeOK, IsCatalog
  <2>2. previous # NoIdentity => previous = IdentityOf(r, previous.uuid)
    BY DEF PInv, Following
  <2>3. \A n : IdentityOf(r, n).epoch = epochs[r][n]
    BY DEF IdentityOf
  <2>4. \A n : IdentityOf(r, previous.uuid) = n => n.epoch = epochs[r][previous.uuid]
    BY <2>3
  <2> QED  BY <2>1, <2>2, <2>4
<1>3. previous # NoIdentity => /\ previous.epoch \in Nat
                               /\ previous = [uuid |-> previous.uuid, epoch |-> previous.epoch]
  BY <1>2 DEF Identity
<1> HIDE DEF id, previous
<1>4. LET w == generation_disposition(catalog, r, id)
      IN /\ w = "stale" => previous # NoIdentity /\ id.epoch < previous.epoch
         /\ w = "conflict" => previous # NoIdentity /\ ~(id.epoch > previous.epoch)
         /\ w = "current" => /\ previous # NoIdentity /\ ~(id.epoch < previous.epoch)
                             /\ ~(id.epoch > previous.epoch) /\ id.uuid = previous.uuid
                             /\ r \notin catalog.generation_conflicts
  BY <1>1, <1>3 DEF generation_disposition, previous
<1>5. previous # NoIdentity /\ previous.uuid = g => previous.epoch = id.epoch
  BY <1>1, <1>2
<1> QED  BY <1>1, <1>3, <1>4, <1>5 DEF id, previous

\* A report of process g of rank r at sequence number s, garbled or not.
ReportOf(r, g, m, s) ==
  /\ m.rank = r /\ m.identified /\ m.id = IdentityOf(r, g)
  /\ s = m.checkpoint.sequence /\ s \in Sequence
  /\ Within(m.checkpoint.entries, images[r][g][s])
  /\ m.checkpoint.held_count = Size(images[r][g][s])
  /\ DeltaRight(r, g, m.delta) /\ m.delta.sequence <= s
  /\ catalog.generation[r] # NoIdentity /\ catalog.generation[r].uuid = g =>
       Upto(catalog, r, s)

\* What it leaves of the rank it is about.
Received(d, r, g, s) ==
  \/ Stale(d, r, g)
  \/ Conflict(d, r, g)
  \/ /\ Follows(d, r, g) /\ Upto(d, r, s)
     /\ r \notin d.desynchronized => d.sequences[r] = s
     /\ r \in catalog.desynchronized \ d.desynchronized =>
          d.rank_entries[r] = images[r][g][s]

\* A report is of an older process, cannot be ordered, or is followed.
LEMMA ReportFollows ==
  ASSUME PInv, NEW r \in Ranks, NEW g \in Generations, NEW m \in ReportMessage,
         NEW s, ReportOf(r, g, m, s), NEW d \in report_results(catalog, m)
  PROVE  /\ Sound(d) /\ Bounded(d) /\ Others(catalog, d, r)
         /\ Received(d, r, g, s)
<1> USE DEF Received
<1>1. /\ m.rank = r /\ m.identified /\ m.id = IdentityOf(r, g)
      /\ s = m.checkpoint.sequence /\ s \in Sequence
      /\ Within(m.checkpoint.entries, images[r][g][s])
      /\ m.checkpoint.held_count = Size(images[r][g][s])
      /\ DeltaRight(r, g, m.delta) /\ m.delta.sequence <= s
      /\ catalog.generation[r] # NoIdentity /\ catalog.generation[r].uuid = g =>
           Upto(catalog, r, s)
  BY DEF ReportOf
<1> DEFINE c == catalog
           id == IdentityOf(r, g)
           w == generation_disposition(c, r, id)
           a == Receiving(c, r, id)
<1>2. /\ Sound(c) /\ Bounded(c) /\ m.delta \in Delta /\ m.checkpoint \in Checkpoint
      /\ id \in Identity /\ s \in Nat /\ images[r][g][s] \in Image
  <2>1. images \in [Ranks -> [Generations -> [Sequence -> Image]]]
    BY DEF PInv, TypeOK
  <2> QED  BY <1>1, <2>1, ProtocolAssumption DEF PInv, ReportMessage, Sequence
<1>3. /\ Sound(d) /\ Bounded(d) /\ Others(c, d, r)
      /\ \/ d = c /\ w = "stale"
         \/ Conflicted(c, d, r) /\ Disputed(c, m)
         \/ /\ w \notin {"stale", "conflict"}
            /\ \/ d = discard(a, r)
               \/ /\ m.checkpoint.index \in PageIndex
                  /\ validate_inventory_report(m)
                  /\ \E x \in delta_results(a, r, m.delta) :
                       d \in checkpoint_results(x, r, m.checkpoint)
  BY <1>1, <1>2, ReportResults
<1>4. CASE d = c /\ w = "stale"
  BY <1>3, <1>4, DispositionOf DEF Stale
<1>5. CASE Conflicted(c, d, r) /\ Disputed(c, m)
  <2>1. w = "conflict"
    BY <1>1, <1>5 DEF Disputed
  <2> QED  BY <1>3, <1>5, <2>1, DispositionOf DEF Conflict
<1>6. CASE /\ w \notin {"stale", "conflict"}
           /\ \/ d = discard(a, r)
              \/ /\ m.checkpoint.index \in PageIndex
                 /\ validate_inventory_report(m)
                 /\ \E x \in delta_results(a, r, m.delta) :
                      d \in checkpoint_results(x, r, m.checkpoint)
  <2>1. /\ Sound(a) /\ Bounded(a) /\ Live(a, r) /\ a.generation[r] = id
        /\ \/ a = c
           \/ Afresh(c, a, r, id) /\ r \in a.desynchronized
    BY <1>2, <1>6, ReceivingLive
  <2>2. /\ Tracks(a, r, g) /\ Upto(a, r, s)
        /\ r \in c.desynchronized => r \in a.desynchronized
        /\ r \notin a.generation_conflicts
        /\ \/ a.generation[r] = c.generation[r] /\ r \notin c.generation_conflicts
           \/ c.generation[r] = NoIdentity
           \/ epochs[r][g] > c.generation[r].epoch
    <3>0. r \notin a.generation_conflicts /\ id.uuid = g /\ id.epoch = epochs[r][g]
      BY <2>1 DEF Live, IdentityOf
    <3>1. CASE a = c
      <4>1. c.generation[r] # NoIdentity /\ c.generation[r].uuid = g
        BY <2>1, <3>0, <3>1 DEF Live
      <4>2. Tracks(c, r, g)
        BY <4>1 DEF PInv, Following
      <4> QED  BY <1>1, <2>1, <3>0, <3>1, <4>1, <4>2
    <3>2. CASE Afresh(c, a, r, id) /\ r \in a.desynchronized
      <4>1. a.sequences[r] = 0 /\ a.pending[r] = NoPending
        BY <3>2 DEF Afresh
      <4>2. Within(a.rank_entries[r], images[r][g][0])
        BY <2>1, <3>2, WithdrawnHasNothing
      <4>3. 0 \in Sequence
        BY ProtocolAssumption DEF Sequence
      <4>4. /\ NoPending.sequence = 0
            /\ \A i \in PageIndex : Within(NoPending.pages[i], images[r][g][0])
        BY WithinEasy DEF NoPending
      <4>5. Tracks(a, r, g) /\ Upto(a, r, s)
        BY <1>2, <4>1, <4>2, <4>3, <4>4 DEF Tracks, Upto
      <4> QED  BY <3>0, <3>2, <4>5 DEF Afresh
    <3> QED  BY <2>1, <3>1, <3>2
  <2> HIDE DEF a, c, id
  <2>3. CASE d = discard(a, r)
    <3>1. /\ Dropped(a, d, r) /\ d.generation = a.generation
          /\ d.generation_conflicts = a.generation_conflicts
          /\ d.sequences = a.sequences
          /\ d.pending = [a.pending EXCEPT ![r] = NoPending]
      BY <2>1, <2>3, DiscardDrops
    <3>2. a.pending \in [Ranks -> Pending]
      BY <2>1 DEF Sound, IsCatalog
    <3>3. d.pending[r] = NoPending /\ r \in d.desynchronized /\ Sound(d)
      BY <3>1, <3>2 DEF Dropped
    <3>4. \A image : Within(d.rank_entries[r], image)
      BY <3>3, WithdrawnHasNothing
    <3>5. 0 \in Sequence
      BY ProtocolAssumption DEF Sequence
    <3>6. /\ NoPending.sequence = 0
          /\ \A i \in PageIndex : Within(NoPending.pages[i], images[r][g][0])
      BY WithinEasy DEF NoPending
    <3>7. Tracks(d, r, g) /\ Upto(d, r, s)
      BY <1>2, <2>2, <3>1, <3>3, <3>4, <3>5, <3>6 DEF Tracks, Upto
    <3> QED  BY <1>3, <2>1, <2>2, <3>1, <3>3, <3>7 DEF Follows, c, id
  <2>4. CASE /\ m.checkpoint.index \in PageIndex
             /\ validate_inventory_report(m)
             /\ \E x \in delta_results(a, r, m.delta) :
                  d \in checkpoint_results(x, r, m.checkpoint)
    <3>1. PICK x \in delta_results(a, r, m.delta) :
            d \in checkpoint_results(x, r, m.checkpoint)
      BY <2>4
    <3>2. /\ Steady(a, x, r)
          /\ r \in a.desynchronized => r \in x.desynchronized
      BY <1>2, <2>1, <3>1, DeltaResults DEF DeltaApplied, DeltaMissed, DeltaIdle
    <3>3. Tracks(x, r, g) /\ Upto(x, r, s)
      BY <1>1, <1>2, <2>1, <2>2, <3>1, DeltaTracks
    <3>4. Sound(x) /\ Bounded(x) /\ Live(x, r)
      BY <2>1, <3>2 DEF Steady, Live
    <3>5. m.checkpoint.held_count <= Capacity
      BY <2>4 DEF validate_inventory_report
    <3>6. /\ Tracks(d, r, g) /\ Upto(d, r, s)
          /\ r \notin d.desynchronized => d.sequences[r] = s
          /\ r \in x.desynchronized \ d.desynchronized =>
               d.rank_entries[r] = images[r][g][s]
      BY <1>1, <1>2, <2>4, <3>1, <3>3, <3>4, <3>5, PageTracks
    <3>7. Steady(x, d, r)
      BY <1>2, <2>4, <3>1, <3>4, CheckpointResults
    <3>8. d.generation = a.generation /\ d.generation_conflicts = a.generation_conflicts
      BY <3>2, <3>7 DEF Steady
    <3> QED  BY <1>3, <2>1, <2>2, <3>2, <3>6, <3>8 DEF Follows, c, id
  <2> QED  BY <1>6, <2>3, <2>4
<1> QED  BY <1>3, <1>4, <1>5, <1>6


---------------------------------------------------------------------------
(* Steps of the transport and the scheduler.                               *)

\* Nothing is under way that was not before.
Fewer(before, after) ==
  \A q \in Ranks, h \in Generations : \A i \in 1..Len(after[q][h]) :
    \E j \in 1..Len(before[q][h]) : after[q][h][i] = before[q][h][j]

\* The first report under way of a process is taken off the wire.
LEMMA WireShrinks ==
  ASSUME PInv, NEW r \in Ranks, NEW g \in Generations, wire[r][g] # <<>>,
         wire' = [wire EXCEPT ![r][g] = Tail(@)],
         UNCHANGED <<reporter, process, epochs, images>>
  PROVE  LET p == Head(wire[r][g])
         IN /\ wire' \in [Ranks -> [Generations -> Seq(Packet)]]
            /\ WireOK' /\ Unborn' /\ Fewer(wire, wire')
            /\ p \in Packet /\ PacketOK(r, g, p) /\ g \in 1..process[r]
            /\ \A i \in 1..Len(wire'[r][g]) :
                 SequenceOf(p) <= SequenceOf(wire'[r][g][i])
<1> DEFINE old == wire[r][g]
           p == Head(old)
<1>1. wire \in [Ranks -> [Generations -> Seq(Packet)]] /\ old \in Seq(Packet)
  BY DEF PInv, TypeOK
<1>2. /\ Tail(old) \in Seq(Packet) /\ p \in Packet /\ p = old[1]
      /\ Len(old) \in Nat /\ Len(old) >= 1 /\ Len(Tail(old)) = Len(old) - 1
      /\ \A i \in 1..Len(Tail(old)) : Tail(old)[i] = old[i + 1]
  BY <1>1
<1>3. PICK t \in Seq(Packet) : t = Tail(old)
  BY <1>2
<1>4. /\ wire' \in [Ranks -> [Generations -> Seq(Packet)]]
      /\ wire'[r][g] = t
      /\ \A q \in Ranks, h \in Generations :
           q # r \/ h # g => wire'[q][h] = wire[q][h]
  BY <1>1, <1>3
<1> HIDE DEF old, p
<1>5. \A q \in Ranks, h \in Generations : \A i \in 1..Len(wire'[q][h]) :
        \E j \in 1..Len(wire[q][h]) :
          /\ wire'[q][h][i] = wire[q][h][j]
          /\ j = (IF q = r /\ h = g THEN i + 1 ELSE i)
  <2> SUFFICES ASSUME NEW q \in Ranks, NEW h \in Generations,
                      NEW i \in 1..Len(wire'[q][h])
               PROVE  \E j \in 1..Len(wire[q][h]) :
                        /\ wire'[q][h][i] = wire[q][h][j]
                        /\ j = (IF q = r /\ h = g THEN i + 1 ELSE i)
    OBVIOUS
  <2>1. CASE q = r /\ h = g
    <3>1. /\ i + 1 \in 1..Len(old) /\ t[i] = old[i + 1]
      BY <1>2, <1>3, <1>4, <2>1
    <3> QED  BY <1>4, <2>1, <3>1 DEF old
  <2>2. CASE q # r \/ h # g
    BY <1>4, <2>2
  <2> QED  BY <2>1, <2>2
<1>6. Fewer(wire, wire')
  <2>1. \A q \in Ranks, h \in Generations : \A i \in 1..Len(wire'[q][h]) :
          \E j \in 1..Len(wire[q][h]) : wire'[q][h][i] = wire[q][h][j]
    <3> SUFFICES ASSUME NEW q \in Ranks, NEW h \in Generations,
                        NEW i \in 1..Len(wire'[q][h])
                 PROVE  \E j \in 1..Len(wire[q][h]) : wire'[q][h][i] = wire[q][h][j]
      OBVIOUS
    <3>1. PICK j \in 1..Len(wire[q][h]) : wire'[q][h][i] = wire[q][h][j]
      BY <1>5
    <3> QED  BY <3>1
  <2> QED  BY <2>1 DEF Fewer
<1>7. PacketOK(r, g, p)
  <2>1. 1 \in 1..Len(old)
    BY <1>2
  <2> QED  BY <1>2, <2>1 DEF PInv, WireOK, old
<1>8. \A i \in 1..Len(wire'[r][g]) : SequenceOf(p) <= SequenceOf(wire'[r][g][i])
  <2> SUFFICES ASSUME NEW i \in 1..Len(t)
               PROVE  SequenceOf(old[1]) <= SequenceOf(t[i])
    BY <1>2, <1>4
  <2>1. i + 1 \in 1..Len(old) /\ 1 \in 1..Len(old) /\ 1 <= i + 1 /\ t[i] = old[i + 1]
    BY <1>2, <1>3
  <2> QED  BY <2>1 DEF PInv, WireOK, old
<1>9. g \in 1..process[r]
  <2>1. ~(g > process[r])
    BY DEF PInv, Unborn
  <2>2. process[r] \in Nat
    BY DEF PInv, TypeOK
  <2> QED  BY <2>1, <2>2 DEF Generations
<1>10. Unborn'
  <2> SUFFICES ASSUME NEW q \in Ranks, NEW h \in Generations, h > process[q]
               PROVE  /\ images[q][h] = [s \in Sequence |-> NoEntries]
                      /\ wire'[q][h] = <<>>
    BY DEF Unborn
  <2>1. /\ images[q][h] = [s \in Sequence |-> NoEntries]
        /\ wire[q][h] = <<>>
    BY DEF PInv, Unborn
  <2> QED  BY <1>4, <2>1
<1>11. WireOK'
  <2> SUFFICES ASSUME NEW q \in Ranks, NEW h \in Generations
               PROVE  /\ \A i \in 1..Len(wire'[q][h]) : PacketOK(q, h, wire[q][h][i])'
                      /\ \A i, j \in 1..Len(wire'[q][h]) :
                           i <= j => SequenceOf(wire'[q][h][i]) <= SequenceOf(wire'[q][h][j])
    BY DEF WireOK, SequenceOf
  <2>1. ASSUME NEW i \in 1..Len(wire'[q][h])
        PROVE  PacketOK(q, h, wire[q][h][i])'
    <3>1. PICK j \in 1..Len(wire[q][h]) : wire'[q][h][i] = wire[q][h][j]
      BY <1>5
    <3>2. PacketOK(q, h, wire[q][h][j])
      BY DEF PInv, WireOK
    <3>3. PICK x : x = wire[q][h][j]
      OBVIOUS
    <3>4. PacketOK(q, h, x)
      BY <3>2, <3>3
    <3>5. PacketOK(q, h, x)'
      BY <3>4 DEF PacketOK, DeltaRight, IdentityOf
    <3> QED  BY <3>1, <3>3, <3>5
  <2>2. ASSUME NEW i \in 1..Len(wire'[q][h]), NEW j \in 1..Len(wire'[q][h]), i <= j
        PROVE  SequenceOf(wire'[q][h][i]) <= SequenceOf(wire'[q][h][j])
    <3>1. PICK a \in 1..Len(wire[q][h]) :
            /\ wire'[q][h][i] = wire[q][h][a]
            /\ a = (IF q = r /\ h = g THEN i + 1 ELSE i)
      BY <1>5
    <3>2. PICK b \in 1..Len(wire[q][h]) :
            /\ wire'[q][h][j] = wire[q][h][b]
            /\ b = (IF q = r /\ h = g THEN j + 1 ELSE j)
      BY <1>5
    <3>3. a <= b
      BY <2>2, <3>1, <3>2
    <3>4. SequenceOf(wire[q][h][a]) <= SequenceOf(wire[q][h][b])
      BY <3>3 DEF PInv, WireOK
    <3> QED  BY <3>1, <3>2, <3>4
  <2> QED  BY <2>1, <2>2
<1> QED  BY <1>2, <1>4, <1>6, <1>7, <1>8, <1>9, <1>10, <1>11 DEF old, p

\* A rank that has lost entries, or its pages, is followed as before.
LEMMA FollowedLess ==
  ASSUME NEW c, NEW d, NEW q \in Ranks, NEW g,
         d.sequences[q] = c.sequences[q],
         d.pending[q] \in {c.pending[q], NoPending},
         Within(d.rank_entries[q], c.rank_entries[q]), Tracks(c, q, g)
  PROVE  /\ Tracks(d, q, g)
         /\ \A n \in Nat : Upto(c, q, n) => Upto(d, q, n)
<1>1. 0 \in Sequence
  BY ProtocolAssumption DEF Sequence
<1>2. /\ NoPending.sequence = 0
      /\ \A i \in PageIndex : Within(NoPending.pages[i], images[q][g][0])
  BY WithinEasy DEF NoPending
<1>3. Within(d.rank_entries[q], images[q][g][c.sequences[q]])
  BY WithinTrans DEF Tracks
<1> QED  BY <1>1, <1>2, <1>3 DEF Tracks, Upto

\* What a catalog knows of rank q, with the reports under way.
FollowingAt(c, after, q) ==
  c.generation[q] # NoIdentity =>
    LET g == c.generation[q].uuid
    IN /\ g \in 1..process[q]
       /\ c.generation[q] = IdentityOf(q, g)
       /\ Tracks(c, q, g)
       /\ g = process[q] => Upto(c, q, reporter[q].sequence)
       /\ \A i \in 1..Len(after[q][g]) :
            Upto(c, q, SequenceOf(after[q][g][i]))

\* A rank whose process stays the same and that loses entries, its pages or
\* reports under way.
LEMMA FollowingLess ==
  ASSUME PInv, NEW d, NEW after, NEW q \in Ranks, Fewer(wire, after),
         d.generation[q] = catalog.generation[q],
         d.sequences[q] = catalog.sequences[q],
         d.pending[q] \in {catalog.pending[q], NoPending},
         Within(d.rank_entries[q], catalog.rank_entries[q])
  PROVE  FollowingAt(d, after, q)
<1> SUFFICES ASSUME catalog.generation[q] # NoIdentity
             PROVE  FollowingAt(d, after, q)
  BY DEF FollowingAt
<1>1. PICK g : g = catalog.generation[q].uuid
  OBVIOUS
<1>2. /\ g \in 1..process[q] /\ catalog.generation[q] = IdentityOf(q, g)
      /\ Tracks(catalog, q, g)
      /\ g = process[q] => Upto(catalog, q, reporter[q].sequence)
      /\ \A i \in 1..Len(wire[q][g]) : Upto(catalog, q, SequenceOf(wire[q][g][i]))
  BY <1>1 DEF PInv, Following
<1>3. /\ Tracks(d, q, g)
      /\ \A n \in Nat : Upto(catalog, q, n) => Upto(d, q, n)
  <2> HIDE DEF PInv
  <2> QED  BY <1>2, FollowedLess
<1>4. g \in Generations
  <2>1. process[q] \in 0..MaxGenerations
    BY DEF PInv, TypeOK
  <2>2. g \in 1..process[q]
    BY <1>2
  <2> QED  BY <2>1, <2>2, ProtocolAssumption DEF Generations
<1>5. reporter[q].sequence \in Nat
  BY DEF PInv, TypeOK, Reporter
<1>6. \A i \in 1..Len(after[q][g]) : Upto(d, q, SequenceOf(after[q][g][i]))
  <2> SUFFICES ASSUME NEW i \in 1..Len(after[q][g])
               PROVE  Upto(d, q, SequenceOf(after[q][g][i]))
    OBVIOUS
  <2>1. PICK j \in 1..Len(wire[q][g]) : after[q][g][i] = wire[q][g][j]
    BY <1>4 DEF Fewer
  <2>2. PacketOK(q, g, wire[q][g][j])
    BY <1>4 DEF PInv, WireOK
  <2>3. SequenceOf(wire[q][g][j]) \in Nat
    <3>1. SequenceOf(wire[q][g][j]) \in Sequence
      BY <2>2 DEF PacketOK, SequenceOf
    <3> QED  BY <3>1, ProtocolAssumption DEF Sequence
  <2> QED  BY <1>2, <1>3, <2>1, <2>3
<1> QED  BY <1>1, <1>2, <1>3, <1>5, <1>6 DEF FollowingAt

\* What a packet of process g leaves of rank r, or of another one.
LEMMA SchedulerFollows ==
  ASSUME PInv, NEW r \in Ranks, NEW g \in 1..process[r],
         NEW d, Sound(d), Others(catalog, d, r), NEW after, Fewer(wire, after),
         \/ Stale(d, r, g)
         \/ Conflict(d, r, g)
         \/ /\ Follows(d, r, g)
            /\ g = process[r] => Upto(d, r, reporter[r].sequence)
            /\ \A i \in 1..Len(after[r][g]) : Upto(d, r, SequenceOf(after[r][g][i]))
  PROVE  \A q \in Ranks : FollowingAt(d, after, q)
<1> SUFFICES ASSUME NEW q \in Ranks
             PROVE  FollowingAt(d, after, q)
  OBVIOUS
<1>1. CASE q # r
  <2>1. /\ d.generation[q] = catalog.generation[q]
        /\ d.sequences[q] = catalog.sequences[q]
        /\ d.pending[q] = catalog.pending[q]
        /\ Within(d.rank_entries[q], catalog.rank_entries[q])
    BY <1>1 DEF Others
  <2> QED  BY <2>1, FollowingLess
<1>2. CASE q = r /\ Stale(d, r, g)
  <2>1. d = catalog /\ Within(d.rank_entries[q], catalog.rank_entries[q])
    BY <1>2, WithinEasy DEF Stale
  <2> QED  BY <2>1, FollowingLess
<1>3. CASE q = r /\ Conflict(d, r, g)
  <2>1. /\ d.generation = catalog.generation /\ d.sequences = catalog.sequences
        /\ d.pending = [catalog.pending EXCEPT ![r] = NoPending]
        /\ r \in d.desynchronized
    BY <1>3 DEF Conflict, Conflicted, Dropped
  <2>2. catalog.pending \in [Ranks -> Pending]
    BY DEF PInv, TypeOK, IsCatalog
  <2>3. Within(d.rank_entries[q], catalog.rank_entries[q])
    BY <1>3, <2>1, WithdrawnHasNothing
  <2>4. d.pending[q] = NoPending
    BY <1>3, <2>1, <2>2
  <2> QED  BY <2>1, <2>3, <2>4, FollowingLess
<1>4. CASE /\ q = r /\ Follows(d, r, g)
           /\ g = process[r] => Upto(d, r, reporter[r].sequence)
           /\ \A i \in 1..Len(after[r][g]) : Upto(d, r, SequenceOf(after[r][g][i]))
  <2>1. d.generation[q] = IdentityOf(r, g) /\ IdentityOf(r, g).uuid = g /\ Tracks(d, r, g)
    BY <1>4 DEF Follows, IdentityOf
  <2>2. d.generation[q].uuid = g
    BY <2>1
  <2> QED  BY <1>4, <2>1, <2>2 DEF FollowingAt
<1> QED  BY <1>1, <1>2, <1>3, <1>4

\* The process that the catalog follows has the epoch the catalog knows it by.
LEMMA OwnerEpoch ==
  ASSUME PInv, NEW r \in Ranks, catalog.generation[r] # NoIdentity
  PROVE  /\ catalog.generation[r].epoch = epochs[r][catalog.generation[r].uuid]
         /\ catalog.generation[r].uuid \in 1..process[r]
         /\ catalog.generation[r].uuid \in Generations
<1>1. /\ catalog.generation[r] = IdentityOf(r, catalog.generation[r].uuid)
      /\ catalog.generation[r].uuid \in 1..process[r]
  BY DEF PInv, Following
<1>2. PICK g : g = catalog.generation[r].uuid
  OBVIOUS
<1>3. IdentityOf(r, g).epoch = epochs[r][g]
  BY DEF IdentityOf
<1>4. process[r] \in 0..MaxGenerations
  BY DEF PInv, TypeOK
<1>5. g \in Generations
  BY <1>1, <1>2, <1>4, ProtocolAssumption DEF Generations
<1> QED  BY <1>1, <1>2, <1>3, <1>5

\* The processes heard of rank q.
HeardAt(c, ears, q) ==
  /\ ears[q] \subseteq 1..process[q]
  /\ c.generation[q] = NoIdentity => ears[q] = {}
  /\ \A h \in ears[q] :
       LET g == c.generation[q].uuid
       IN /\ epochs[q][h] <= epochs[q][g]
          /\ h # g /\ q \notin c.generation_conflicts =>
               epochs[q][h] < epochs[q][g]

\* A packet of process g makes it heard of.
LEMMA SchedulerHears ==
  ASSUME PInv, NEW r \in Ranks, NEW g \in 1..process[r], g \in Generations,
         NEW d, Others(catalog, d, r), NEW ears,
         ears = [heard EXCEPT ![r] = @ \cup {g}],
         Stale(d, r, g) \/ Conflict(d, r, g) \/ Follows(d, r, g)
  PROVE  \A q \in Ranks : HeardAt(d, ears, q)
<1>1. /\ heard \in [Ranks -> SUBSET Generations]
      /\ epochs \in [Ranks -> [Generations -> Nat]]
      /\ \A q \in Ranks : HeardAt(catalog, heard, q)
  BY DEF PInv, TypeOK, HeardOK, HeardAt
<1>2. /\ ears[r] = heard[r] \cup {g}
      /\ \A q \in Ranks : q # r => ears[q] = heard[q]
  BY <1>1
<1> SUFFICES ASSUME NEW q \in Ranks
             PROVE  HeardAt(d, ears, q)
  OBVIOUS
<1>3. CASE q # r
  <2>1. /\ d.generation[q] = catalog.generation[q]
        /\ q \in d.generation_conflicts <=> q \in catalog.generation_conflicts
    BY <1>3 DEF Others
  <2> QED  BY <1>1, <1>2, <1>3, <2>1 DEF HeardAt
<1>4. CASE q = r
  <2> DEFINE k == catalog.generation[r].uuid
             n == d.generation[r].uuid
  <2>1. ears[r] \subseteq 1..process[r]
    BY <1>1, <1>2 DEF HeardAt
  <2>2. catalog.generation[r] # NoIdentity =>
          catalog.generation[r].epoch = epochs[r][k] /\ k \in Generations
    BY OwnerEpoch
  <2>3. \A h \in heard[r] :
          /\ h \in Generations /\ epochs[r][h] \in Nat
          /\ catalog.generation[r] # NoIdentity
          /\ epochs[r][h] <= epochs[r][k]
          /\ h # k /\ r \notin catalog.generation_conflicts =>
               epochs[r][h] < epochs[r][k]
    BY <1>1 DEF HeardAt
  <2>4. /\ epochs[r][g] \in Nat
        /\ k \in Generations => epochs[r][k] \in Nat
    BY <1>1
  <2>5. /\ d.generation[r] # NoIdentity
        /\ \A h \in heard[r] \cup {g} :
             /\ epochs[r][h] <= epochs[r][n]
             /\ h # n /\ r \notin d.generation_conflicts =>
                  epochs[r][h] < epochs[r][n]
    <3>1. CASE Stale(d, r, g)
      <4>1. /\ d = catalog /\ catalog.generation[r] # NoIdentity /\ n = k
            /\ epochs[r][g] < epochs[r][k]
        BY <3>1, <2>2 DEF Stale
      <4> HIDE DEF k, n
      <4> QED  BY <2>2, <2>3, <2>4, <4>1
    <3>2. CASE Conflict(d, r, g)
      <4>1. /\ d.generation = catalog.generation
            /\ catalog.generation[r] # NoIdentity /\ n = k
            /\ epochs[r][g] <= epochs[r][k] /\ r \in d.generation_conflicts
        BY <3>2, <2>2 DEF Conflict, Conflicted
      <4> HIDE DEF k, n
      <4> QED  BY <2>2, <2>3, <2>4, <4>1
    <3>3. CASE Follows(d, r, g)
      <4>1. /\ d.generation[r] = IdentityOf(r, g) /\ IdentityOf(r, g).uuid = g
            /\ \/ d.generation[r] = catalog.generation[r] /\ r \notin catalog.generation_conflicts
               \/ catalog.generation[r] = NoIdentity
               \/ epochs[r][g] > catalog.generation[r].epoch
        BY <3>3 DEF Follows, IdentityOf
      <4>2. n = g /\ d.generation[r] # NoIdentity
        <5>1. n = g
          BY <4>1
        <5> QED  BY <5>1 DEF NoIdentity
      <4>3. \/ k = g /\ r \notin catalog.generation_conflicts
            \/ catalog.generation[r] = NoIdentity
            \/ catalog.generation[r] # NoIdentity /\ epochs[r][g] > epochs[r][k]
        BY <2>2, <4>1, <4>2
      <4> HIDE DEF k, n
      <4>4. \A h \in heard[r] : h # g => epochs[r][h] < epochs[r][g]
        BY <2>2, <2>3, <2>4, <4>3
      <4>5. \A h \in heard[r] : epochs[r][h] <= epochs[r][g]
        BY <2>3, <2>4, <4>4
      <4> QED  BY <2>4, <4>2, <4>4, <4>5
    <3> QED  BY <3>1, <3>2, <3>3
  <2> QED  BY <1>2, <1>4, <2>1, <2>5 DEF HeardAt
<1> QED  BY <1>3, <1>4

\* A withdrawn rank comes back with a whole image (the action of
\* ReadmittedWhole).
Readmits ==
  \A r \in catalog.desynchronized \ catalog'.desynchronized :
    catalog'.rank_entries[r] =
      images[r][catalog'.generation[r].uuid][catalog'.sequences[r]]

\* The scheduler does nothing to the workers.
LEMMA WorkersAlone ==
  ASSUME PInv, UNCHANGED <<reporter, process, epochs, handshakes, images>>
  PROVE  ReportersOK' /\ HistoryOK' /\ HandshakesOK'
<1>1. ReportersOK'
  BY DEF PInv, ReportersOK, ReporterOK
<1>2. HistoryOK'
  <2>1. HistoryOK
    BY DEF PInv
  <2>2. \A r, g, delta : DeltaRight(r, g, delta) => DeltaRight(r, g, delta)'
    BY DEF DeltaRight
  <2>3. PICK R : R = reporter
    OBVIOUS
  <2>4. PICK P : P = process
    OBVIOUS
  <2>5. R = reporter' /\ P = process'
    BY <2>3, <2>4
  <2>6. \A r \in Ranks : P[r] # 0 =>
          /\ images[r][P[r]][R[r].sequence] = R[r].observed
          /\ \A s \in Sequence : s > R[r].sequence => images[r][P[r]][s] = NoEntries
          /\ \A i \in 1..Len(R[r].history) :
               /\ DeltaRight(r, P[r], R[r].history[i])
               /\ R[r].history[i].sequence <= R[r].sequence
    BY <2>1, <2>3, <2>4 DEF HistoryOK
  <2>7. \A r \in Ranks : P[r] # 0 =>
          /\ images'[r][P[r]][R[r].sequence] = R[r].observed
          /\ \A s \in Sequence : s > R[r].sequence => images'[r][P[r]][s] = NoEntries
          /\ \A i \in 1..Len(R[r].history) :
               /\ DeltaRight(r, P[r], R[r].history[i])'
               /\ R[r].history[i].sequence <= R[r].sequence
    BY <2>2, <2>6
  <2> QED  BY <2>5, <2>7 DEF HistoryOK
<1>3. HandshakesOK'
  BY DEF PInv, HandshakesOK, IdentityOf
<1> QED  BY <1>1, <1>2, <1>3

\* From the parts of the scheduler to the invariant.
LEMMA SchedulerKeeps ==
  ASSUME PInv, UNCHANGED <<reporter, process, epochs, handshakes, images>>,
         NEW d, d = catalog', Sound(d), Bounded(d), NEW after, after = wire',
         after \in [Ranks -> [Generations -> Seq(Packet)]], WireOK', Unborn',
         NEW ears, ears = heard', ears \in [Ranks -> SUBSET Generations],
         NEW told, told = seen', told \in [Ranks -> Image],
         budget' \in [changes : Nat, faults : Nat, rollbacks : Nat],
         \A q \in Ranks : /\ FollowingAt(d, after, q) /\ HeardAt(d, ears, q)
                          /\ Within(d.rank_entries[q], told[q])
  PROVE  PInv'
<1>1. TypeOK'
  BY DEF PInv, TypeOK, Sound
<1>2. Following'
  <2>1. \A q, g : Tracks(d, q, g) => Tracks(d, q, g)'
    BY DEF Tracks
  <2>2. \A q, g : IdentityOf(q, g)' = IdentityOf(q, g)
    BY DEF IdentityOf
  <2>3. \A q \in Ranks : d.generation[q] # NoIdentity =>
          LET g == d.generation[q].uuid
          IN /\ g \in 1..process'[q]
             /\ d.generation[q] = IdentityOf(q, g)'
             /\ Tracks(d, q, g)'
             /\ g = process'[q] => Upto(d, q, reporter'[q].sequence)
             /\ \A i \in 1..Len(after[q][g]) :
                  Upto(d, q, SequenceOf(after[q][g][i]))
    BY <2>1, <2>2 DEF FollowingAt
  <2> QED  BY <2>3 DEF Following
<1>3. HeardOK'
  <2>1. \A q \in Ranks : HeardAt(d, ears, q)'
    BY DEF HeardAt
  <2> QED  BY <2>1 DEF HeardOK, HeardAt
<1>4. Fresh'
  BY DEF Fresh
<1>5. Sound(catalog)' /\ Bounded(catalog)'
  OBVIOUS
<1>6. ReportersOK' /\ HistoryOK' /\ HandshakesOK'
  BY WorkersAlone
<1> QED  BY <1>1, <1>2, <1>3, <1>4, <1>5, <1>6 DEF PInv

\* Sequence numbers are numbers.
LEMMA Numbers == Sequence \subseteq Nat /\ 0 \in Sequence
  BY ProtocolAssumption DEF Sequence

\* A report that reaches the scheduler, garbled or not.
LEMMA ReceiveKeeps ==
  ASSUME PInv, NEW r \in Ranks, NEW g \in Generations, wire[r][g] # <<>>,
         NEW p, p = Head(wire[r][g]), NEW m \in ReportMessage,
         m.rank = p.report.rank, m.identified = p.report.identified,
         m.id = p.report.id, m.checkpoint = p.report.checkpoint,
         m.delta = p.report.delta,
         apply_report(m), Record(r, g, p.held),
         wire' = [wire EXCEPT ![r][g] = Tail(@)],
         budget' \in [changes : Nat, faults : Nat, rollbacks : Nat],
         UNCHANGED <<reporter, process, epochs, handshakes, images>>
  PROVE  PInv' /\ Readmits
<1>0. PICK s : s = p.report.checkpoint.sequence
  OBVIOUS
<1>1. /\ wire' \in [Ranks -> [Generations -> Seq(Packet)]]
      /\ WireOK' /\ Unborn' /\ Fewer(wire, wire')
      /\ p \in Packet /\ PacketOK(r, g, p) /\ g \in 1..process[r]
      /\ \A i \in 1..Len(wire'[r][g]) :
           SequenceOf(p) <= SequenceOf(wire'[r][g][i])
  BY WireShrinks
<1>2. PICK d \in report_results(catalog, m) : d = catalog'
  BY DEF apply_report
<1>3. /\ m.rank = r /\ m.identified /\ m.id = IdentityOf(r, g) /\ s \in Sequence
      /\ g = process[r] => s <= reporter[r].sequence
      /\ Within(images[r][g][s], p.held)
      /\ Within(m.checkpoint.entries, images[r][g][s])
      /\ m.checkpoint.held_count = Size(images[r][g][s])
      /\ DeltaRight(r, g, m.delta) /\ m.delta.sequence <= s
      /\ s = m.checkpoint.sequence
  BY <1>0, <1>1 DEF PacketOK
<1>4. catalog.generation[r] # NoIdentity /\ catalog.generation[r].uuid = g =>
        Upto(catalog, r, s)
  <2>1. wire[r][g] \in Seq(Packet)
    BY DEF PInv, TypeOK
  <2>2. 1 \in 1..Len(wire[r][g]) /\ p = wire[r][g][1]
    BY <2>1
  <2>3. catalog.generation[r] # NoIdentity /\ catalog.generation[r].uuid = g =>
          Upto(catalog, r, SequenceOf(wire[r][g][1]))
    BY <2>2 DEF PInv, Following
  <2> QED  BY <1>0, <2>2, <2>3 DEF SequenceOf
<1>5. /\ Sound(d) /\ Bounded(d) /\ Others(catalog, d, r)
      /\ Received(d, r, g, s)
  <2>1. ReportOf(r, g, m, s)
    BY <1>3, <1>4 DEF ReportOf
  <2> QED  BY <1>2, <2>1, ReportFollows
<1>6. ASSUME Follows(d, r, g), Upto(d, r, s)
      PROVE  /\ g = process[r] => Upto(d, r, reporter[r].sequence)
             /\ \A i \in 1..Len(wire'[r][g]) : Upto(d, r, SequenceOf(wire'[r][g][i]))
  <2>1. /\ d.sequences[r] \in Nat /\ d.pending[r].sequence \in Nat /\ s \in Nat
    <3>1. d.sequences[r] \in Sequence /\ d.pending[r].sequence \in Sequence
      BY <1>6 DEF Follows, Tracks
    <3> QED  BY <1>3, <3>1, Numbers
  <2>2. \A n \in Nat : s <= n => Upto(d, r, n)
    BY <1>6, <2>1 DEF Upto
  <2>3. reporter[r].sequence \in Nat
    BY DEF PInv, TypeOK, Reporter
  <2>4. ASSUME NEW i \in 1..Len(wire'[r][g])
        PROVE  SequenceOf(wire'[r][g][i]) \in Nat /\ s <= SequenceOf(wire'[r][g][i])
    <3>1. PacketOK(r, g, wire[r][g][i])'
      BY <1>1 DEF WireOK
    <3>2. PICK x : x = wire'[r][g][i]
      OBVIOUS
    <3>3. x.report.checkpoint.sequence \in Sequence
      BY <3>1, <3>2 DEF PacketOK
    <3>4. SequenceOf(x) = x.report.checkpoint.sequence /\ SequenceOf(p) = s
      BY <1>0 DEF SequenceOf
    <3>5. SequenceOf(p) <= SequenceOf(x)
      BY <1>1, <3>2
    <3> QED  BY <3>2, <3>3, <3>4, <3>5, Numbers
  <2> QED  BY <1>3, <2>2, <2>3, <2>4
<1>7. \A q \in Ranks : FollowingAt(d, wire', q)
  BY <1>1, <1>5, <1>6, SchedulerFollows DEF Received
<1>8. /\ seen' = IF d.generation[r].uuid = g THEN [seen EXCEPT ![r] = p.held] ELSE seen
      /\ heard' = [heard EXCEPT ![r] = @ \cup {g}]
  BY <1>2 DEF Record
<1>9. \A q \in Ranks : HeardAt(d, heard', q)
  BY <1>1, <1>5, <1>8, SchedulerHears DEF Received
<1>10. /\ seen \in [Ranks -> Image] /\ p.held \in Image
       /\ heard \in [Ranks -> SUBSET Generations]
  BY <1>1 DEF PInv, TypeOK, Packet
<1>11. seen' \in [Ranks -> Image] /\ heard' \in [Ranks -> SUBSET Generations]
  BY <1>8, <1>10
<1>12. /\ \A q \in Ranks : q # r => seen'[q] = seen[q]
       /\ seen'[r] = IF d.generation[r].uuid = g THEN p.held ELSE seen[r]
  BY <1>8, <1>10
<1>13. \A q \in Ranks : Within(d.rank_entries[q], seen'[q])
  <2>0. \A q \in Ranks : Within(catalog.rank_entries[q], seen[q])
    BY DEF PInv, Fresh
  <2>1. ASSUME NEW q \in Ranks, q # r
        PROVE  Within(d.rank_entries[q], seen'[q])
    <3>1. Within(d.rank_entries[q], catalog.rank_entries[q])
      BY <1>5, <2>1 DEF Others
    <3> QED  BY <1>12, <2>0, <2>1, <3>1, WithinTrans
  <2>2. Within(d.rank_entries[r], seen'[r])
    <3>1. CASE Stale(d, r, g)
      BY <1>12, <2>0, <3>1 DEF Stale
    <3>2. CASE r \in d.desynchronized
      BY <1>5, <3>2, WithdrawnHasNothing
    <3>3. CASE Conflict(d, r, g)
      BY <3>2, <3>3 DEF Conflict, Conflicted, Dropped
    <3>4. CASE Follows(d, r, g) /\ d.sequences[r] = s
      <4>1. d.generation[r] = IdentityOf(r, g) /\ IdentityOf(r, g).uuid = g
        BY <3>4 DEF Follows, IdentityOf
      <4>2. Within(d.rank_entries[r], images[r][g][s])
        BY <3>4 DEF Follows, Tracks
      <4>3. seen'[r] = p.held
        BY <1>12, <4>1
      <4> QED  BY <1>3, <4>2, <4>3, WithinTrans
    <3> QED  BY <1>5, <3>1, <3>2, <3>3, <3>4 DEF Received
  <2> QED  BY <2>1, <2>2
<1>14. PInv'
  <2>1. PICK after : after = wire'
    OBVIOUS
  <2>2. PICK ears : ears = heard'
    OBVIOUS
  <2>3. PICK told : told = seen'
    OBVIOUS
  <2> QED  BY <1>1, <1>2, <1>5, <1>7, <1>9, <1>11, <1>13, <2>1, <2>2, <2>3,
              SchedulerKeeps
<1>15. Readmits
  <2> SUFFICES ASSUME NEW q \in catalog.desynchronized \ d.desynchronized
               PROVE  d.rank_entries[q] = images[q][d.generation[q].uuid][d.sequences[q]]
    BY <1>2 DEF Readmits
  <2>1. q \in Ranks
    BY DEF PInv, TypeOK, IsCatalog
  <2>2. q = r
    BY <1>5, <2>1 DEF Others
  <2>3. ~Stale(d, r, g) /\ ~Conflict(d, r, g)
    BY <2>2 DEF Stale, Conflict, Conflicted, Dropped
  <2>4. /\ d.generation[r] = IdentityOf(r, g) /\ IdentityOf(r, g).uuid = g
        /\ d.sequences[r] = s /\ d.rank_entries[r] = images[r][g][s]
    BY <1>5, <2>2, <2>3 DEF Received, Follows, IdentityOf
  <2>5. d.generation[r].uuid = g
    BY <2>4
  <2> QED  BY <2>2, <2>4, <2>5
<1> QED  BY <1>14, <1>15

\* A report that never reaches it.
LEMMA LoseKeeps ==
  ASSUME PInv, NEW r \in Ranks, NEW g \in Generations, Lose(r, g)
  PROVE  PInv' /\ Readmits
<1>1. /\ wire[r][g] # <<>> /\ wire' = [wire EXCEPT ![r][g] = Tail(@)]
      /\ UNCHANGED <<catalog, reporter, process, epochs, handshakes, images,
                     seen, heard>>
      /\ budget' = [budget EXCEPT !.faults = @ + 1]
  BY DEF Lose
<1>2. /\ wire' \in [Ranks -> [Generations -> Seq(Packet)]]
      /\ WireOK' /\ Unborn' /\ Fewer(wire, wire')
  BY <1>1, WireShrinks
<1>3. \A q \in Ranks : Within(catalog.rank_entries[q], catalog.rank_entries[q])
  BY WithinEasy
<1>4. \A q \in Ranks : FollowingAt(catalog, wire', q)
  BY <1>2, <1>3, FollowingLess
<1>5. /\ \A q \in Ranks : HeardAt(catalog, heard, q)
      /\ \A q \in Ranks : Within(catalog.rank_entries[q], seen[q])
      /\ Sound(catalog) /\ Bounded(catalog)
      /\ heard \in [Ranks -> SUBSET Generations] /\ seen \in [Ranks -> Image]
      /\ budget \in [changes : Nat, faults : Nat, rollbacks : Nat]
  BY DEF PInv, HeardOK, HeardAt, Fresh, TypeOK
<1>6. budget' \in [changes : Nat, faults : Nat, rollbacks : Nat]
  BY <1>1, <1>5
<1>7. PICK after : after = wire'
  OBVIOUS
<1>8. PICK d : d = catalog'
  OBVIOUS
<1>9. PICK ears : ears = heard'
  OBVIOUS
<1>10. PICK told : told = seen'
  OBVIOUS
<1>11. PInv'
  BY <1>1, <1>2, <1>4, <1>5, <1>6, <1>7, <1>8, <1>9, <1>10, SchedulerKeeps
<1>12. Readmits
  BY <1>1 DEF Readmits
<1> QED  BY <1>11, <1>12

\* A startup inventory of process g, first, late or again.
LEMMA HandshakeKeeps ==
  ASSUME PInv, Handshake
  PROVE  PInv' /\ Readmits
<1>1. PICK m \in handshakes :
        /\ apply_startup(m)
        /\ seen' = IF catalog'.generation[m.rank] # catalog.generation[m.rank]
                   THEN [seen EXCEPT ![m.rank] = m.entries] ELSE seen
        /\ heard' = [heard EXCEPT ![m.rank] = @ \cup {m.id.uuid}]
        /\ UNCHANGED <<reporter, process, epochs, handshakes, wire, budget, images>>
  BY DEF Handshake
<1>2. PICK r, g : r = m.rank /\ g = m.id.uuid
  OBVIOUS
<1>3. /\ m \in StartupMessage /\ r \in Ranks /\ m.entries \in Image
      /\ m.id \in Identity /\ m.rank \in Ranks
  BY <1>2 DEF PInv, TypeOK, StartupMessage
<1>4. /\ m.identified /\ g \in 1..process[r] /\ m.id = IdentityOf(r, g)
      /\ m.entries = images[r][g][0]
  BY <1>2 DEF PInv, HandshakesOK
<1>5. g \in Generations
  <2>1. process[r] \in 0..MaxGenerations
    BY <1>3 DEF PInv, TypeOK
  <2> QED  BY <1>4, <2>1, ProtocolAssumption DEF Generations
<1>6. PICK d \in startup_results(catalog, m) : d = catalog'
  BY <1>1 DEF apply_startup
<1>7. Sound(catalog) /\ Bounded(catalog) /\ IsCatalog(catalog)
  BY DEF PInv, TypeOK
<1>8. /\ Sound(d) /\ Bounded(d) /\ Others(catalog, d, r)
      /\ \/ d = catalog /\ Heeded(catalog, m)
         \/ Conflicted(catalog, d, r) /\ Disputed(catalog, m)
         \/ StartupAdopted(catalog, d, m)
  BY <1>2, <1>3, <1>6, <1>7, StartupResults
<1>9. /\ Fewer(wire, wire)
      /\ \A i \in 1..Len(wire[r][g]) : SequenceOf(wire[r][g][i]) \in Nat
      /\ reporter[r].sequence \in Nat
  <2>1. Fewer(wire, wire)
    BY DEF Fewer
  <2>2. ASSUME NEW i \in 1..Len(wire[r][g])
        PROVE  SequenceOf(wire[r][g][i]) \in Nat
    <3>1. PacketOK(r, g, wire[r][g][i])
      BY <1>3, <1>5 DEF PInv, WireOK
    <3>2. SequenceOf(wire[r][g][i]) \in Sequence
      BY <3>1 DEF PacketOK, SequenceOf
    <3> QED  BY <3>2, Numbers
  <2>3. reporter[r].sequence \in Nat
    BY <1>3 DEF PInv, TypeOK, Reporter
  <2> QED  BY <2>1, <2>2, <2>3
\* The startup inventory is an image of one moment.
<1>10. ASSUME StartupAdopted(catalog, d, m)
       PROVE  /\ Follows(d, r, g) /\ d.sequences[r] = 0 /\ d.pending[r] = NoPending
              /\ r \in d.desynchronized \/ d.rank_entries[r] = images[r][g][0]
              /\ d.generation[r] # catalog.generation[r]
              /\ Within(d.rank_entries[r], m.entries)
  <2>1. /\ catalog.generation[r] = NoIdentity \/ m.id.epoch > catalog.generation[r].epoch
        /\ d.generation = [catalog.generation EXCEPT ![r] = m.id]
        /\ d.sequences[r] = 0 /\ d.pending[r] = NoPending
        /\ r \notin d.generation_conflicts
        /\ Within(d.rank_entries[r], m.entries)
        /\ r \in d.desynchronized \/ d.rank_entries[r] = m.entries
    BY <1>2, <1>10 DEF StartupAdopted, Afresh
  <2>2. catalog.generation \in [Ranks -> Identity \cup {NoIdentity}]
    BY <1>7 DEF IsCatalog
  <2>3. d.generation[r] = m.id
    BY <1>3, <2>1, <2>2
  <2>4. /\ m.id.epoch = epochs[r][g] /\ m.id # NoIdentity /\ m.id.epoch \in Nat
    BY <1>3, <1>4 DEF IdentityOf, Identity, NoIdentity
  <2>5. d.generation[r] # catalog.generation[r]
    BY <2>1, <2>3, <2>4
  <2>6. /\ NoPending.sequence = 0
        /\ \A i \in PageIndex : Within(NoPending.pages[i], images[r][g][0])
    BY WithinEasy DEF NoPending
  <2>7. Tracks(d, r, g)
    BY <1>4, <2>1, <2>6, Numbers DEF Tracks
  <2> QED  BY <1>4, <2>1, <2>3, <2>4, <2>5, <2>7 DEF Follows
<1>11. \/ Stale(d, r, g)
       \/ Conflict(d, r, g)
       \/ /\ Follows(d, r, g)
          /\ g = process[r] => Upto(d, r, reporter[r].sequence)
          /\ \A i \in 1..Len(wire[r][g]) : Upto(d, r, SequenceOf(wire[r][g][i]))
  <2>1. CASE d = catalog /\ generation_disposition(catalog, r, IdentityOf(r, g)) = "stale"
    BY <1>3, <1>5, <2>1, DispositionOf DEF Stale
  <2>2. CASE d = catalog /\ generation_disposition(catalog, r, IdentityOf(r, g)) = "current"
    <3>1. /\ catalog.generation[r] = IdentityOf(r, g)
          /\ r \notin catalog.generation_conflicts
      BY <1>3, <1>5, <2>2, DispositionOf
    <3>2. IdentityOf(r, g).uuid = g
      BY DEF IdentityOf
    <3>3. catalog.generation[r].uuid = g /\ catalog.generation[r] # NoIdentity
      BY <1>3, <1>4, <3>1, <3>2 DEF Identity, NoIdentity
    <3>4. /\ Tracks(catalog, r, g)
          /\ g = process[r] => Upto(catalog, r, reporter[r].sequence)
          /\ \A i \in 1..Len(wire[r][g]) : Upto(catalog, r, SequenceOf(wire[r][g][i]))
      BY <1>3, <3>3 DEF PInv, Following
    <3> QED  BY <2>2, <3>1, <3>4 DEF Follows
  <2>3. CASE Conflicted(catalog, d, r) /\ generation_disposition(catalog, r, IdentityOf(r, g)) = "conflict"
    BY <1>3, <1>5, <2>3, DispositionOf DEF Conflict
  <2>4. CASE StartupAdopted(catalog, d, m)
    <3>1. /\ Follows(d, r, g) /\ d.sequences[r] = 0 /\ d.pending[r] = NoPending
      BY <1>10, <2>4
    <3>2. NoPending.sequence = 0
      BY DEF NoPending
    <3>3. \A n \in Nat : Upto(d, r, n)
      BY <3>1, <3>2 DEF Upto
    <3> QED  BY <1>9, <3>1, <3>3
  <2> QED  BY <1>2, <1>4, <1>8, <2>1, <2>2, <2>3, <2>4 DEF Heeded, Disputed
<1>12. \A q \in Ranks : FollowingAt(d, wire, q)
  BY <1>3, <1>4, <1>8, <1>9, <1>11, SchedulerFollows
<1>13. \A q \in Ranks : HeardAt(d, heard', q)
  <2>1. PICK ears : ears = heard'
    OBVIOUS
  <2>2. ears = [heard EXCEPT ![r] = @ \cup {g}]
    BY <1>1, <1>2, <2>1
  <2> QED  BY <1>3, <1>4, <1>5, <1>8, <1>11, <2>1, <2>2, SchedulerHears
<1>14. /\ seen \in [Ranks -> Image] /\ heard \in [Ranks -> SUBSET Generations]
       /\ budget \in [changes : Nat, faults : Nat, rollbacks : Nat]
       /\ wire \in [Ranks -> [Generations -> Seq(Packet)]]
  BY DEF PInv, TypeOK
<1>15. /\ seen' \in [Ranks -> Image] /\ heard' \in [Ranks -> SUBSET Generations]
       /\ \A q \in Ranks : q # r => seen'[q] = seen[q]
       /\ seen'[r] = IF d.generation[r] # catalog.generation[r] THEN m.entries ELSE seen[r]
  BY <1>1, <1>2, <1>3, <1>5, <1>6, <1>14
<1>16. \A q \in Ranks : Within(d.rank_entries[q], seen'[q])
  <2>0. \A q \in Ranks : Within(catalog.rank_entries[q], seen[q])
    BY DEF PInv, Fresh
  <2>1. ASSUME NEW q \in Ranks, q # r
        PROVE  Within(d.rank_entries[q], seen'[q])
    <3>1. Within(d.rank_entries[q], catalog.rank_entries[q])
      BY <1>8, <2>1 DEF Others
    <3> QED  BY <1>15, <2>0, <2>1, <3>1, WithinTrans
  <2>2. Within(d.rank_entries[r], seen'[r])
    <3>1. CASE d = catalog
      BY <1>3, <1>15, <2>0, <3>1
    <3>2. CASE Conflicted(catalog, d, r)
      <4>1. r \in d.desynchronized
        BY <3>2 DEF Conflicted, Dropped
      <4> QED  BY <1>8, <4>1, WithdrawnHasNothing
    <3>3. CASE StartupAdopted(catalog, d, m)
      BY <1>10, <1>15, <3>3
    <3> QED  BY <1>8, <3>1, <3>2, <3>3
  <2> QED  BY <2>1, <2>2
<1>17. WireOK' /\ Unborn'
  <2>1. \A q, h, p : PacketOK(q, h, p) => PacketOK(q, h, p)'
    BY <1>1 DEF PacketOK, DeltaRight, IdentityOf
  <2>2. PICK w : w = wire
    OBVIOUS
  <2>3. w = wire'
    BY <1>1, <2>2
  <2>4. \A q \in Ranks, h \in Generations :
          /\ \A i \in 1..Len(w[q][h]) : PacketOK(q, h, w[q][h][i])
          /\ \A i, j \in 1..Len(w[q][h]) :
               i <= j => SequenceOf(w[q][h][i]) <= SequenceOf(w[q][h][j])
    BY <2>2 DEF PInv, WireOK
  <2>5. \A q \in Ranks, h \in Generations :
          \A i \in 1..Len(w[q][h]) : PacketOK(q, h, w[q][h][i])'
    BY <2>1, <2>4
  <2>6. WireOK'
    BY <2>3, <2>4, <2>5 DEF WireOK, SequenceOf
  <2>7. Unborn'
    BY <1>1 DEF PInv, Unborn
  <2> QED  BY <2>6, <2>7
<1>18. PInv'
  <2>1. PICK after : after = wire'
    OBVIOUS
  <2>2. PICK ears : ears = heard'
    OBVIOUS
  <2>3. PICK told : told = seen'
    OBVIOUS
  <2>4. after = wire
    BY <1>1, <2>1
  <2>5. budget' \in [changes : Nat, faults : Nat, rollbacks : Nat]
    BY <1>1, <1>14
  <2>6. UNCHANGED <<reporter, process, epochs, handshakes, images>>
    BY <1>1
  <2> QED  BY <1>6, <1>8, <1>12, <1>13, <1>14, <1>15, <1>16, <1>17, <2>1, <2>2, <2>3,
              <2>4, <2>5, <2>6, SchedulerKeeps
<1>19. Readmits
  <2> SUFFICES ASSUME NEW q \in catalog.desynchronized \ d.desynchronized
               PROVE  d.rank_entries[q] = images[q][d.generation[q].uuid][d.sequences[q]]
    BY <1>6 DEF Readmits
  <2>1. q \in Ranks
    BY <1>7 DEF IsCatalog
  <2>2. q = r
    BY <1>8, <2>1 DEF Others
  <2>3. StartupAdopted(catalog, d, m)
    BY <1>8, <2>2 DEF Conflicted, Dropped
  <2>4. /\ d.rank_entries[r] = images[r][g][0] /\ d.sequences[r] = 0 /\ Follows(d, r, g)
    BY <1>10, <2>2, <2>3
  <2>5. d.generation[r] = IdentityOf(r, g) /\ IdentityOf(r, g).uuid = g
    BY <2>4 DEF Follows, IdentityOf
  <2>6. d.generation[r].uuid = g
    BY <2>5
  <2> QED  BY <2>2, <2>4, <2>6
<1> QED  BY <1>18, <1>19

---------------------------------------------------------------------------
(* Steps of the workers.                                                   *)

\* What a process has advertised up to its reporter's sequence number stays as
\* it was, and so does its epoch.
Recorded(q, h, s) == /\ h \in 1..process[q] /\ s \in Sequence
                     /\ h = process[q] => s <= reporter[q].sequence

Grows ==
  /\ \A q \in Ranks : process'[q] \in Nat /\ process[q] <= process'[q]
  /\ \A q \in Ranks : \A h \in 1..process[q] : epochs'[q][h] = epochs[q][h]
  /\ \A q \in Ranks : \A h, s : Recorded(q, h, s) => images'[q][h][s] = images[q][h][s]
  /\ \A q \in Ranks : /\ reporter'[q].sequence \in Nat
                      /\ process'[q] = process[q] =>
                           reporter[q].sequence <= reporter'[q].sequence

\* Numbers of one rank.
LEMMA RankNumbers ==
  ASSUME PInv, NEW q \in Ranks
  PROVE  /\ process[q] \in Nat /\ process[q] \in 0..MaxGenerations
         /\ 1..process[q] \subseteq Generations
         /\ reporter[q].sequence \in Nat /\ reporter[q].sequence \in Sequence
         /\ 0 <= reporter[q].sequence
<1>1. process[q] \in 0..MaxGenerations
  BY DEF PInv, TypeOK
<1>2. reporter[q].sequence \in Sequence
  BY DEF PInv, ReportersOK, ReporterOK
<1>3. process[q] \in Nat /\ 1..process[q] \subseteq Generations
  BY <1>1, ProtocolAssumption DEF Generations
<1>4. reporter[q].sequence \in Nat
  BY <1>2, Numbers
<1> QED  BY <1>1, <1>2, <1>3, <1>4

\* A delta stays right.
LEMMA DeltaStays ==
  ASSUME PInv, Grows, NEW q \in Ranks, NEW h \in 1..process[q], NEW delta \in Delta,
         DeltaRight(q, h, delta), NEW n, Recorded(q, h, n), delta.sequence <= n
  PROVE  DeltaRight(q, h, delta)'
<1> SUFFICES ASSUME delta # NoDelta
             PROVE  DeltaRight(q, h, delta)'
  BY DEF DeltaRight
<1>1. PICK b, s : b = delta.base_sequence /\ s = delta.sequence
  OBVIOUS
<1>2. /\ b \in Nat /\ s = b + 1 /\ s \in Sequence
      /\ Within(Patched(images[q][h][b], delta), images[q][h][s])
  BY <1>1 DEF DeltaRight
<1>3. /\ n \in Sequence /\ (h = process[q] => n <= reporter[q].sequence) /\ s <= n
  BY <1>1 DEF Recorded
<1>4. b \in Sequence /\ b <= s /\ s \in Nat /\ n \in Nat /\ reporter[q].sequence \in Nat
  BY <1>2, <1>3, RankNumbers, ProtocolAssumption DEF Sequence
<1>5. Recorded(q, h, b) /\ Recorded(q, h, s)
  BY <1>2, <1>3, <1>4 DEF Recorded
<1>6. images'[q][h][b] = images[q][h][b] /\ images'[q][h][s] = images[q][h][s]
  BY <1>5 DEF Grows
<1>7. Within(Patched(images'[q][h][b], delta), images'[q][h][s])
  BY <1>2, <1>6
<1> QED  BY <1>1, <1>2, <1>7 DEF DeltaRight

\* A report under way stays right.
LEMMA PacketStays ==
  ASSUME PInv, Grows, NEW q \in Ranks, NEW h \in 1..process[q], NEW p \in Packet,
         PacketOK(q, h, p)
  PROVE  PacketOK(q, h, p)'
<1>1. PICK s : s = p.report.checkpoint.sequence
  OBVIOUS
<1>2. /\ p.report.rank = q /\ p.report.identified /\ p.report.id = IdentityOf(q, h)
      /\ s \in Sequence /\ (h = process[q] => s <= reporter[q].sequence)
      /\ Within(images[q][h][s], p.held)
      /\ Within(p.report.checkpoint.entries, images[q][h][s])
      /\ p.report.checkpoint.held_count = Size(images[q][h][s])
      /\ DeltaRight(q, h, p.report.delta) /\ p.report.delta.sequence <= s
  BY <1>1 DEF PacketOK
<1>3. Recorded(q, h, s) /\ p.report.delta \in Delta
  BY <1>2 DEF Recorded, Packet, ReportMessage
<1>4. DeltaRight(q, h, p.report.delta)'
  BY <1>2, <1>3, DeltaStays
<1>5. images'[q][h][s] = images[q][h][s] /\ epochs'[q][h] = epochs[q][h]
  BY <1>3 DEF Grows
<1>6. IdentityOf(q, h)' = IdentityOf(q, h)
  BY <1>5 DEF IdentityOf
<1>7. h = process'[q] => s <= reporter'[q].sequence
  <2> SUFFICES ASSUME h = process'[q]
               PROVE  s <= reporter'[q].sequence
    OBVIOUS
  <2>1. h = process[q] /\ process'[q] = process[q]
    <3>1. process[q] \in Nat /\ process'[q] \in Nat /\ process[q] <= process'[q]
      BY RankNumbers DEF Grows
    <3> QED  BY <3>1
  <2>2. /\ reporter'[q].sequence \in Nat
        /\ process'[q] = process[q] => reporter[q].sequence <= reporter'[q].sequence
    BY DEF Grows
  <2>3. s \in Nat /\ reporter[q].sequence \in Nat
    BY <1>2, RankNumbers, Numbers
  <2>4. s <= reporter[q].sequence
    BY <1>2, <2>1
  <2> QED  BY <2>1, <2>2, <2>3, <2>4
<1> QED  BY <1>1, <1>2, <1>4, <1>5, <1>6, <1>7 DEF PacketOK

\* What is under way was so before, or its process has just sent it.
UnderWay(before, q, h, p) == \E j \in 1..Len(before[q][h]) : p = before[q][h][j]

JustSent(q, h, p) ==
  /\ h = process[q]
  /\ SequenceOf(p) \in Nat
  /\ reporter[q].sequence <= SequenceOf(p)

Sent(before, after) ==
  \A q \in Ranks, h \in Generations : \A i \in 1..Len(after[q][h]) :
    UnderWay(before, q, h, after[q][h][i]) \/ JustSent(q, h, after[q][h][i])

\* A worker does nothing to the scheduler, which goes on following it.
LEMMA SchedulerAlone ==
  ASSUME PInv, Grows, UNCHANGED <<catalog, seen, heard>>,
         NEW after, after = wire', Sent(wire, after)
  PROVE  Sound(catalog)' /\ Bounded(catalog)' /\ Following' /\ HeardOK' /\ Fresh'
<1>1. Sound(catalog)' /\ Bounded(catalog)'
  BY DEF PInv
<1>2. Fresh'
  BY DEF PInv, Fresh
<1>3. Following'
  <2> SUFFICES ASSUME NEW q \in Ranks, catalog.generation[q] # NoIdentity,
                      NEW g, g = catalog.generation[q].uuid
               PROVE  /\ g \in 1..process'[q]
                      /\ catalog.generation[q] = IdentityOf(q, g)'
                      /\ Tracks(catalog, q, g)'
                      /\ g = process'[q] => Upto(catalog, q, reporter'[q].sequence)
                      /\ \A i \in 1..Len(after[q][g]) :
                           Upto(catalog, q, SequenceOf(after[q][g][i]))
    <3>1. PICK c : c = catalog
      OBVIOUS
    <3>2. c = catalog'
      BY <3>1
    <3>3. \A q \in Ranks : c.generation[q] # NoIdentity =>
            LET g == c.generation[q].uuid
            IN /\ g \in 1..process'[q]
               /\ c.generation[q] = IdentityOf(q, g)'
               /\ Tracks(c, q, g)'
               /\ g = process'[q] => Upto(c, q, reporter'[q].sequence)
               /\ \A i \in 1..Len(after[q][g]) : Upto(c, q, SequenceOf(after[q][g][i]))
      BY <3>1, <3>2
    <3> QED  BY <3>2, <3>3 DEF Following
  <2>1. /\ g \in 1..process[q]
        /\ catalog.generation[q] = IdentityOf(q, g)
        /\ Tracks(catalog, q, g)
        /\ g = process[q] => Upto(catalog, q, reporter[q].sequence)
        /\ \A i \in 1..Len(wire[q][g]) : Upto(catalog, q, SequenceOf(wire[q][g][i]))
    BY DEF PInv, Following
  <2>2. /\ process[q] \in Nat /\ process'[q] \in Nat /\ process[q] <= process'[q]
        /\ reporter[q].sequence \in Nat /\ reporter'[q].sequence \in Nat
        /\ process'[q] = process[q] => reporter[q].sequence <= reporter'[q].sequence
        /\ g \in Generations
    <3>1. /\ process[q] \in Nat /\ reporter[q].sequence \in Nat /\ g \in Generations
      BY <2>1, RankNumbers
    <3>2. /\ process'[q] \in Nat /\ process[q] <= process'[q]
          /\ reporter'[q].sequence \in Nat
          /\ process'[q] = process[q] => reporter[q].sequence <= reporter'[q].sequence
      BY DEF Grows
    <3> QED  BY <3>1, <3>2
  <2>3. g \in 1..process'[q]
    BY <2>1, <2>2
  <2>4. catalog.generation[q] = IdentityOf(q, g)'
    <3>1. epochs'[q][g] = epochs[q][g]
      BY <2>1 DEF Grows
    <3> QED  BY <2>1, <3>1 DEF IdentityOf
  <2>5. PICK a, b : a = catalog.sequences[q] /\ b = catalog.pending[q].sequence
    OBVIOUS
  <2>6. /\ a \in Sequence /\ b \in Sequence
        /\ g = process[q] => a <= reporter[q].sequence /\ b <= reporter[q].sequence
    BY <2>1, <2>5 DEF Tracks, Upto
  <2>7. Recorded(q, g, a) /\ Recorded(q, g, b)
    BY <2>1, <2>6 DEF Recorded
  <2>8. images'[q][g][a] = images[q][g][a] /\ images'[q][g][b] = images[q][g][b]
    BY <2>7 DEF Grows
  <2>9. Tracks(catalog, q, g)'
    BY <2>1, <2>5, <2>8 DEF Tracks
  <2>10. /\ a \in Nat /\ b \in Nat
         /\ \A n : Upto(catalog, q, n) <=> a <= n /\ b <= n
    BY <2>5, <2>6, Numbers DEF Upto
  <2>11. g = process'[q] => Upto(catalog, q, reporter'[q].sequence)
    <3> SUFFICES ASSUME g = process'[q]
                 PROVE  Upto(catalog, q, reporter'[q].sequence)
      OBVIOUS
    <3>1. g = process[q] /\ process'[q] = process[q]
      BY <2>1, <2>2
    <3>2. a <= reporter'[q].sequence /\ b <= reporter'[q].sequence
      BY <2>2, <2>6, <2>10, <3>1
    <3> QED  BY <2>10, <3>2
  <2>12. ASSUME NEW i \in 1..Len(after[q][g])
         PROVE  Upto(catalog, q, SequenceOf(after[q][g][i]))
    <3>1. CASE UnderWay(wire, q, g, after[q][g][i])
      BY <2>1, <3>1 DEF UnderWay
    <3>2. CASE JustSent(q, g, after[q][g][i])
      <4>1. PICK n \in Nat : n = SequenceOf(after[q][g][i])
        BY <3>2 DEF JustSent
      <4>2. a <= n /\ b <= n
        BY <2>2, <2>6, <2>10, <3>2, <4>1 DEF JustSent
      <4> QED  BY <2>10, <4>1, <4>2
    <3> QED  BY <2>2, <3>1, <3>2 DEF Sent
  <2> QED  BY <2>3, <2>4, <2>9, <2>11, <2>12
<1>4. HeardOK'
  <2> SUFFICES ASSUME NEW q \in Ranks
               PROVE  HeardAt(catalog, heard, q)'
    BY DEF HeardOK, HeardAt
  <2>1. HeardAt(catalog, heard, q)
    BY DEF PInv, HeardOK, HeardAt
  <2>2. /\ process[q] \in Nat /\ process'[q] \in Nat /\ process[q] <= process'[q]
        /\ \A h \in 1..process[q] : epochs'[q][h] = epochs[q][h]
    BY RankNumbers DEF Grows
  <2>3. CASE catalog.generation[q] = NoIdentity
    BY <2>1, <2>3 DEF HeardAt
  <2>4. CASE catalog.generation[q] # NoIdentity
    <3>1. catalog.generation[q].uuid \in 1..process[q]
      BY <2>4, OwnerEpoch
    <3>2. PICK g \in 1..process[q] : g = catalog.generation[q].uuid
      BY <3>1
    <3>3. epochs'[q][g] = epochs[q][g]
      BY <2>2
    <3>4. heard[q] \subseteq 1..process[q] /\ heard[q] \subseteq 1..process'[q]
      BY <2>1, <2>2 DEF HeardAt
    <3> QED  BY <2>1, <2>2, <2>4, <3>2, <3>3, <3>4 DEF HeardAt
  <2> QED  BY <2>3, <2>4
<1> QED  BY <1>1, <1>2, <1>3, <1>4

\* A step of a worker readmits nobody.
LEMMA NoneReadmitted ==
  ASSUME UNCHANGED catalog
  PROVE  Readmits
BY DEF Readmits

\* The reports under way stay right when nothing is sent.
LEMMA WireStays ==
  ASSUME PInv, Grows, UNCHANGED wire
  PROVE  WireOK' /\ Sent(wire, wire')
<1>1. PICK w : w = wire
  OBVIOUS
<1>2. w = wire'
  BY <1>1
<1>3. \A q \in Ranks, h \in Generations : \A i \in 1..Len(w[q][h]) :
        PacketOK(q, h, w[q][h][i])'
  <2> SUFFICES ASSUME NEW q \in Ranks, NEW h \in Generations, NEW i \in 1..Len(w[q][h])
               PROVE  PacketOK(q, h, w[q][h][i])'
    OBVIOUS
  <2>1. w[q][h] \in Seq(Packet)
    BY <1>1 DEF PInv, TypeOK
  <2>2. w[q][h][i] \in Packet /\ w[q][h] # <<>>
    BY <2>1
  <2>3. PacketOK(q, h, w[q][h][i])
    BY <1>1 DEF PInv, WireOK
  <2>4. ~(h > process[q])
    BY <1>1, <2>2 DEF PInv, Unborn
  <2>5. h \in 1..process[q]
    BY <2>4, RankNumbers DEF Generations
  <2> QED  BY <2>2, <2>3, <2>5, PacketStays
<1>4. \A q \in Ranks, h \in Generations : \A i, j \in 1..Len(w[q][h]) :
        i <= j => SequenceOf(w[q][h][i]) <= SequenceOf(w[q][h][j])
  BY <1>1 DEF PInv, WireOK
<1>5. WireOK'
  BY <1>2, <1>3, <1>4 DEF WireOK, SequenceOf
<1>6. \A q \in Ranks, h \in Generations : \A i \in 1..Len(w[q][h]) :
        UnderWay(w, q, h, w[q][h][i])
  BY DEF UnderWay
<1>7. Sent(wire, wire')
  BY <1>1, <1>2, <1>6 DEF Sent
<1> QED  BY <1>5, <1>7

\* A mutation of the held catalog.
LEMMA ChangeKeeps ==
  ASSUME PInv, NEW r \in Ranks, NEW w, Mutated(reporter[r], w), Change(r, w)
  PROVE  PInv' /\ Readmits
<1>1. /\ process[r] # 0
      /\ reporter' = [reporter EXCEPT ![r] = w]
      /\ budget' = [budget EXCEPT !.changes = @ + 1]
      /\ UNCHANGED <<catalog, process, epochs, handshakes, wire, images, seen, heard>>
  BY DEF Change
<1>2. reporter \in [Ranks -> Reporter] /\ w \in Reporter
  BY DEF PInv, TypeOK, Mutated
<1>3. /\ reporter' \in [Ranks -> Reporter] /\ reporter'[r] = w
      /\ \A q \in Ranks : q # r => reporter'[q] = reporter[q]
  BY <1>1, <1>2
<1>4. budget' \in [changes : Nat, faults : Nat, rollbacks : Nat]
  <2>1. budget \in [changes : Nat, faults : Nat, rollbacks : Nat]
    BY DEF PInv, TypeOK
  <2> QED  BY <1>1, <2>1
<1>5. TypeOK'
  BY <1>1, <1>3, <1>4 DEF PInv, TypeOK
<1>6. \A q \in Ranks : /\ reporter'[q].sequence = reporter[q].sequence
                       /\ reporter'[q].observed = reporter[q].observed
                       /\ reporter'[q].history = reporter[q].history
  BY <1>3 DEF Mutated
<1>7. ReportersOK'
  <2> SUFFICES ASSUME NEW q \in Ranks
               PROVE  ReporterOK(reporter'[q])
    BY DEF ReportersOK, ReporterOK
  <2>1. ReporterOK(reporter[q])
    BY DEF PInv, ReportersOK
  <2>2. CASE q = r
    BY <1>3, <2>1, <2>2 DEF ReporterOK, Mutated
  <2>3. CASE q # r
    BY <1>3, <2>1, <2>3
  <2> QED  BY <2>2, <2>3
<1>8. Grows
  <2>1. \A q \in Ranks : /\ process[q] \in Nat /\ process[q] <= process[q]
                         /\ reporter[q].sequence \in Nat
                         /\ reporter[q].sequence <= reporter[q].sequence
    <3>1. \A q \in Ranks : process[q] \in Nat /\ reporter[q].sequence \in Nat
      BY RankNumbers
    <3> QED  BY <3>1
  <2> QED  BY <1>1, <1>6, <2>1 DEF Grows
<1>9. HistoryOK'
  <2>1. \A q, g, delta : DeltaRight(q, g, delta) => DeltaRight(q, g, delta)'
    BY <1>1 DEF DeltaRight
  <2>2. PICK S, O, H : /\ S = [q \in Ranks |-> reporter[q].sequence]
                       /\ O = [q \in Ranks |-> reporter[q].observed]
                       /\ H = [q \in Ranks |-> reporter[q].history]
    OBVIOUS
  <2>3. \A q \in Ranks : process[q] # 0 =>
          /\ images[q][process[q]][S[q]] = O[q]
          /\ \A s \in Sequence : s > S[q] => images[q][process[q]][s] = NoEntries
          /\ \A i \in 1..Len(H[q]) :
               DeltaRight(q, process[q], H[q][i]) /\ H[q][i].sequence <= S[q]
    BY <2>2 DEF PInv, HistoryOK
  <2>4. \A q \in Ranks : /\ reporter'[q].sequence = S[q] /\ reporter'[q].observed = O[q]
                         /\ reporter'[q].history = H[q]
    BY <1>6, <2>2
  <2> QED  BY <1>1, <2>1, <2>3, <2>4 DEF HistoryOK
<1>10. Unborn' /\ HandshakesOK'
  BY <1>1 DEF PInv, Unborn, HandshakesOK, IdentityOf
<1>11. WireOK' /\ Sent(wire, wire')
  BY <1>1, <1>8, WireStays
<1>12. Sound(catalog)' /\ Bounded(catalog)' /\ Following' /\ HeardOK' /\ Fresh'
  BY <1>1, <1>8, <1>11, SchedulerAlone
<1>13. PInv'
  BY <1>5, <1>7, <1>9, <1>10, <1>11, <1>12 DEF PInv
<1> QED  BY <1>1, <1>13, NoneReadmitted

\* The reporter of a process that has just scanned its store.
LEMMA StartupIs ==
  ASSUME NEW image \in Image, NEW w \in replace(NewReporter, image)
  PROVE  LET v == startup(w)
         IN /\ v \in Reporter /\ ReporterOK(v) /\ w.held \in Image
            /\ v.observed = w.held /\ v.sequence = 0 /\ v.history = <<>>
<1>1. NewReporter \in Reporter /\ NewReporter.sequence = 0 /\ NewReporter.history = <<>>
  <2>1. NoEntries \in Image /\ <<>> \in Seq(Delta)
    BY NoneTypes
  <2> QED  BY <2>1 DEF NewReporter, Reporter
<1>2. /\ w \in Reporter /\ Size(w.held) <= Capacity /\ w.held \in Image
      /\ w.sequence = 0 /\ w.history = <<>>
  BY <1>1, ReplaceMutates DEF Mutated
<1>3. PICK v : v = startup(w)
  OBVIOUS
<1>4. /\ v \in Reporter /\ v.held = w.held /\ v.observed = w.held /\ v.dirty = FALSE
      /\ v.checkpoint_items = w.held /\ v.checkpoint_sequence = w.sequence
      /\ v.sequence = w.sequence /\ v.history = w.history
  BY <1>2, <1>3 DEF startup, Reporter
<1>5. ReporterOK(v)
  BY <1>2, <1>4, Numbers DEF ReporterOK
<1> QED  BY <1>2, <1>3, <1>4, <1>5

\* A new process.
LEMMA StartKeeps ==
  ASSUME PInv, NEW r \in Ranks, StartWorker(r)
  PROVE  PInv' /\ Readmits
<1>1. PICK g, last : /\ g = process[r] + 1
                     /\ last = IF process[r] = 0 THEN 0 ELSE epochs[r][process[r]]
  OBVIOUS
<1>2. PICK epoch \in 1..MaxEpoch, image \in Image :
        /\ \E w \in replace(NewReporter, image) :
             /\ reporter' = [reporter EXCEPT ![r] = startup(w)]
             /\ handshakes' = handshakes \cup
                  {[rank |-> r, identified |-> TRUE,
                    id |-> [uuid |-> g, epoch |-> epoch],
                    wellformed |-> TRUE, entries |-> w.held]}
             /\ images' = [images EXCEPT ![r][g][0] = w.held]
        /\ epochs' = [epochs EXCEPT ![r][g] = epoch]
        /\ budget' = [budget EXCEPT !.rollbacks =
                        IF epoch > last THEN @ ELSE @ + 1]
  BY <1>1 DEF StartWorker
<1>3. /\ g \in Generations /\ process' = [process EXCEPT ![r] = g]
      /\ UNCHANGED <<catalog, wire, seen, heard>>
  BY <1>1 DEF StartWorker
<1>4. PICK w \in replace(NewReporter, image) :
        /\ reporter' = [reporter EXCEPT ![r] = startup(w)]
        /\ handshakes' = handshakes \cup
             {[rank |-> r, identified |-> TRUE,
               id |-> [uuid |-> g, epoch |-> epoch],
               wellformed |-> TRUE, entries |-> w.held]}
        /\ images' = [images EXCEPT ![r][g][0] = w.held]
  BY <1>2
<1>5. PICK v, held : v = startup(w) /\ held = w.held
  OBVIOUS
<1>6. /\ v \in Reporter /\ ReporterOK(v) /\ held \in Image
      /\ v.observed = held /\ v.sequence = 0 /\ v.history = <<>>
  BY <1>5, StartupIs
<1>7. PICK m : m = [rank |-> r, identified |-> TRUE,
                    id |-> [uuid |-> g, epoch |-> epoch],
                    wellformed |-> TRUE, entries |-> held]
  OBVIOUS
<1>8. /\ reporter' = [reporter EXCEPT ![r] = v]
      /\ handshakes' = handshakes \cup {m}
      /\ images' = [images EXCEPT ![r][g][0] = held]
      /\ epochs' = [epochs EXCEPT ![r][g] = epoch]
  BY <1>2, <1>4, <1>5, <1>7
<1>9. /\ reporter \in [Ranks -> Reporter] /\ process \in [Ranks -> 0..MaxGenerations]
      /\ epochs \in [Ranks -> [Generations -> Nat]]
      /\ images \in [Ranks -> [Generations -> [Sequence -> Image]]]
      /\ handshakes \subseteq StartupMessage
      /\ budget \in [changes : Nat, faults : Nat, rollbacks : Nat]
  BY DEF PInv, TypeOK
<1>10. /\ g \in Nat /\ g # 0 /\ epoch \in Nat /\ process[r] \in Nat /\ g > process[r]
       /\ g \in 0..MaxGenerations
  BY <1>1, <1>3, <1>9, ProtocolAssumption DEF Generations
<1>11. /\ reporter' \in [Ranks -> Reporter] /\ reporter'[r] = v
       /\ process' \in [Ranks -> 0..MaxGenerations] /\ process'[r] = g
       /\ \A q \in Ranks : q # r => reporter'[q] = reporter[q] /\ process'[q] = process[q]
  BY <1>3, <1>6, <1>8, <1>9, <1>10
<1>12. /\ epochs' \in [Ranks -> [Generations -> Nat]]
       /\ epochs'[r][g] = epoch
       /\ \A q \in Ranks, h \in Generations :
            q # r \/ h # g => epochs'[q][h] = epochs[q][h]
  BY <1>3, <1>8, <1>9, <1>10
<1>13. /\ images' \in [Ranks -> [Generations -> [Sequence -> Image]]]
       /\ images'[r][g][0] = held
       /\ \A s \in Sequence : s # 0 => images'[r][g][s] = images[r][g][s]
       /\ \A q \in Ranks, h \in Generations :
            q # r \/ h # g => images'[q][h] = images[q][h]
  <2>1. PICK row : row = [images[r][g] EXCEPT ![0] = held]
    OBVIOUS
  <2>2. /\ row \in [Sequence -> Image] /\ row[0] = held
        /\ \A s \in Sequence : s # 0 => row[s] = images[r][g][s]
    BY <1>3, <1>6, <1>9, <2>1, Numbers
  <2>3. images' = [images EXCEPT ![r][g] = row]
    BY <1>8, <2>1
  <2> QED  BY <1>3, <1>9, <2>2, <2>3
<1>14. /\ m \in StartupMessage /\ m.rank = r /\ m.identified /\ m.id.uuid = g
       /\ m.id = [uuid |-> g, epoch |-> epoch] /\ m.entries = held
  BY <1>6, <1>7, <1>10 DEF StartupMessage, Identity
<1>15. TypeOK'
  <2>1. budget' \in [changes : Nat, faults : Nat, rollbacks : Nat]
    <3>1. PICK n : n = IF epoch > last THEN budget.rollbacks ELSE budget.rollbacks + 1
      OBVIOUS
    <3>2. n \in Nat
      BY <1>9, <3>1
    <3>3. budget' = [budget EXCEPT !.rollbacks = n]
      BY <1>2, <3>1
    <3> QED  BY <1>9, <3>2, <3>3
  <2>2. handshakes' \subseteq StartupMessage
    BY <1>8, <1>9, <1>14
  <2> QED  BY <1>3, <1>11, <1>12, <1>13, <2>1, <2>2 DEF PInv, TypeOK
<1>16. ReportersOK'
  <2>1. \A q \in Ranks : ReporterOK(reporter[q])
    BY DEF PInv, ReportersOK
  <2>2. \A q \in Ranks : ReporterOK(reporter'[q])
    BY <1>6, <1>11, <2>1
  <2> QED  BY <2>2 DEF ReportersOK, ReporterOK
\* Every process but the new one is as it was.
<1>17. \A q \in Ranks : \A h \in 1..process[q] :
         /\ h \in Generations /\ (q # r \/ h # g)
         /\ epochs'[q][h] = epochs[q][h] /\ images'[q][h] = images[q][h]
  <2> SUFFICES ASSUME NEW q \in Ranks, NEW h \in 1..process[q]
               PROVE  /\ h \in Generations /\ (q # r \/ h # g)
                      /\ epochs'[q][h] = epochs[q][h] /\ images'[q][h] = images[q][h]
    OBVIOUS
  <2>1. h \in Generations /\ (q # r \/ h # g)
    BY <1>10, RankNumbers
  <2> QED  BY <1>12, <1>13, <2>1
<1>18. Grows
  <2>1. \A q \in Ranks : process'[q] \in Nat /\ process[q] <= process'[q]
    BY <1>10, <1>11, RankNumbers
  <2>2. \A q \in Ranks : \A h, s : Recorded(q, h, s) => images'[q][h][s] = images[q][h][s]
    BY <1>17 DEF Recorded
  <2>3. \A q \in Ranks : /\ reporter'[q].sequence \in Nat
                         /\ process'[q] = process[q] =>
                              reporter[q].sequence <= reporter'[q].sequence
    <3> SUFFICES ASSUME NEW q \in Ranks
                 PROVE  /\ reporter'[q].sequence \in Nat
                        /\ process'[q] = process[q] =>
                             reporter[q].sequence <= reporter'[q].sequence
      OBVIOUS
    <3>1. CASE q = r
      BY <1>6, <1>10, <1>11, <3>1
    <3>2. CASE q # r
      <4>1. reporter[q].sequence \in Nat
        BY RankNumbers
      <4> QED  BY <1>11, <3>2, <4>1
    <3> QED  BY <3>1, <3>2
  <2> QED  BY <1>17, <2>1, <2>2, <2>3 DEF Grows
<1>19. WireOK' /\ Sent(wire, wire')
  BY <1>3, <1>18, WireStays
<1>20. Sound(catalog)' /\ Bounded(catalog)' /\ Following' /\ HeardOK' /\ Fresh'
  BY <1>3, <1>18, <1>19, SchedulerAlone
<1>21. Unborn'
  <2> SUFFICES ASSUME NEW q \in Ranks, NEW h \in Generations, h > process'[q]
               PROVE  images'[q][h] = [s \in Sequence |-> NoEntries] /\ wire[q][h] = <<>>
    BY <1>3 DEF Unborn
  <2>1. h > process[q] /\ (q # r \/ h # g)
    BY <1>1, <1>10, <1>11 DEF Generations
  <2> QED  BY <1>13, <2>1 DEF PInv, Unborn
<1>22. HandshakesOK'
  <2> SUFFICES ASSUME NEW x \in handshakes \cup {m}
               PROVE  /\ x.identified
                      /\ x.id.uuid \in 1..process'[x.rank]
                      /\ x.id = IdentityOf(x.rank, x.id.uuid)'
                      /\ x.entries = images'[x.rank][x.id.uuid][0]
    BY <1>8 DEF HandshakesOK
  <2>1. CASE x = m
    <3>1. g \in 1..g
      BY <1>10
    <3>2. IdentityOf(r, g)' = [uuid |-> g, epoch |-> epoch]
      BY <1>12 DEF IdentityOf
    <3> QED  BY <1>11, <1>13, <1>14, <2>1, <3>1, <3>2
  <2>2. CASE x \in handshakes
    <3>1. PICK q, h : q = x.rank /\ h = x.id.uuid
      OBVIOUS
    <3>2. /\ q \in Ranks /\ x.identified /\ h \in 1..process[q]
          /\ x.id = IdentityOf(q, h) /\ x.entries = images[q][h][0]
      BY <1>9, <2>2, <3>1 DEF PInv, HandshakesOK, StartupMessage
    <3>3. epochs'[q][h] = epochs[q][h] /\ images'[q][h] = images[q][h]
      BY <1>17, <3>2
    <3>4. IdentityOf(q, h)' = IdentityOf(q, h)
      BY <3>3 DEF IdentityOf
    <3>5. h \in 1..process'[q]
      <4>1. process[q] \in Nat /\ process'[q] \in Nat /\ process[q] <= process'[q]
        BY <1>18, <3>2, RankNumbers DEF Grows
      <4> QED  BY <3>2, <4>1
    <3> QED  BY <3>1, <3>2, <3>3, <3>4, <3>5
  <2> QED  BY <2>1, <2>2
<1>23. HistoryOK'
  <2> SUFFICES ASSUME NEW q \in Ranks, process'[q] # 0
               PROVE  /\ images'[q][process'[q]][reporter'[q].sequence] = reporter'[q].observed
                      /\ \A s \in Sequence : s > reporter'[q].sequence =>
                           images'[q][process'[q]][s] = NoEntries
                      /\ \A i \in 1..Len(reporter'[q].history) :
                           /\ DeltaRight(q, process[q], reporter[q].history[i])'
                           /\ reporter'[q].history[i].sequence <= reporter'[q].sequence
    BY DEF HistoryOK
  <2>1. CASE q = r
    <3>1. images[r][g] = [s \in Sequence |-> NoEntries]
      BY <1>3, <1>10 DEF PInv, Unborn
    <3>2. \A s \in Sequence : s > 0 => images'[r][g][s] = NoEntries
      <4>1. \A s \in Sequence : images[r][g][s] = NoEntries
        BY <3>1
      <4>2. \A s \in Sequence : s > 0 => s # 0
        BY Numbers
      <4> QED  BY <1>13, <4>1, <4>2
    <3> QED  BY <1>6, <1>11, <1>13, <2>1, <3>2
  <2>2. CASE q # r
    <3>1. /\ reporter'[q] = reporter[q] /\ process'[q] = process[q]
      BY <1>11, <2>2
    <3>2. /\ images[q][process[q]][reporter[q].sequence] = reporter[q].observed
          /\ \A s \in Sequence : s > reporter[q].sequence =>
               images[q][process[q]][s] = NoEntries
          /\ \A i \in 1..Len(reporter[q].history) :
               /\ DeltaRight(q, process[q], reporter[q].history[i])
               /\ reporter[q].history[i].sequence <= reporter[q].sequence
      BY <3>1 DEF PInv, HistoryOK
    <3>3. process[q] \in 1..process[q]
      BY <3>1, RankNumbers
    <3>4. images'[q][process[q]] = images[q][process[q]]
      BY <1>17, <3>3
    <3>5. PICK h, H : h = process[q] /\ H = reporter[q].history
      OBVIOUS
    <3>6. h = process'[q] /\ H = reporter'[q].history
      BY <3>1, <3>5
    <3>7. \A i \in 1..Len(H) : DeltaRight(q, h, H[i])'
      BY <3>2, <3>4, <3>5 DEF DeltaRight
    <3> QED  BY <3>1, <3>2, <3>4, <3>5, <3>6, <3>7
  <2> QED  BY <2>1, <2>2
<1>24. PInv'
  BY <1>15, <1>16, <1>19, <1>20, <1>21, <1>22, <1>23 DEF PInv
<1> QED  BY <1>3, <1>24, NoneReadmitted

\* A deque with one delta more.
LEMMA RetainedIs ==
  ASSUME NEW history \in Seq(Delta), NEW delta \in Delta,
         NEW i \in 1..Len(Retained(history, delta))
  PROVE  LET x == Retained(history, delta)[i]
         IN x = delta \/ \E j \in 1..Len(history) : x = history[j]
<1>1. PICK h : h = IF Len(history) < DeltaHistoryLimit THEN history ELSE Tail(history)
  OBVIOUS
<1>2. h \in Seq(Delta) /\ \A j \in 1..Len(h) : \E k \in 1..Len(history) : h[j] = history[k]
  <2>1. CASE h = history
    BY <2>1
  <2>2. CASE h # history
    <3>1. h = Tail(history) /\ ~(Len(history) < DeltaHistoryLimit)
      BY <1>1, <2>2
    <3>2. Len(history) \in Nat /\ DeltaHistoryLimit \in Nat /\ DeltaHistoryLimit # 0
      BY ReporterAssumption
    <3>3. history # <<>>
      BY <3>1, <3>2
    <3>4. /\ h \in Seq(Delta) /\ Len(h) = Len(history) - 1
          /\ \A j \in 1..Len(h) : h[j] = history[j + 1]
      BY <3>1, <3>3
    <3>5. \A j \in 1..Len(h) : j + 1 \in 1..Len(history)
      BY <3>2, <3>4
    <3> QED  BY <3>4, <3>5
  <2> QED  BY <2>1, <2>2
<1>3. PICK x : x = Append(h, delta)
  OBVIOUS
<1>4. Retained(history, delta) = x
  BY <1>1, <1>3 DEF Retained
<1>5. /\ Len(x) = Len(h) + 1 /\ Len(h) \in Nat /\ x[Len(h) + 1] = delta
      /\ \A j \in 1..Len(h) : x[j] = h[j]
  BY <1>2, <1>3
<1>6. i \in 1..Len(x)
  BY <1>4
<1>7. i = Len(h) + 1 \/ i \in 1..Len(h)
  BY <1>5, <1>6
<1> QED  BY <1>2, <1>4, <1>5, <1>7

\* The deltas that a report's mutation branch leaves fit the record it makes.
LEMMA HistoryGrows ==
  ASSUME PInv, Grows, NEW r \in Ranks, process[r] # 0, NEW g, g = process[r],
         NEW w \in Reporter, w.sequence \in Sequence,
         \/ Settled(reporter[r], w)
         \/ Fitting(reporter[r], w)
         \/ Skipping(reporter[r], w),
         images'[r][g][w.sequence] = w.observed,
         \A s \in Sequence : s # w.sequence => images'[r][g][s] = images[r][g][s],
         NEW i \in 1..Len(w.history)
  PROVE  /\ DeltaRight(r, g, w.history[i])'
         /\ w.history[i].sequence <= w.sequence
<1>1. PICK o, k, n : o = reporter[r] /\ k = o.sequence /\ n = w.sequence
  OBVIOUS
<1>2. /\ o \in Reporter /\ k \in Nat /\ k \in Sequence /\ n \in Nat /\ g \in 1..process[r]
      /\ o.history \in Seq(Delta) /\ w.history \in Seq(Delta)
  <2>1. reporter[r] \in Reporter
    BY DEF PInv, TypeOK
  <2>2. reporter[r].sequence \in Sequence /\ process[r] \in Nat
    BY RankNumbers
  <2>3. process[r] \in 1..process[r]
    BY <2>2
  <2>4. o.history \in Seq(Delta) /\ w.history \in Seq(Delta)
    BY <1>1, <2>1 DEF Reporter
  <2> QED  BY <1>1, <2>1, <2>2, <2>3, <2>4, Numbers
<1>3. /\ images[r][g][k] = o.observed
      /\ \A s \in Sequence : s > k => images[r][g][s] = NoEntries
      /\ \A j \in 1..Len(o.history) : /\ DeltaRight(r, g, o.history[j])
                                      /\ o.history[j].sequence <= k
  BY <1>1 DEF PInv, HistoryOK
<1>4. PICK x \in Delta : x = w.history[i]
  BY <1>2
<1>5. ASSUME NEW j \in 1..Len(o.history), x = o.history[j], k <= n
      PROVE  DeltaRight(r, g, x)' /\ x.sequence <= n
  <2>1. DeltaRight(r, g, x) /\ x.sequence <= k
    BY <1>3, <1>5
  <2>2. Recorded(r, g, k)
    BY <1>1, <1>2 DEF Recorded
  <2>3. DeltaRight(r, g, x)'
    BY <1>2, <2>1, <2>2, DeltaStays
  <2>4. x.sequence \in Nat
    BY DEF Delta
  <2> QED  BY <1>2, <1>5, <2>1, <2>3, <2>4
<1>6. \A s \in Sequence : s # n => images'[r][g][s] = images[r][g][s]
  BY <1>1
<1>7. images'[r][g][n] = w.observed
  BY <1>1
<1>8. CASE Settled(o, w)
  <2>1. n = k /\ w.history = o.history
    BY <1>1, <1>8 DEF Settled
  <2>2. i \in 1..Len(o.history) /\ x = o.history[i] /\ k <= n
    BY <1>2, <1>4, <2>1
  <2>3. DeltaRight(r, g, x)' /\ x.sequence <= n
    BY <1>5, <2>2
  <2> QED  BY <1>1, <1>4, <2>3
<1>9. CASE Fitting(o, w)
  <2>1. PICK delta \in Delta :
          /\ delta.base_sequence = k /\ delta.sequence = k + 1
          /\ n = k + 1
          /\ w.history = Retained(o.history, delta)
          /\ w.observed = Patched(o.observed, delta)
    BY <1>1, <1>9 DEF Fitting
  <2>2. k <= n /\ k # n
    BY <1>2, <2>1
  <2>3. x = delta \/ \E j \in 1..Len(o.history) : x = o.history[j]
    <3>1. i \in 1..Len(Retained(o.history, delta)) /\ x = Retained(o.history, delta)[i]
      BY <1>4, <2>1
    <3>2. o.history \in Seq(Delta)
      BY <1>2
    <3> QED  BY <3>1, <3>2, RetainedIs
  <2>4. CASE x = delta
    <3>1. images'[r][g][k] = o.observed
      BY <1>2, <1>3, <1>6, <2>2
    <3>2. Within(Patched(images'[r][g][k], x), images'[r][g][n])
      BY <1>7, <2>1, <2>4, <3>1, WithinEasy
    <3>3. DeltaRight(r, g, x)'
      BY <1>1, <1>2, <2>1, <2>4, <3>2 DEF DeltaRight
    <3>4. x.sequence <= n
      BY <1>2, <2>1, <2>4
    <3> QED  BY <1>1, <1>4, <3>3, <3>4
  <2>5. CASE \E j \in 1..Len(o.history) : x = o.history[j]
    <3>1. DeltaRight(r, g, x)' /\ x.sequence <= n
      BY <1>5, <2>2, <2>5
    <3> QED  BY <1>1, <1>4, <3>1
  <2> QED  BY <2>3, <2>4, <2>5
<1>10. CASE Skipping(o, w)
  <2>1. PICK delta \in Delta :
          /\ delta.base_sequence = k + 1 /\ delta.sequence = k + 2
          /\ delta.added = NoEntries /\ delta.removed = {}
          /\ n = k + 2
          /\ w.history = <<delta>>
    BY <1>1, <1>10 DEF Skipping
  <2>2. x = delta
    BY <1>4, <2>1
  <2>3. /\ k + 1 \in Nat /\ k + 1 \in Sequence /\ k + 1 # n /\ k + 1 > k
        /\ n = (k + 1) + 1
    BY <1>1, <1>2, <2>1, ProtocolAssumption DEF Sequence
  <2>4. images'[r][g][k + 1] = NoEntries
    BY <1>3, <1>6, <2>3
  <2>5. Patched(NoEntries, x) = NoEntries
    BY <2>1, <2>2 DEF Patched, NoEntries
  <2>6. Within(Patched(images'[r][g][k + 1], x), images'[r][g][n])
    BY <2>4, <2>5, WithinEasy
  <2>7. DeltaRight(r, g, x)'
    BY <1>1, <1>2, <2>1, <2>2, <2>3, <2>6 DEF DeltaRight
  <2>8. x.sequence <= n
    BY <1>2, <2>1, <2>2
  <2> QED  BY <1>1, <1>4, <2>7, <2>8
<1> QED  BY <1>1, <1>8, <1>9, <1>10

\* A report of the running process.
LEMMA SendKeeps ==
  ASSUME PInv, NEW r \in Ranks, SendReport(r)
  PROVE  PInv' /\ Readmits
<1>1. PICK g, o, w, v, n : /\ g = process[r] /\ o = reporter[r]
                           /\ w = noticed(o) /\ v = advance(w) /\ n = w.sequence
  OBVIOUS
<1>2. PICK m, p : /\ m = [rank |-> r, identified |-> TRUE, id |-> IdentityOf(r, g),
                          wellformed |-> TRUE, checkpoint |-> CurrentPage(w),
                          delta |-> CurrentDelta(w)]
                  /\ p = [report |-> m, held |-> w.held]
  OBVIOUS
<1>3. /\ g # 0 /\ n <= MaxSequence
      /\ reporter' = [reporter EXCEPT ![r] = v]
      /\ wire' = [wire EXCEPT ![r][g] = Append(@, p)]
      /\ images' = [images EXCEPT ![r][g][n] = w.observed]
      /\ UNCHANGED <<catalog, process, epochs, handshakes, budget, seen, heard>>
  BY <1>1, <1>2 DEF SendReport, CanSend, next_report
<1>4. /\ reporter \in [Ranks -> Reporter] /\ process \in [Ranks -> 0..MaxGenerations]
      /\ epochs \in [Ranks -> [Generations -> Nat]]
      /\ images \in [Ranks -> [Generations -> [Sequence -> Image]]]
      /\ wire \in [Ranks -> [Generations -> Seq(Packet)]] /\ o \in Reporter
  BY <1>1 DEF PInv, TypeOK
<1>5. /\ g \in Generations /\ g \in 1..process[r] /\ g \in Nat
  BY <1>1, <1>3, RankNumbers
<1>6. ReporterOK(o)
  BY <1>1 DEF PInv, ReportersOK
<1>7. /\ w \in Reporter /\ w.held = o.held
      /\ Within(w.observed, w.held)
      /\ ~w.dirty => w.held = w.observed
      /\ w.checkpoint_sequence = n
      /\ w.checkpoint_items = w.observed
      /\ Settled(o, w) \/ Fitting(o, w) \/ Skipping(o, w)
  BY <1>1, <1>4, <1>6, NoticedIs DEF ReporterOK
<1>8. /\ v \in Reporter /\ v.held = w.held /\ v.observed = w.observed
      /\ v.dirty = w.dirty /\ v.sequence = n /\ v.history = w.history
      /\ v.checkpoint_sequence = w.checkpoint_sequence
      /\ v.checkpoint_items = w.checkpoint_items
  BY <1>1, <1>7, AdvanceIs
<1>9. PICK k : k = o.sequence
  OBVIOUS
<1>10. /\ w.observed \in Image /\ w.held \in Image /\ n \in Nat /\ n \in Sequence
       /\ k \in Nat /\ k \in Sequence
  <2>1. w.observed \in Image /\ w.held \in Image /\ n \in Nat /\ k \in Nat
    BY <1>1, <1>4, <1>7, <1>9 DEF Reporter
  <2>2. k \in Sequence
    BY <1>6, <1>9 DEF ReporterOK
  <2> QED  BY <1>3, <2>1, <2>2, ProtocolAssumption DEF Sequence
<1>11. /\ k <= n
       /\ k = n => w.observed = o.observed
  BY <1>1, <1>7, <1>9, <1>10 DEF Settled, Fitting, Skipping
<1>12. /\ reporter' \in [Ranks -> Reporter] /\ reporter'[r] = v
       /\ \A q \in Ranks : q # r => reporter'[q] = reporter[q]
  BY <1>3, <1>4, <1>8
<1>13. /\ images' \in [Ranks -> [Generations -> [Sequence -> Image]]]
       /\ images'[r][g][n] = w.observed
       /\ \A s \in Sequence : s # n => images'[r][g][s] = images[r][g][s]
       /\ \A q \in Ranks, h \in Generations :
            q # r \/ h # g => images'[q][h] = images[q][h]
  <2>1. PICK row : row = [images[r][g] EXCEPT ![n] = w.observed]
    OBVIOUS
  <2>2. /\ row \in [Sequence -> Image] /\ row[n] = w.observed
        /\ \A s \in Sequence : s # n => row[s] = images[r][g][s]
    BY <1>4, <1>5, <1>10, <2>1
  <2>3. images' = [images EXCEPT ![r][g] = row]
    BY <1>3, <2>1
  <2> QED  BY <1>4, <1>5, <2>2, <2>3
<1>14. /\ images[r][g][k] = o.observed
       /\ \A s \in Sequence : s > k => images[r][g][s] = NoEntries
  BY <1>1, <1>3, <1>9 DEF PInv, HistoryOK
<1>15. Grows
  <2>1. \A q \in Ranks : process'[q] \in Nat /\ process[q] <= process'[q]
    <3>1. \A q \in Ranks : process[q] \in Nat
      BY RankNumbers
    <3> QED  BY <1>3, <3>1
  <2>2. ASSUME NEW q \in Ranks, NEW h, NEW s, Recorded(q, h, s)
        PROVE  images'[q][h][s] = images[q][h][s]
    <3>1. /\ h \in Generations /\ s \in Sequence /\ s \in Nat
          /\ h = process[q] => s <= reporter[q].sequence
      BY <2>2, RankNumbers, Numbers DEF Recorded
    <3>2. CASE q # r \/ h # g
      BY <1>13, <3>1, <3>2
    <3>3. CASE q = r /\ h = g /\ s # n
      BY <1>13, <3>1, <3>3
    <3>4. CASE q = r /\ h = g /\ s = n
      <4>1. n <= k
        BY <1>1, <1>9, <3>1, <3>4
      <4>2. k = n
        BY <1>10, <1>11, <4>1
      <4> QED  BY <1>11, <1>13, <1>14, <3>4, <4>2
    <3> QED  BY <3>2, <3>3, <3>4
  <2>3. \A q \in Ranks : /\ reporter'[q].sequence \in Nat
                         /\ process'[q] = process[q] =>
                              reporter[q].sequence <= reporter'[q].sequence
    <3> SUFFICES ASSUME NEW q \in Ranks
                 PROVE  /\ reporter'[q].sequence \in Nat
                        /\ reporter[q].sequence <= reporter'[q].sequence
      OBVIOUS
    <3>1. CASE q = r
      BY <1>1, <1>8, <1>9, <1>10, <1>11, <1>12, <3>1
    <3>2. CASE q # r
      <4>1. reporter[q].sequence \in Nat
        BY RankNumbers
      <4> QED  BY <1>12, <3>2, <4>1
    <3> QED  BY <3>1, <3>2
  <2> QED  BY <1>3, <2>1, <2>2, <2>3 DEF Grows
<1>16. ASSUME NEW i \in 1..Len(w.history)
       PROVE  DeltaRight(r, g, w.history[i])' /\ w.history[i].sequence <= n
  BY <1>1, <1>3, <1>7, <1>10, <1>13, <1>15, HistoryGrows
<1>17. ReportersOK'
  <2> SUFFICES ASSUME NEW q \in Ranks
               PROVE  ReporterOK(reporter'[q])
    BY DEF ReportersOK, ReporterOK
  <2>1. CASE q = r
    BY <1>6, <1>7, <1>8, <1>10, <1>12, <2>1 DEF ReporterOK
  <2>2. CASE q # r
    BY <1>12, <2>2 DEF PInv, ReportersOK
  <2> QED  BY <2>1, <2>2
<1>18. HistoryOK'
  <2> SUFFICES ASSUME NEW q \in Ranks, NEW h, h = process[q], h # 0
               PROVE  /\ images'[q][h][reporter'[q].sequence] = reporter'[q].observed
                      /\ \A s \in Sequence : s > reporter'[q].sequence =>
                           images'[q][h][s] = NoEntries
                      /\ \A H : H = reporter'[q].history => \A i \in 1..Len(H) :
                           DeltaRight(q, h, H[i])' /\ H[i].sequence <= reporter'[q].sequence
    <3>1. PICK P : P = process
      OBVIOUS
    <3>2. P = process'
      BY <1>3, <3>1
    <3>3. \A q \in Ranks : P[q] # 0 =>
            /\ images'[q][P[q]][reporter'[q].sequence] = reporter'[q].observed
            /\ \A s \in Sequence : s > reporter'[q].sequence =>
                 images'[q][P[q]][s] = NoEntries
            /\ \A H : H = reporter'[q].history => \A i \in 1..Len(H) :
                 DeltaRight(q, P[q], H[i])' /\ H[i].sequence <= reporter'[q].sequence
      BY <3>1
    <3>4. \A q \in Ranks : process'[q] # 0 =>
            \A i \in 1..Len(reporter'[q].history) :
              /\ DeltaRight(q, process[q], reporter[q].history[i])'
              /\ reporter'[q].history[i].sequence <= reporter'[q].sequence
      BY <3>2, <3>3
    <3> QED  BY <3>2, <3>3, <3>4 DEF HistoryOK
  <2>1. CASE q = r
    <3>1. h = g /\ reporter'[q].sequence = n /\ reporter'[q].observed = w.observed
          /\ reporter'[q].history = w.history
      BY <1>1, <1>8, <1>12, <2>1
    <3>2. ASSUME NEW s \in Sequence, s > n
          PROVE  images'[r][g][s] = NoEntries
      <4>1. s \in Nat /\ s > k /\ s # n
        BY <1>10, <1>11, <3>2, Numbers
      <4> QED  BY <1>13, <1>14, <4>1
    <3> QED  BY <1>13, <1>16, <2>1, <3>1, <3>2
  <2>2. CASE q # r
    <3>1. reporter'[q] = reporter[q]
      BY <1>12, <2>2
    <3>2. PICK H : H = reporter[q].history
      OBVIOUS
    <3>3. /\ images[q][h][reporter[q].sequence] = reporter[q].observed
          /\ \A s \in Sequence : s > reporter[q].sequence => images[q][h][s] = NoEntries
          /\ \A i \in 1..Len(H) :
               DeltaRight(q, h, H[i]) /\ H[i].sequence <= reporter[q].sequence
      BY <3>2 DEF PInv, HistoryOK
    <3>4. h \in 1..process[q] /\ h \in Generations
      BY RankNumbers
    <3>5. images'[q][h] = images[q][h]
      BY <1>13, <2>2, <3>4
    <3>6. \A i \in 1..Len(H) : DeltaRight(q, h, H[i])'
      BY <3>3, <3>5 DEF DeltaRight
    <3> QED  BY <3>1, <3>2, <3>3, <3>5, <3>6
  <2> QED  BY <2>1, <2>2
\* The report it sends.
<1>19. /\ p \in Packet /\ PacketOK(r, g, p)' /\ SequenceOf(p) = n
  <2>1. PICK cp, delta : cp = CurrentPage(w) /\ delta = CurrentDelta(w)
    OBVIOUS
  <2>2. /\ cp \in Checkpoint /\ cp.sequence = n
        /\ cp.held_count = Size(w.observed) /\ Within(cp.entries, w.observed)
    BY <1>7, <2>1, PageIs
  <2>3. /\ delta \in Delta
        /\ delta = NoDelta \/ \E i \in 1..Len(w.history) : delta = w.history[i]
    BY <1>7, <2>1, DeltaIs
  <2>4. DeltaRight(r, g, delta)' /\ delta.sequence <= n
    <3>1. CASE delta = NoDelta
      BY <1>10, <3>1 DEF DeltaRight, NoDelta
    <3>2. CASE \E i \in 1..Len(w.history) : delta = w.history[i]
      BY <1>16, <3>2
    <3> QED  BY <2>3, <3>1, <3>2
  <2>5. IdentityOf(r, g) \in Identity /\ IdentityOf(r, g)' = IdentityOf(r, g)
    <3>1. epochs[r][g] \in Nat /\ g # 0 /\ g \in Nat
      BY <1>3, <1>4, <1>5
    <3> QED  BY <1>3, <3>1 DEF IdentityOf, Identity
  <2>6. PICK id : id = IdentityOf(r, g)
    OBVIOUS
  <2>7. m = [rank |-> r, identified |-> TRUE, id |-> id, wellformed |-> TRUE,
             checkpoint |-> cp, delta |-> delta]
    BY <1>2, <2>1, <2>6
  <2>8. /\ m \in ReportMessage /\ m.rank = r /\ m.identified /\ m.id = id
        /\ m.checkpoint = cp /\ m.delta = delta
    BY <2>2, <2>3, <2>5, <2>6, <2>7 DEF ReportMessage
  <2>9. p \in Packet /\ p.report = m /\ p.held = w.held
    BY <1>2, <1>10, <2>8 DEF Packet
  <2>10. SequenceOf(p) = n
    BY <2>2, <2>8, <2>9 DEF SequenceOf
  <2>11. g = process'[r] => n <= reporter'[r].sequence
    BY <1>8, <1>10, <1>12
  <2>12. PacketOK(r, g, p)'
    BY <1>7, <1>10, <1>13, <2>2, <2>4, <2>5, <2>6, <2>8, <2>9, <2>11 DEF PacketOK
  <2> QED  BY <2>9, <2>10, <2>12
<1>20. PICK old, new : old = wire[r][g] /\ new = Append(old, p)
  OBVIOUS
<1>21. /\ old \in Seq(Packet) /\ new \in Seq(Packet) /\ Len(old) \in Nat
       /\ Len(new) = Len(old) + 1 /\ new[Len(old) + 1] = p
       /\ \A i \in 1..Len(old) : new[i] = old[i]
  <2>1. old \in Seq(Packet)
    BY <1>4, <1>5, <1>20
  <2> QED  BY <1>19, <1>20, <2>1
<1>22. /\ wire' \in [Ranks -> [Generations -> Seq(Packet)]] /\ wire'[r][g] = new
       /\ \A q \in Ranks, h \in Generations :
            q # r \/ h # g => wire'[q][h] = wire[q][h]
  <2>1. wire' = [wire EXCEPT ![r][g] = new]
    BY <1>3, <1>20
  <2> QED  BY <1>4, <1>5, <1>21, <2>1
<1>23. ASSUME NEW q \in Ranks, NEW h \in Generations, NEW i \in 1..Len(wire[q][h])
       PROVE  /\ wire[q][h][i] \in Packet /\ h \in 1..process[q]
              /\ PacketOK(q, h, wire[q][h][i])
  <2>1. wire[q][h] \in Seq(Packet)
    BY <1>4
  <2>2. wire[q][h][i] \in Packet /\ wire[q][h] # <<>>
    BY <2>1
  <2>3. ~(h > process[q])
    BY <2>2 DEF PInv, Unborn
  <2>4. h \in 1..process[q]
    BY <2>3, RankNumbers DEF Generations
  <2>5. PacketOK(q, h, wire[q][h][i])
    BY DEF PInv, WireOK
  <2> QED  BY <2>2, <2>4, <2>5
<1>24. ASSUME NEW i \in 1..Len(old)
       PROVE  SequenceOf(old[i]) \in Nat /\ SequenceOf(old[i]) <= n
  <2>1. PacketOK(r, g, old[i])
    BY <1>5, <1>20, <1>23
  <2>2. SequenceOf(old[i]) \in Sequence /\ SequenceOf(old[i]) <= reporter[r].sequence
    BY <1>1, <2>1 DEF PacketOK, SequenceOf
  <2>3. SequenceOf(old[i]) \in Nat
    BY <2>2, Numbers
  <2> QED  BY <1>1, <1>9, <1>10, <1>11, <2>2, <2>3
<1>25. Sent(wire, wire')
  <2> SUFFICES ASSUME NEW q \in Ranks, NEW h \in Generations, NEW i \in 1..Len(wire'[q][h])
               PROVE  UnderWay(wire, q, h, wire'[q][h][i]) \/ JustSent(q, h, wire'[q][h][i])
    BY DEF Sent
  <2>1. CASE q # r \/ h # g
    BY <1>22, <2>1 DEF UnderWay
  <2>2. CASE q = r /\ h = g /\ i \in 1..Len(old)
    BY <1>20, <1>21, <1>22, <2>2 DEF UnderWay
  <2>3. CASE q = r /\ h = g /\ i = Len(old) + 1
    BY <1>1, <1>9, <1>10, <1>11, <1>19, <1>21, <1>22, <2>3 DEF JustSent
  <2> QED  BY <1>21, <1>22, <2>1, <2>2, <2>3
<1>26. WireOK'
  <2> SUFFICES ASSUME NEW q \in Ranks, NEW h \in Generations, NEW y, y = wire'[q][h]
               PROVE  /\ \A i \in 1..Len(y) : PacketOK(q, h, y[i])'
                      /\ \A i, j \in 1..Len(y) :
                           i <= j => SequenceOf(y[i]) <= SequenceOf(y[j])
    BY DEF WireOK, SequenceOf
  <2>1. \A i \in 1..Len(wire[q][h]) : \A x : x = wire[q][h][i] => PacketOK(q, h, x)'
    BY <1>15, <1>23, PacketStays
  <2>2. \A i, j \in 1..Len(wire[q][h]) :
          i <= j => SequenceOf(wire[q][h][i]) <= SequenceOf(wire[q][h][j])
    BY DEF PInv, WireOK
  <2>3. CASE q # r \/ h # g
    BY <1>22, <2>1, <2>2, <2>3
  <2>4. CASE q = r /\ h = g
    <3>0. y = new /\ \A i \in 1..Len(new) : i \in 1..Len(old) \/ i = Len(old) + 1
      BY <1>21, <1>22, <2>4
    <3>1. ASSUME NEW i \in 1..Len(new)
          PROVE  PacketOK(q, h, new[i])'
      <4>1. CASE i \in 1..Len(old)
        BY <1>20, <1>21, <2>1, <2>4, <4>1
      <4>2. CASE i = Len(old) + 1
        BY <1>19, <1>21, <2>4, <4>2
      <4> QED  BY <3>0, <4>1, <4>2
    <3>2. ASSUME NEW i \in 1..Len(new), NEW j \in 1..Len(new), i <= j
          PROVE  SequenceOf(new[i]) <= SequenceOf(new[j])
      <4>1. CASE i \in 1..Len(old) /\ j \in 1..Len(old)
        BY <1>20, <1>21, <2>2, <2>4, <3>2, <4>1
      <4>2. CASE i \in 1..Len(old) /\ j = Len(old) + 1
        BY <1>19, <1>21, <1>24, <4>2
      <4>3. CASE i = Len(old) + 1
        <5>1. j = i
          BY <1>21, <3>0, <3>2, <4>3
        <5> QED  BY <1>10, <1>19, <1>21, <4>3, <5>1
      <4> QED  BY <3>0, <4>1, <4>2, <4>3
    <3> QED  BY <3>0, <3>1, <3>2
  <2> QED  BY <2>3, <2>4
<1>27. Sound(catalog)' /\ Bounded(catalog)' /\ Following' /\ HeardOK' /\ Fresh'
  <2>1. PICK after : after = wire'
    OBVIOUS
  <2> QED  BY <1>3, <1>15, <1>25, <2>1, SchedulerAlone
<1>28. TypeOK'
  BY <1>3, <1>12, <1>13, <1>22 DEF PInv, TypeOK
<1>29. Unborn'
  <2> SUFFICES ASSUME NEW q \in Ranks, NEW h \in Generations, h > process[q]
               PROVE  images'[q][h] = [s \in Sequence |-> NoEntries] /\ wire'[q][h] = <<>>
    BY <1>3 DEF Unborn
  <2>1. q # r \/ h # g
    BY <1>1, <1>5
  <2>2. images'[q][h] = images[q][h] /\ wire'[q][h] = wire[q][h]
    BY <1>13, <1>22, <2>1
  <2>3. images[q][h] = [s \in Sequence |-> NoEntries] /\ wire[q][h] = <<>>
    BY DEF PInv, Unborn
  <2> QED  BY <2>2, <2>3
<1>30. HandshakesOK'
  <2> SUFFICES ASSUME NEW x \in handshakes
               PROVE  /\ x.identified
                      /\ x.id.uuid \in 1..process[x.rank]
                      /\ x.id = IdentityOf(x.rank, x.id.uuid)
                      /\ x.entries = images'[x.rank][x.id.uuid][0]
    BY <1>3 DEF HandshakesOK, IdentityOf
  <2>1. /\ x.identified /\ x.rank \in Ranks
        /\ x.id.uuid \in 1..process[x.rank]
        /\ x.id = IdentityOf(x.rank, x.id.uuid)
        /\ x.entries = images[x.rank][x.id.uuid][0]
    BY DEF PInv, TypeOK, HandshakesOK, StartupMessage
  <2>2. Recorded(x.rank, x.id.uuid, 0)
    BY <2>1, RankNumbers, Numbers DEF Recorded
  <2>3. PICK q, h : q = x.rank /\ h = x.id.uuid
    OBVIOUS
  <2>4. q \in Ranks /\ Recorded(q, h, 0)
    BY <2>1, <2>2, <2>3
  <2>5. images'[q][h][0] = images[q][h][0]
    BY <1>15, <2>4 DEF Grows
  <2> QED  BY <2>1, <2>3, <2>5
<1>31. PInv'
  BY <1>17, <1>18, <1>26, <1>27, <1>28, <1>29, <1>30 DEF PInv
<1> QED  BY <1>3, <1>31, NoneReadmitted

---------------------------------------------------------------------------
(* The theorems.                                                           *)

\* Nobody has reported yet.
LEMMA ProtocolStarts == Init => PInv
<1> SUFFICES ASSUME Init
             PROVE  PInv
  OBVIOUS
<1>1. PICK none : none = [s \in Sequence |-> NoEntries]
  OBVIOUS
<1>2. /\ catalog = InitCatalog
      /\ reporter = [r \in Ranks |-> NewReporter]
      /\ process = [r \in Ranks |-> 0]
      /\ epochs = [r \in Ranks |-> [g \in Generations |-> 0]]
      /\ handshakes = {}
      /\ wire = [r \in Ranks |-> [g \in Generations |-> <<>>]]
      /\ budget = [changes |-> 0, faults |-> 0, rollbacks |-> 0]
      /\ images = [r \in Ranks |-> [g \in Generations |-> none]]
      /\ seen = [r \in Ranks |-> NoEntries]
      /\ heard = [r \in Ranks |-> {}]
  BY <1>1 DEF Init
<1>3. NoEntries \in Image /\ none \in [Sequence -> Image] /\ <<>> \in Seq(Packet)
  BY <1>1, NoneTypes
<1>4. /\ NewReporter \in Reporter /\ ReporterOK(NewReporter)
  <2>1. NewReporter \in Reporter
    <3>1. NoEntries \in Image /\ <<>> \in Seq(Delta)
      BY NoneTypes
    <3> QED  BY <3>1 DEF NewReporter, Reporter
  <2>2. Size(NoEntries) <= Capacity
    <3>1. Keys(NoEntries) = {}
      BY DEF Keys, NoEntries
    <3>2. Size(NoEntries) = 0
      BY <3>1, FS_EmptySet DEF Size
    <3> QED  BY <3>2, ImagesAssumption
  <2>3. ReporterOK(NewReporter)
    BY <2>2, Numbers DEF ReporterOK, NewReporter
  <2> QED  BY <2>1, <2>3
<1>5. TypeOK
  <2>1. IsCatalog(catalog)
    BY <1>2, NoneTypes
  <2>2. 0 \in 0..MaxGenerations
    BY ProtocolAssumption
  <2> HIDE DEF Generations
  <2>3. /\ reporter \in [Ranks -> Reporter] /\ process \in [Ranks -> 0..MaxGenerations]
        /\ epochs \in [Ranks -> [Generations -> Nat]]
        /\ wire \in [Ranks -> [Generations -> Seq(Packet)]]
        /\ images \in [Ranks -> [Generations -> [Sequence -> Image]]]
        /\ seen \in [Ranks -> Image] /\ heard \in [Ranks -> SUBSET Generations]
    BY <1>2, <1>3, <1>4, <2>2
  <2>4. budget \in [changes : Nat, faults : Nat, rollbacks : Nat]
    BY <1>2
  <2> QED  BY <1>2, <2>1, <2>3, <2>4 DEF TypeOK
<1>6. CatalogInit
  BY <1>2 DEF CatalogInit
<1>7. Sound(catalog) /\ Bounded(catalog)
  BY <1>6, InitInvariant DEF CatalogInv
<1>8. ReportersOK
  BY <1>2, <1>4 DEF ReportersOK
<1>9. HistoryOK
  BY <1>2 DEF HistoryOK
<1>10. Unborn
  BY <1>1, <1>2 DEF Unborn
<1>11. HandshakesOK
  BY <1>2 DEF HandshakesOK
<1>12. WireOK
  BY <1>2 DEF WireOK
<1>13. \A r \in Ranks : /\ catalog.generation[r] = NoIdentity
                        /\ catalog.rank_entries[r] = NoEntries
  BY <1>2 DEF InitCatalog
<1>14. Following
  BY <1>13 DEF Following
<1>15. HeardOK
  BY <1>2 DEF HeardOK
<1>16. Fresh
  BY <1>2, <1>13, WithinEasy DEF Fresh
<1> QED  BY <1>5, <1>7, <1>8, <1>9, <1>10, <1>11, <1>12, <1>14, <1>15, <1>16 DEF PInv

\* Every step keeps the invariant, and readmits a rank only with a whole image.
LEMMA ProtocolSteps ==
  ASSUME PInv, Next
  PROVE  PInv' /\ Readmits
<1>0. \A r \in Ranks : reporter[r] \in Reporter /\ ReporterOK(reporter[r])
  BY DEF PInv, TypeOK, ReportersOK
<1>1. ASSUME NEW r \in Ranks, StartWorker(r)
      PROVE  PInv' /\ Readmits
  BY <1>1, StartKeeps
<1>2. ASSUME NEW r \in Ranks, Replace(r)
      PROVE  PInv' /\ Readmits
  <2>1. PICK image \in Image : \E w \in replace(reporter[r], image) : Change(r, w)
    BY <1>2 DEF Replace
  <2>2. PICK w \in replace(reporter[r], image) : Change(r, w)
    BY <2>1
  <2>3. Mutated(reporter[r], w)
    BY <1>0, <2>2, ReplaceMutates
  <2> QED  BY <2>2, <2>3, ChangeKeeps
<1>3. ASSUME NEW r \in Ranks, Add(r)
      PROVE  PInv' /\ Readmits
  <2>1. PICK e \in Entries, span \in Spans :
          \E w \in add(reporter[r], e, span) : Change(r, w)
    BY <1>3 DEF Add
  <2>2. PICK w \in add(reporter[r], e, span) : Change(r, w)
    BY <2>1
  <2>3. Mutated(reporter[r], w)
    BY <1>0, <2>2, AddMutates DEF ReporterOK
  <2> QED  BY <2>2, <2>3, ChangeKeeps
<1>4. ASSUME NEW r \in Ranks, Remove(r)
      PROVE  PInv' /\ Readmits
  <2>1. PICK e \in Entries : Change(r, remove(reporter[r], e))
    BY <1>4 DEF Remove
  <2>2. Mutated(reporter[r], remove(reporter[r], e))
    BY <1>0, RemoveMutates DEF ReporterOK
  <2> QED  BY <2>1, <2>2, ChangeKeeps
<1>5. ASSUME NEW r \in Ranks, SendReport(r)
      PROVE  PInv' /\ Readmits
  BY <1>5, SendKeeps
<1>6. ASSUME Handshake
      PROVE  PInv' /\ Readmits
  BY <1>6, HandshakeKeeps
<1>7. ASSUME NEW r \in Ranks, NEW g \in Generations, wire[r][g] # <<>>
      PROVE  /\ Head(wire[r][g]) \in Packet
             /\ budget \in [changes : Nat, faults : Nat, rollbacks : Nat]
  <2>1. /\ wire[r][g] \in Seq(Packet)
        /\ budget \in [changes : Nat, faults : Nat, rollbacks : Nat]
    BY DEF PInv, TypeOK
  <2> QED  BY <1>7, <2>1
<1>8. ASSUME NEW r \in Ranks, NEW g \in Generations, Deliver(r, g)
      PROVE  PInv' /\ Readmits
  <2>1. PICK p : p = Head(wire[r][g])
    OBVIOUS
  <2>2. /\ wire[r][g] # <<>> /\ apply_report(p.report) /\ Record(r, g, p.held)
        /\ wire' = [wire EXCEPT ![r][g] = Tail(@)]
        /\ UNCHANGED <<reporter, process, epochs, handshakes, images>>
        /\ budget' = budget
    BY <1>8, <2>1 DEF Deliver
  <2>3. /\ p.report \in ReportMessage
        /\ budget' \in [changes : Nat, faults : Nat, rollbacks : Nat]
    BY <1>7, <2>1, <2>2 DEF Packet
  <2> QED  BY <2>1, <2>2, <2>3, ReceiveKeeps
<1>9. ASSUME NEW r \in Ranks, NEW g \in Generations, Garble(r, g)
      PROVE  PInv' /\ Readmits
  <2>1. PICK p : p = Head(wire[r][g])
    OBVIOUS
  <2>2. PICK m : m = [p.report EXCEPT !.wellformed = FALSE]
    OBVIOUS
  <2>3. /\ wire[r][g] # <<>> /\ apply_report(m) /\ Record(r, g, p.held)
        /\ wire' = [wire EXCEPT ![r][g] = Tail(@)]
        /\ UNCHANGED <<reporter, process, epochs, handshakes, images>>
        /\ budget' = [budget EXCEPT !.faults = @ + 1]
    BY <1>9, <2>1, <2>2 DEF Garble
  <2>4. /\ p \in Packet
        /\ budget \in [changes : Nat, faults : Nat, rollbacks : Nat]
    BY <1>7, <2>1, <2>3
  <2>5. /\ budget' \in [changes : Nat, faults : Nat, rollbacks : Nat]
    BY <2>3, <2>4
  <2>6. p.report \in ReportMessage
    BY <2>4 DEF Packet
  <2>7. /\ m \in ReportMessage /\ m.rank = p.report.rank
        /\ m.identified = p.report.identified /\ m.id = p.report.id
        /\ m.checkpoint = p.report.checkpoint /\ m.delta = p.report.delta
    BY <2>2, <2>6 DEF ReportMessage
  <2> QED  BY <2>1, <2>3, <2>5, <2>7, ReceiveKeeps
<1>10. ASSUME NEW r \in Ranks, NEW g \in Generations, Lose(r, g)
       PROVE  PInv' /\ Readmits
  BY <1>10, LoseKeeps
<1> QED  BY <1>1, <1>2, <1>3, <1>4, <1>5, <1>6, <1>8, <1>9, <1>10 DEF Next

\* So does a step that changes nothing of theirs.
LEMMA ProtocolStutters ==
  ASSUME PInv, UNCHANGED vars
  PROVE  PInv' /\ Readmits
<1>1. UNCHANGED <<catalog, reporter, process, epochs, handshakes, wire, budget,
                  images, seen, heard>>
  BY DEF vars
<1>2. Grows
  <2>1. \A q \in Ranks : process[q] \in Nat /\ reporter[q].sequence \in Nat
    BY RankNumbers
  <2> QED  BY <1>1, <2>1 DEF Grows
<1>3. ReportersOK' /\ HistoryOK' /\ HandshakesOK'
  BY <1>1, WorkersAlone
<1>4. WireOK' /\ Sent(wire, wire')
  BY <1>1, <1>2, WireStays
<1>5. Sound(catalog)' /\ Bounded(catalog)' /\ Following' /\ HeardOK' /\ Fresh'
  BY <1>1, <1>2, <1>4, SchedulerAlone
<1>6. TypeOK' /\ Unborn'
  BY <1>1 DEF PInv, TypeOK, Unborn
<1>7. PInv'
  BY <1>3, <1>4, <1>5, <1>6 DEF PInv
<1> QED  BY <1>1, <1>7, NoneReadmitted

\* PInv is an invariant of workers, transport and catalog together.
THEOREM ProtocolInvariance == Spec => []PInv
<1>1. PInv /\ [Next]_vars => PInv'
  BY ProtocolSteps, ProtocolStutters
<1> QED  BY <1>1, ProtocolStarts, PTL DEF Spec

\* Type correctness of the protocol: next_report, apply_startup and
\* apply_report keep the types of both ends and of what is under way.
THEOREM ProtocolTypes == Spec => []TypeOK
<1>1. PInv => TypeOK
  BY DEF PInv
<1> QED  BY <1>1, ProtocolInvariance, PTL

\* The dirty flag of InventoryReporter, recomputed by next_report from two
\* lengths, never hides a mutation that no report has announced.
THEOREM DirtyAlwaysComplete == Spec => []DirtyIsComplete
<1>1. PInv => DirtyIsComplete
  BY DEF PInv, ReportersOK, ReporterOK, DirtyIsComplete
<1> QED  BY <1>1, ProtocolInvariance, PTL

\* What apply_startup and apply_report make the catalog list for a rank is never
\* more than the rank held when it sent the last packet applied, whatever was
\* lost, garbled, repeated, late or sent by a dead process.
THEOREM AlwaysFresh == Spec => []Fresh
<1>1. PInv => Fresh
  BY DEF PInv
<1> QED  BY <1>1, ProtocolInvariance, PTL

\* has_quorum answers yes only for an entry that every rank held, with one span,
\* when it last reported.
THEOREM QuorumAlwaysHeld == Spec => []QuorumIsHeld
<1>1. PInv => QuorumIsHeld
  <2> SUFFICES ASSUME PInv, NEW e \in Entries, has_quorum(catalog, e),
                      NEW r \in Ranks, NEW s \in Ranks
               PROVE  seen[r][e] # 0 /\ seen[r][e] = seen[s][e]
    BY DEF QuorumIsHeld
  <2>1. PICK span \in Spans : \A q \in Ranks : catalog.rank_entries[q][e] = span
    BY DEF has_quorum
  <2>2. span # 0
    BY ImagesAssumption
  <2>3. \A q \in Ranks : Within(catalog.rank_entries[q], seen[q])
    BY DEF PInv, Fresh
  <2>4. \A q \in Ranks : seen[q][e] = span
    BY <2>1, <2>2, <2>3 DEF Within
  <2> QED  BY <2>2, <2>4
<1> QED  BY <1>1, ProtocolInvariance, PTL

\* _generation_disposition lists a rank only for the one process heard of whose
\* epoch exceeds all others'.
THEOREM NoGhostEver == Spec => []NoGhostProcess
<1>1. PInv => NoGhostProcess
  <2> SUFFICES ASSUME PInv, NEW r \in Ranks, catalog.rank_entries[r] # NoEntries,
                      NEW owner, owner = catalog.generation[r].uuid,
                      NEW g \in heard[r] \ {owner}
               PROVE  epochs[r][g] < epochs[r][owner]
    BY DEF NoGhostProcess
  <2>1. Sound(catalog)
    BY DEF PInv
  <2>2. r \notin catalog.desynchronized
    BY <2>1, WithdrawnHasNothing
  <2>3. r \notin catalog.generation_conflicts
    BY <2>1, <2>2 DEF Sound, WithdrawnEmpty
  <2> QED  BY <2>3 DEF PInv, HeardOK
<1> QED  BY <1>1, ProtocolInvariance, PTL

\* _replace_rank readmits a withdrawn rank only with all of what its process
\* advertised at one sequence number.
THEOREM ReadmittedAlwaysWhole == Spec => ReadmittedWhole
<1>1. PInv /\ [Next]_vars => [Readmits]_vars
  BY ProtocolSteps, ProtocolStutters
<1>2. ReadmittedWhole <=> [][Readmits]_vars
  BY DEF ReadmittedWhole, Readmits
<1> QED  BY <1>1, <1>2, ProtocolInvariance, PTL DEF Spec
===========================================================================
