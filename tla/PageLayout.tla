---------------------------- MODULE PageLayout ----------------------------
(***************************************************************************)
(* Which bytes of which GPU pages make up the files of a prefix: the page  *)
(* geometry that hma.py discovers, the digests that bind it, the pages it  *)
(* selects at a boundary, the slices of a file (manifest.py) and the byte  *)
(* ranges that travel through one staging slot (gpu.py).                   *)
(*                                                                         *)
(* A configuration is what vLLM reports (KVCacheConfig): a sequence of     *)
(* groups [kind, prefix, single, packed, block, page, replicated, eagle,   *)
(* layers, members], whose layers and members are specifications [name,    *)
(* kind, prefix, single, window, tail, block, bytes].  prefix is "shared", *)
(* "private" or "silent" about prefix caching; kind is "full", "sliding",  *)
(* "mamba" or "unknown"; single says that the contracts of a private       *)
(* specification amount to one page per request.  A group that is not      *)
(* packed has one specification for all its layers.                        *)
(***************************************************************************)
EXTENDS Naturals, FiniteSets, SequencesExt

CONSTANTS
  Dcp,            \* the decode-context degree
  ChunkFloor,     \* tokens that a chunk has at least, 256 in the code
  SlotBytes,      \* STAGING_SLOT_BYTES
  MaxBlocks       \* MAX_TRANSFER_BLOCKS

ASSUME LayoutAssumption ==
  /\ Dcp \in Nat \ {0} /\ ChunkFloor \in Nat \ {0}
  /\ SlotBytes \in Nat \ {0} /\ MaxBlocks \in Nat \ {0}

Ceiling(m, n) == (m + n - 1) \div n

Smaller(m, n) == IF m < n THEN m ELSE n

Indices(s) == 1 .. Len(s)

\* The sizes of a configuration: _positive_int and _nonnegative_int let nothing
\* else through.  A specification without a window or a tail has 0.
IsSequence(s) == s \in Seq(ToSet(s))

IsSpecification(spec) ==
  spec.bytes \in Nat \ {0} /\ spec.window \in Nat /\ spec.tail \in Nat

IsConfiguration(config) ==
  /\ IsSequence(config)
  /\ \A g \in Indices(config) :
       /\ config[g].block \in Nat \ {0}
       /\ IsSequence(config[g].layers) /\ IsSequence(config[g].members)
       /\ \A spec \in ToSet(config[g].layers) \cup ToSet(config[g].members) :
            IsSpecification(spec)

---------------------------------------------------------------------------
(* Discovery: build_hma_layout.                                            *)

\* The specifications a group is judged by: those of its layers, or, on a
\* worker that owns none of them, those it was given for the semantics.
Specs(group) == IF group.layers # <<>> THEN ToSet(group.layers)
                                       ELSE ToSet(group.members)

\* The kind that counts: a packed group declares one for all its members,
\* unless it does not know.
KindOf(group, spec) ==
  IF group.packed /\ group.prefix # "private" /\ group.kind # "unknown"
  THEN group.kind ELSE spec.kind

\* _reuse_policy: the policy and the window of a specification.
reuse_policy(group, spec) ==
  IF spec.prefix = "private" THEN <<"circular_one", 0>>
  ELSE CASE KindOf(group, spec) = "sliding" -> <<"sliding", spec.window>>
         [] KindOf(group, spec) = "full" -> <<"full", 0>>
         [] KindOf(group, spec) = "mamba" -> <<"recurrent_align", 0>>
         [] OTHER -> <<"unsupported", 0>>

Policies(group) == {reuse_policy(group, spec) : spec \in Specs(group)}

PolicyOf(group) == CHOOSE policy \in Policies(group) : TRUE

Tails(group) == {spec.tail : spec \in Specs(group)}

\* How long the first j of a sequence of layers or slices are together, where the
\* i-th begins if they are laid out one after the other, and how long they all are.
Sums(parts) ==
  LET sum[j \in 0 .. Len(parts)] == IF j = 0 THEN 0 ELSE sum[j - 1] + parts[j].bytes
  IN sum

Start(parts, i) == Sums(parts)[i - 1]

Length(parts) == Start(parts, Len(parts) + 1)

\* A group and its members agree on whether they take part in prefix caching,
\* and the shared allocator of private ones has a page per request, too.
ParticipationAgrees(group, policy) ==
  /\ group.prefix = "private" => policy = "circular_one"
  /\ policy = "circular_one" =>
       /\ group.prefix # "shared"
       /\ group.kind = "unknown" \/ group.prefix = "private"
       /\ group.single

\* The checks on one group: one block size, one policy that is understood,
\* one tail, and page sizes that add up.
GroupAccepted(group) ==
  LET policy == PolicyOf(group)[1] IN
  /\ \A spec \in ToSet(group.layers) : spec.block = group.block
  /\ \A spec \in Specs(group) : spec.prefix = "private" => spec.single
  /\ Cardinality(Policies(group)) = 1
  /\ policy # "unsupported"
  /\ policy = "sliding" => PolicyOf(group)[2] > 1
  /\ policy = "recurrent_align" => Cardinality(Tails(group)) = 1
  /\ group.packed => ParticipationAgrees(group, policy)
  /\ group.layers # <<>> =>
       IF group.packed THEN group.page = Length(group.layers)
       ELSE \A i \in Indices(group.layers) : group.layers[i].bytes = group.page

\* The names of the layers of a configuration, group by group.
Names(group) == [i \in Indices(group.layers) |-> group.layers[i].name]

Accepted(config) ==
  /\ config # <<>>
  /\ \A g \in Indices(config) : GroupAccepted(config[g])
  /\ \E g \in Indices(config) : config[g].layers # <<>>
  /\ \A g, h \in Indices(config) :
       g # h => ToSet(Names(config[g])) \cap ToSet(Names(config[h])) = {}

\* GroupGeometry of an accepted group.
Geometry(group) ==
  LET shards == IF group.replicated THEN 1 ELSE Dcp
      policy == PolicyOf(group)[1]
  IN [block |-> group.block, replicated |-> group.replicated,
      shards |-> shards, width |-> group.block * shards,
      policy |-> policy, window |-> PolicyOf(group)[2],
      tail |-> IF policy = "recurrent_align"
               THEN CHOOSE tail \in Tails(group) : TRUE ELSE 0,
      eagle |-> group.eagle, page |-> group.page,
      layers |-> [i \in Indices(group.layers) |->
                    [name |-> group.layers[i].name,
                     bytes |-> group.layers[i].bytes]]]

build_hma_layout(config) == [g \in Indices(config) |-> Geometry(config[g])]

---------------------------------------------------------------------------
(* The digests, as the values that are hashed.                             *)

\* Mutant: the digest leaves out the bytes of the pages.
digest_of_names(layout) ==
  [g \in Indices(layout) |->
     [layout[g] EXCEPT !.page = 0, !.layers = Names(layout[g])]]

\* The physical layout.  The number of blocks, which depends on the memory
\* that is free, is not part of it.
digest(layout) == layout

\* What scheduler and worker share.
logical_digest(layout) ==
  [g \in Indices(layout) |->
     [layout[g] EXCEPT !.page = 0, !.layers = Names(layout[g])]]

\* Mutant: the tail is taken for a fact of a stage.
coordination_digest_without_tail(layout) ==
  [g \in Indices(layout) |->
     [layout[g] EXCEPT !.page = 0, !.layers = <<>>, !.eagle = FALSE,
                       !.tail = 0]]

\* What every pipeline stage shares.
coordination_digest(layout) ==
  [g \in Indices(layout) |->
     [layout[g] EXCEPT !.page = 0, !.layers = <<>>, !.eagle = FALSE]]

---------------------------------------------------------------------------
(* Pages at a boundary.                                                    *)

\* The tokens that a boundary of a group is a multiple of.
AlignedWidth(group) == IF group.policy = "circular_one" THEN 1 ELSE group.width

\* The products of the first ones.
Products(layout) ==
  LET product[g \in 0 .. Len(layout)] ==
        IF g = 0 THEN 1 ELSE product[g - 1] * AlignedWidth(layout[g])
  IN product

\* math.lcm of the widths of the groups that take part in prefix caching.
alignment_tokens(layout) ==
  Min({t \in 1 .. Products(layout)[Len(layout)] :
         \A g \in Indices(layout) : t % AlignedWidth(layout[g]) = 0})

aligned_chunk_tokens(alignment) == Ceiling(ChunkFloor, alignment) * alignment

ChunkTokens(layout) == aligned_chunk_tokens(alignment_tokens(layout))

selected_page_count(group, span) ==
  CASE group.policy = "full" -> span \div group.width
    [] group.policy = "sliding" ->
         Smaller(span \div group.width, Ceiling(group.window - 1, group.width))
    [] OTHER -> 1

\* The part of a block table that select_physical_pages takes, <<>> if the
\* table does not have it.
Slice(group, table, span) ==
  LET boundary == span \div group.width
      active == Len(table) - group.tail
  IN CASE group.policy = "circular_one" ->
            IF Len(table) = 1 THEN table ELSE <<>>
       [] group.policy = "recurrent_align" ->
            IF active > boundary THEN <<table[active]>> ELSE <<>>
       [] OTHER ->
            IF Len(table) < boundary THEN <<>>
            ELSE SubSeq(table, boundary - selected_page_count(group, span) + 1,
                        boundary)

\* The selection does not raise: the span is aligned, and the pages exist,
\* are not the null page and are distinct.
Selectable(layout, tables, span) ==
  /\ Len(tables) = Len(layout)
  /\ \A g \in Indices(layout) :
       LET pages == Slice(layout[g], tables[g], span) IN
       /\ layout[g].policy # "circular_one" => span % layout[g].width = 0
       /\ Len(pages) = selected_page_count(layout[g], span)
       /\ 0 \notin ToSet(pages)
       /\ Cardinality(ToSet(pages)) = Len(pages)

select_physical_pages(layout, tables, span) ==
  [g \in Indices(layout) |-> Slice(layout[g], tables[g], span)]

---------------------------------------------------------------------------
(* Files: TokenSegments, and what bounds them.                             *)

has_boundary_state(layout) ==
  \E g \in Indices(layout) : layout[g].policy # "full"

\* The slices that group g contributes to a file of the prefix.
GroupSegments(layout, g, span, kind) ==
  LET group == layout[g]
      count == IF kind = "data" THEN ChunkTokens(layout) \div group.width
               ELSE selected_page_count(group, span)
      start == IF kind = "data"
               THEN (span - ChunkTokens(layout)) \div group.width ELSE 0
  IN IF (group.policy = "full") # (kind = "data") THEN <<>>
     ELSE [i \in Indices(group.layers) |->
             [group |-> g, layer |-> i, start |-> start, count |-> count,
              page |-> group.layers[i].bytes,
              bytes |-> count * group.layers[i].bytes]]

Segments(layout, span, kind) ==
  FlattenSeq([g \in Indices(layout) |-> GroupSegments(layout, g, span, kind)])

FileLength(layout, span, kind) == Length(Segments(layout, span, kind))

\* The tokens before a boundary that its state depends on, at most.
Reach(layout) ==
  Max({IF layout[g].policy = "sliding" THEN layout[g].window ELSE layout[g].width :
         g \in Indices(layout)})

\* validate_layout: a data file, and a state file at the largest boundary that
\* matters, have as many transfer blocks as a header can list.
ValidLayout(layout) ==
  LET chunk == ChunkTokens(layout)
      fits(length) == 0 < length /\ length <= SlotBytes * MaxBlocks
  IN /\ fits(FileLength(layout, chunk, "data"))
     /\ has_boundary_state(layout) =>
          fits(FileLength(layout, Ceiling(Reach(layout), chunk) * chunk, "state"))

\* The files of a prefix in the order of the manifest: <<span, kind>>.
FilesOf(layout, span) ==
  LET chunk == ChunkTokens(layout) IN
  [i \in 1 .. span \div chunk |-> <<i * chunk, "data">>]
    \o (IF has_boundary_state(layout) THEN <<<<span, "state">>>> ELSE <<>>)

\* validate_manifest_coverage: the slices of the files follow each other without
\* a gap up to the number of pages that are selected.  The layers of a group are
\* sliced alike: its first one stands for them.
Covers(layout, span, names) ==
  \A g \in Indices(layout) :
    LET slices == FlattenSeq([i \in Indices(names) |->
                    LET all == GroupSegments(layout, g, names[i][1], names[i][2])
                    IN IF all = <<>> THEN <<>> ELSE <<all[1]>>])
    IN layout[g].layers # <<>> =>
         /\ slices # <<>>
         /\ slices[1].start = 0
         /\ \A i \in 1 .. Len(slices) - 1 :
              slices[i + 1].start = slices[i].start + slices[i].count
         /\ Last(slices).start + Last(slices).count =
              selected_page_count(layout[g], span)

---------------------------------------------------------------------------
(* Bytes.  Counted from 0, as offsets are.                                 *)

\* _segment_byte_ranges: the pieces of the range of length bytes from start.
\* A piece is the part from offset of a segment, size bytes long, which is at
\* cursor in the staging slot.
segment_byte_ranges(segments, start, length) ==
  LET begins(i) == Max({Start(segments, i), start})
      ends(i) == Smaller(Start(segments, i) + segments[i].bytes,
                         start + length)
  IN {[segment |-> segments[i], offset |-> begins(i) - Start(segments, i),
       size |-> ends(i) - begins(i), cursor |-> begins(i) - start] :
        i \in {j \in Indices(segments) : begins(j) < ends(j)}}

\* _copy_page_bytes: the byte at k of a piece is the byte `at` of a page.
PageByte(piece, k) ==
  LET from == piece.offset + k IN
  [page |-> piece.segment.start + from \div piece.segment.page + 1,
   at |-> from % piece.segment.page]

\* The range of the block that begins at start.
BlockLength(segments, start) == Smaller(SlotBytes, Length(segments) - start)

\* Where the byte at position p of a file comes from and goes to: <<the group,
\* the layer, the place of the page among those selected, the byte of it>>.
ByteOf(segments, p) ==
  LET start == (p \div SlotBytes) * SlotBytes
      pieces == segment_byte_ranges(segments, start, BlockLength(segments, start))
      piece == CHOOSE q \in pieces :
                 q.cursor <= p - start /\ p - start < q.cursor + q.size
      where == PageByte(piece, p - start - piece.cursor)
  IN <<piece.segment.group, piece.segment.layer, where.page, where.at>>
===========================================================================
