-------------------------- MODULE CatalogProofs --------------------------
(***************************************************************************)
(* Theorems about the scheduler's catalog: whatever packets arrive, for    *)
(* any ranks, entries and bounds, the indexes agree, memory is bounded, a  *)
(* rank in doubt is in no quorum and only a newer process takes over.  The *)
(* lemmas that they rest on say what each method of QuorumCatalog does to  *)
(* one catalog record; ProtocolProofs uses them too.                       *)
(***************************************************************************)
EXTENDS CatalogEnvironment, FiniteSetTheorems, TLAPS

\* The structural invariant, as a predicate of one catalog record.  The
\* bound is apart: _replace_rank exceeds it until _enforce_bound has run.
Sound(c) ==
  /\ IsCatalog(c)
  /\ InverseIndex(c)
  /\ RecencyIndex(c)
  /\ WithdrawnEmpty(c)
  /\ CountFresh(c)

Bounded(c) == Cardinality(Listed(c)) <= Capacity

(* What the private methods leave, field by field.                         *)

SameBooks(c, d) ==
  /\ d.generation = c.generation
  /\ d.generation_history = c.generation_history
  /\ d.sequences = c.sequences
  /\ d.pending = c.pending
  /\ d.generation_conflicts = c.generation_conflicts

WithdrawnFrom(c, r, w) ==
  /\ IsCatalog(w)
  /\ w.rank_entries = [c.rank_entries EXCEPT ![r] = NoEntries]
  /\ w.entry_ranks = [e \in Entries |-> IF e \in Keys(c.rank_entries[r])
                                        THEN c.entry_ranks[e] \ {r}
                                        ELSE c.entry_ranks[e]]
  /\ w.recency = Forget(c.recency, {e \in Keys(c.rank_entries[r]) :
                                      c.entry_ranks[e] \subseteq {r}})
  /\ w.quorum_count = Unknown
  /\ w.desynchronized = c.desynchronized
  /\ SameBooks(c, w)

EvictedFrom(c, V, d) ==
  /\ IsCatalog(d)
  /\ d.rank_entries = [r \in Ranks |-> [e \in Entries |->
         IF e \in V /\ r \in c.entry_ranks[e]
         THEN 0 ELSE c.rank_entries[r][e]]]
  /\ d.entry_ranks = [e \in Entries |->
         IF e \in V THEN {} ELSE c.entry_ranks[e]]
  /\ d.recency = Forget(c.recency, V)
  /\ d.quorum_count = Unknown
  /\ d.desynchronized = c.desynchronized
  /\ SameBooks(c, d)

ReplacedIn(c, r, image, d) ==
  /\ IsCatalog(d)
  /\ d.rank_entries = [c.rank_entries EXCEPT ![r] = image]
  /\ d.entry_ranks = [e \in Entries |->
         IF e \in Keys(image) THEN withdraw_rank(c, r).entry_ranks[e] \cup {r}
                              ELSE withdraw_rank(c, r).entry_ranks[e]]
  /\ d.recency = touch(withdraw_rank(c, r).recency, Keys(image))
  /\ d.quorum_count = Unknown
  /\ d.desynchronized = c.desynchronized \ {r}
  /\ SameBooks(c, d)

--------------------------------------------------------------------------
\* Empty dicts, pages and catalogs have their types.
LEMMA NoneTypes ==
  /\ NoEntries \in Image
  /\ NoPending \in Pending
  /\ IsCatalog(InitCatalog)
BY ImagesAssumption, CatalogAssumption
   DEF NoEntries, Image, NoPending, Pending, PageIndex, InitCatalog,
       IsCatalog, NoIdentity, Identity, Unknown

\* _withdraw_rank field by field: it empties the rank and no other.
LEMMA WithdrawFields ==
  ASSUME NEW c, IsCatalog(c), NEW r \in Ranks
  PROVE  WithdrawnFrom(c, r, withdraw_rank(c, r))
<1> DEFINE w == withdraw_rank(c, r)
<1>1. w.rank_entries = [c.rank_entries EXCEPT ![r] = NoEntries]
  BY DEF withdraw_rank, IsCatalog
<1>2. /\ DOMAIN w = DOMAIN c
      /\ w.quorum_count = Unknown
      /\ w.desynchronized = c.desynchronized
      /\ SameBooks(c, w)
  BY DEF withdraw_rank, IsCatalog, SameBooks
<1>3. w.entry_ranks =
              [e \in Entries |-> IF e \in Keys(c.rank_entries[r])
                                 THEN c.entry_ranks[e] \ {r}
                                 ELSE c.entry_ranks[e]]
  BY DEF withdraw_rank, IsCatalog
<1>4. w.recency = Forget(c.recency, {e \in Keys(c.rank_entries[r]) :
                                       c.entry_ranks[e] \subseteq {r}})
  BY DEF withdraw_rank, IsCatalog
<1> HIDE DEF w
<1>5. w.recency \subseteq Entries \X Entries
  BY <1>4 DEF Forget, IsCatalog
<1>6. w.rank_entries \in [Ranks -> Image]
  BY <1>1, NoneTypes DEF IsCatalog
<1>7. w.entry_ranks \in [Entries -> SUBSET Ranks]
  BY <1>3 DEF IsCatalog
<1>8. IsCatalog(w)
  <2>1. Unknown \in Int
    BY DEF Unknown
  <2> QED BY <1>2, <1>5, <1>6, <1>7, <2>1 DEF IsCatalog, SameBooks
<1>9. WithdrawnFrom(c, r, w)
  BY <1>1, <1>2, <1>3, <1>4, <1>8 DEF WithdrawnFrom
<1> QED BY <1>9 DEF w

\* _withdraw_rank keeps the indexes in agreement.
LEMMA WithdrawSound ==
  ASSUME NEW c, Sound(c), NEW r \in Ranks
  PROVE  Sound(withdraw_rank(c, r))
<1> DEFINE w == withdraw_rank(c, r)
<1>0. IsCatalog(c) /\ InverseIndex(c) /\ RecencyIndex(c) /\ WithdrawnEmpty(c)
  BY DEF Sound
<1>b. WithdrawnFrom(c, r, w)
  BY <1>0, WithdrawFields
<1> HIDE DEF w
<1>a. /\ IsCatalog(w)
      /\ w.rank_entries = [c.rank_entries EXCEPT ![r] = NoEntries]
      /\ w.entry_ranks =
              [e \in Entries |-> IF e \in Keys(c.rank_entries[r])
                                 THEN c.entry_ranks[e] \ {r}
                                 ELSE c.entry_ranks[e]]
      /\ w.recency = Forget(c.recency, {e \in Keys(c.rank_entries[r]) :
                                             c.entry_ranks[e] \subseteq {r}})
      /\ w.quorum_count = Unknown
      /\ w.generation = c.generation
      /\ w.desynchronized = c.desynchronized
      /\ w.generation_conflicts = c.generation_conflicts
  BY <1>b DEF WithdrawnFrom, SameBooks
<1>1. InverseIndex(w)
  BY <1>0, <1>a DEF InverseIndex, IsCatalog, Keys, NoEntries
<1>2. RecencyIndex(w)
  <2> DEFINE gone == {e \in Keys(c.rank_entries[r]) : c.entry_ranks[e] \subseteq {r}}
  <2>1. Listed(w) = Listed(c) \ gone
    <3>1. ASSUME NEW e \in Entries
          PROVE  w.entry_ranks[e] # {} <=> c.entry_ranks[e] # {} /\ e \notin gone
      <4>1. CASE e \in Keys(c.rank_entries[r])
        <5>1. w.entry_ranks[e] = c.entry_ranks[e] \ {r}
          BY <1>a, <4>1
        <5> QED BY <4>1, <5>1
      <4>2. CASE e \notin Keys(c.rank_entries[r])
        BY <1>a, <4>2
      <4> QED BY <4>1, <4>2
    <3> HIDE DEF gone
    <3> QED BY <3>1 DEF Listed
  <2>2. w.recency = {p \in c.recency : p[1] \notin gone /\ p[2] \notin gone}
    BY <1>a DEF Forget
  <2> HIDE DEF gone
  <2> QED BY <1>0, <2>1, <2>2 DEF RecencyIndex
<1>3. WithdrawnEmpty(w)
  BY <1>0, <1>a DEF WithdrawnEmpty, IsCatalog
<1>4. CountFresh(w)
  BY <1>a DEF CountFresh
<1>5. Sound(w)
  BY <1>a, <1>1, <1>2, <1>3, <1>4 DEF Sound
<1> QED BY <1>5 DEF w

\* _enforce_bound's loop field by field, when it evicts the entries V.
LEMMA EvictedFields ==
  ASSUME NEW c, IsCatalog(c), NEW V \in SUBSET Entries
  PROVE  EvictedFrom(c, V, Evicted(c, V))
<1> DEFINE d == Evicted(c, V)
<1>1. d.rank_entries = [r \in Ranks |-> [e \in Entries |->
                IF e \in V /\ r \in c.entry_ranks[e]
                THEN 0 ELSE c.rank_entries[r][e]]]
  BY DEF Evicted, IsCatalog
<1>2. /\ DOMAIN d = DOMAIN c
      /\ d.quorum_count = Unknown
      /\ d.desynchronized = c.desynchronized
      /\ SameBooks(c, d)
  BY DEF Evicted, IsCatalog, SameBooks
<1>3. d.entry_ranks = [e \in Entries |->
                IF e \in V THEN {} ELSE c.entry_ranks[e]]
  BY DEF Evicted, IsCatalog
<1>4. d.recency = Forget(c.recency, V)
  BY DEF Evicted, IsCatalog
<1> HIDE DEF d
<1>5. d.recency \subseteq Entries \X Entries
  BY <1>4 DEF Forget, IsCatalog
<1>6. d.rank_entries \in [Ranks -> Image]
  BY <1>1 DEF IsCatalog, Image
<1>7. d.entry_ranks \in [Entries -> SUBSET Ranks]
  BY <1>3 DEF IsCatalog
<1>8. IsCatalog(d)
  <2>1. Unknown \in Int
    BY DEF Unknown
  <2> QED BY <1>2, <1>5, <1>6, <1>7, <2>1 DEF IsCatalog, SameBooks
<1>9. EvictedFrom(c, V, d)
  BY <1>1, <1>2, <1>3, <1>4, <1>8 DEF EvictedFrom
<1> QED BY <1>9 DEF d

\* Eviction keeps the indexes in agreement and unlists exactly V.
LEMMA EvictedSound ==
  ASSUME NEW c, Sound(c), NEW V \in SUBSET Entries, NEW d,
         d = Evicted(c, V)
  PROVE  /\ Sound(d)
         /\ Listed(d) = Listed(c) \ V
         /\ \A r \in Ranks : Within(d.rank_entries[r], c.rank_entries[r])
<1>0. IsCatalog(c) /\ InverseIndex(c) /\ RecencyIndex(c) /\ WithdrawnEmpty(c)
  BY DEF Sound
<1>a. /\ IsCatalog(d)
      /\ d.rank_entries = [r \in Ranks |-> [e \in Entries |->
             IF e \in V /\ r \in c.entry_ranks[e]
             THEN 0 ELSE c.rank_entries[r][e]]]
      /\ d.entry_ranks = [e \in Entries |->
             IF e \in V THEN {} ELSE c.entry_ranks[e]]
      /\ d.recency = Forget(c.recency, V)
      /\ d.quorum_count = Unknown
      /\ d.generation = c.generation
      /\ d.desynchronized = c.desynchronized
      /\ d.generation_conflicts = c.generation_conflicts
  BY <1>0, EvictedFields DEF EvictedFrom, SameBooks
<1>1. InverseIndex(d)
  BY <1>0, <1>a DEF InverseIndex, IsCatalog
<1>2. Listed(d) = Listed(c) \ V
  BY <1>a DEF Listed
<1>3. RecencyIndex(d)
  <2>1. d.recency = {p \in c.recency : p[1] \notin V /\ p[2] \notin V}
    BY <1>a DEF Forget
  <2> QED BY <1>0, <1>2, <2>1 DEF RecencyIndex
<1>4. WithdrawnEmpty(d)
  BY <1>0, <1>a DEF WithdrawnEmpty, IsCatalog, NoEntries
<1>5. CountFresh(d)
  BY <1>a DEF CountFresh
<1>6. \A r \in Ranks : Within(d.rank_entries[r], c.rank_entries[r])
  BY <1>a DEF Within
<1> QED BY <1>a, <1>1, <1>2, <1>3, <1>4, <1>5, <1>6 DEF Sound

\* _replace_rank up to the bound, field by field.
LEMMA ReplacedFields ==
  ASSUME NEW c, IsCatalog(c), NEW r \in Ranks, NEW image \in Image
  PROVE  ReplacedIn(c, r, image, Replaced(c, r, image))
<1> DEFINE w == withdraw_rank(c, r)
           d == Replaced(c, r, image)
<1>w. WithdrawnFrom(c, r, w)
  BY WithdrawFields
<1>d. d = [w EXCEPT !.rank_entries[r] = image,
               !.entry_ranks = [e \in Entries |->
                  IF e \in Keys(image) THEN w.entry_ranks[e] \cup {r}
                                       ELSE w.entry_ranks[e]],
               !.recency = touch(w.recency, Keys(image)),
               !.desynchronized = w.desynchronized \ {r}]
  BY DEF Replaced
<1> HIDE DEF w, d
<1>0. /\ IsCatalog(w)
      /\ w.rank_entries = [c.rank_entries EXCEPT ![r] = NoEntries]
      /\ w.quorum_count = Unknown
      /\ w.desynchronized = c.desynchronized
      /\ SameBooks(c, w)
  BY <1>w DEF WithdrawnFrom
<1>1. d.rank_entries = [c.rank_entries EXCEPT ![r] = image]
  <2>1. d.rank_entries = [w.rank_entries EXCEPT ![r] = image]
    BY <1>0, <1>d DEF IsCatalog
  <2> QED BY <1>0, <2>1 DEF IsCatalog
<1>2. /\ DOMAIN d = DOMAIN c
      /\ d.quorum_count = Unknown
      /\ d.desynchronized = c.desynchronized \ {r}
      /\ SameBooks(c, d)
  BY <1>0, <1>d DEF IsCatalog, SameBooks
<1>3. d.entry_ranks = [e \in Entries |->
                IF e \in Keys(image) THEN w.entry_ranks[e] \cup {r}
                                     ELSE w.entry_ranks[e]]
  BY <1>0, <1>d DEF IsCatalog
<1>4. d.recency = touch(w.recency, Keys(image))
  BY <1>0, <1>d DEF IsCatalog
<1>5. d.recency \subseteq Entries \X Entries
  BY <1>0, <1>4 DEF touch, RecencyKeys, Keys, Forget, IsCatalog
<1>6. d.rank_entries \in [Ranks -> Image]
  BY <1>1 DEF IsCatalog
<1>7. d.entry_ranks \in [Entries -> SUBSET Ranks]
  BY <1>0, <1>3 DEF IsCatalog
<1>8. IsCatalog(d)
  <2>1. Unknown \in Int
    BY DEF Unknown
  <2> QED BY <1>2, <1>5, <1>6, <1>7, <2>1 DEF IsCatalog, SameBooks
<1>9. ReplacedIn(c, r, image, d)
  BY <1>1, <1>2, <1>3, <1>4, <1>8 DEF ReplacedIn, w
<1> QED BY <1>9 DEF d

\* Installing an image keeps the indexes in agreement, for a rank whose
\* process is known and undisputed.
LEMMA ReplacedSound ==
  ASSUME NEW c, Sound(c), NEW r \in Ranks, NEW image \in Image,
         c.generation[r] # NoIdentity, r \notin c.generation_conflicts
  PROVE  Sound(Replaced(c, r, image))
<1> DEFINE w == withdraw_rank(c, r)
           d == Replaced(c, r, image)
<1>0. IsCatalog(c) /\ WithdrawnEmpty(c) /\ Sound(w)
  BY WithdrawSound DEF Sound
<1>w. WithdrawnFrom(c, r, w)
  BY <1>0, WithdrawFields
<1>d. ReplacedIn(c, r, image, d)
  BY <1>0, ReplacedFields
<1> HIDE DEF d
<1>b. /\ IsCatalog(d)
      /\ d.rank_entries = [c.rank_entries EXCEPT ![r] = image]
      /\ d.entry_ranks = [e \in Entries |->
             IF e \in Keys(image) THEN w.entry_ranks[e] \cup {r}
                                  ELSE w.entry_ranks[e]]
      /\ d.recency = touch(w.recency, Keys(image))
      /\ d.quorum_count = Unknown
      /\ d.generation = c.generation
      /\ d.desynchronized = c.desynchronized \ {r}
      /\ d.generation_conflicts = c.generation_conflicts
  BY <1>d DEF ReplacedIn, SameBooks
<1> HIDE DEF w
<1>a. /\ IsCatalog(w) /\ InverseIndex(w) /\ RecencyIndex(w)
      /\ w.rank_entries = [c.rank_entries EXCEPT ![r] = NoEntries]
  BY <1>0, <1>w DEF Sound, WithdrawnFrom
<1>1. InverseIndex(d)
  BY <1>0, <1>a, <1>b DEF InverseIndex, IsCatalog, Keys, NoEntries, Image
<1>2. Listed(d) = Listed(w) \cup Keys(image)
  BY <1>b DEF Listed, Keys
<1>3. RecencyIndex(d)
  <2>1. RecencyKeys(w.recency) = Listed(w)
    BY <1>a DEF RecencyIndex, RecencyKeys, Listed
  <2>2. d.recency = {p \in w.recency : p[1] \notin Keys(image) /\ p[2] \notin Keys(image)}
                      \cup ((Listed(w) \cup Keys(image)) \X Keys(image))
    BY <1>b, <2>1 DEF touch, Forget
  <2> QED BY <1>a, <1>2, <2>2 DEF RecencyIndex
<1>4. WithdrawnEmpty(d)
  BY <1>0, <1>b DEF WithdrawnEmpty, IsCatalog
<1>5. CountFresh(d)
  BY <1>b DEF CountFresh
<1>6. Sound(d)
  BY <1>b, <1>1, <1>3, <1>4, <1>5 DEF Sound
<1> QED BY <1>6 DEF d

\* What _replace_rank has just touched is younger than all the rest: the bound
\* pushes it out only if the image itself is beyond the bound.
LEMMA YoungestStay ==
  ASSUME NEW R, NEW S \in SUBSET Entries, Cardinality(S) <= Capacity,
         NEW L \in SUBSET Entries, RecencyKeys(touch(R, S)) = L,
         NEW V \in SUBSET L, Cardinality(L \ V) = Capacity,
         OldestFirst(touch(R, S), V)
  PROVE  V \cap S = {}
<1> SUFFICES ASSUME NEW v \in V, v \in S
             PROVE  FALSE
  OBVIOUS
<1>1. ASSUME NEW x \in L \ V
      PROVE  x \in S \ {v}
  <2>1. <<v, x>> \in touch(R, S)
    BY DEF OldestFirst
  <2> QED BY <2>1 DEF touch, Forget
<1>2. IsFiniteSet(S) /\ IsFiniteSet(S \ {v})
  BY ImagesAssumption, FS_Subset
<1>3. Cardinality(S \ {v}) = Cardinality(S) - 1 /\ Cardinality(S) \in Nat
  BY <1>2, FS_RemoveElement, FS_CardinalityType
<1>4. L \ V \in SUBSET (S \ {v})
  BY <1>1
<1>5. Cardinality(L \ V) <= Cardinality(S \ {v})
  BY <1>2, <1>4, FS_Subset
<1> QED BY <1>3, <1>5, ImagesAssumption

\* _replace_rank: the rank gets the image, or less if it is beyond the bound,
\* the others lose at most entries, the bound holds, and nothing else changes.
LEMMA ReplaceRank ==
  ASSUME NEW c, Sound(c), NEW r \in Ranks, NEW image \in Image,
         c.generation[r] # NoIdentity, r \notin c.generation_conflicts,
         NEW d \in replace_rank(c, r, image)
  PROVE  /\ Sound(d) /\ Bounded(d)
         /\ Within(d.rank_entries[r], image)
         /\ Size(image) <= Capacity => d.rank_entries[r] = image
         /\ \A s \in Ranks \ {r} :
              Within(d.rank_entries[s], c.rank_entries[s])
         /\ d.desynchronized = c.desynchronized \ {r}
         /\ SameBooks(c, d)
<1> DEFINE b == Replaced(c, r, image)
           victims == {V \in SUBSET RecencyKeys(b.recency) :
                         /\ Cardinality(Listed(b) \ V) = Capacity
                         /\ V \subseteq Listed(b)
                         /\ OldestFirst(b.recency, V)}
<1>1. Sound(b)
  BY ReplacedSound
<1>2. IsCatalog(c)
  BY DEF Sound
<1>r. ReplacedIn(c, r, image, b)
  BY <1>2, ReplacedFields
<1>4. d \in enforce_bound(b)
  BY DEF replace_rank
<1> HIDE DEF b
<1>3. /\ b.rank_entries = [c.rank_entries EXCEPT ![r] = image]
      /\ b.desynchronized = c.desynchronized \ {r}
      /\ SameBooks(c, b)
  BY <1>r DEF ReplacedIn
<1>5. CASE Cardinality(Listed(b)) <= Capacity
  <2>1. d = b
    BY <1>4, <1>5 DEF enforce_bound
  <2>2. /\ Within(b.rank_entries[r], image)
        /\ b.rank_entries[r] = image
        /\ \A s \in Ranks \ {r} : Within(b.rank_entries[s], c.rank_entries[s])
    BY <1>2, <1>3 DEF Within, IsCatalog
  <2> QED BY <1>1, <1>3, <1>5, <2>1, <2>2 DEF Bounded
<1>6. CASE ~(Cardinality(Listed(b)) <= Capacity)
  <2>1. PICK V \in victims : d = Evicted(b, V)
    BY <1>4, <1>6 DEF enforce_bound
  <2>2. V \in SUBSET Entries
    BY <2>1 DEF Listed
  <2>3. IsCatalog(b)
    BY <1>1 DEF Sound
  <2>4. /\ Sound(d)
        /\ Listed(d) = Listed(b) \ V
        /\ \A s \in Ranks : Within(d.rank_entries[s], b.rank_entries[s])
    BY <1>1, <2>1, <2>2, EvictedSound
  <2>5. d.desynchronized = b.desynchronized /\ SameBooks(b, d)
    BY <2>1, <2>2, <2>3, EvictedFields DEF EvictedFrom
  <2>6. Bounded(d)
    BY <2>1, <2>4, ImagesAssumption DEF Bounded
  <2>7. /\ Within(d.rank_entries[r], image)
        /\ \A s \in Ranks \ {r} : Within(d.rank_entries[s], c.rank_entries[s])
    BY <1>2, <1>3, <2>4 DEF Within, IsCatalog
  <2>8. ASSUME Size(image) <= Capacity
        PROVE  d.rank_entries[r] = image
    <3>1. b.recency = touch(withdraw_rank(c, r).recency, Keys(image))
      BY <1>r DEF ReplacedIn
    <3>2. RecencyKeys(b.recency) = Listed(b)
      BY <1>1 DEF Sound, RecencyIndex, RecencyKeys, Listed
    <3>3. /\ V \subseteq Listed(b) /\ Cardinality(Listed(b) \ V) = Capacity
          /\ OldestFirst(b.recency, V)
      BY <2>1
    <3>4. Listed(b) \subseteq Entries /\ Keys(image) \subseteq Entries
      BY DEF Listed, Keys
    <3>5. V \cap Keys(image) = {}
      BY <2>8, <3>1, <3>2, <3>3, <3>4, YoungestStay DEF Size
    <3>6. b.rank_entries[r] = image
      BY <1>2, <1>3 DEF IsCatalog
    <3>7. d.rank_entries[r] = [e \in Entries |->
            IF e \in V /\ r \in b.entry_ranks[e] THEN 0 ELSE image[e]]
      <4>1. d.rank_entries = [q \in Ranks |-> [e \in Entries |->
              IF e \in V /\ q \in b.entry_ranks[e]
              THEN 0 ELSE b.rank_entries[q][e]]]
        <5>1. EvictedFrom(b, V, d)
          BY <2>1, <2>2, <2>3, EvictedFields
        <5> QED BY <5>1 DEF EvictedFrom
      <4> QED BY <3>6, <4>1
    <3> QED BY <3>5, <3>7 DEF Keys, Image
  <2> QED BY <1>3, <2>4, <2>5, <2>6, <2>7, <2>8 DEF SameBooks
<1> QED BY <1>5, <1>6

--------------------------------------------------------------------------
(* The methods that withdraw a rank.                                       *)

SameIndex(c, d) ==
  /\ d.rank_entries = c.rank_entries
  /\ d.entry_ranks = c.entry_ranks
  /\ d.recency = c.recency
  /\ d.quorum_count = c.quorum_count

\* Nothing is done to the ranks other than r, but that they may lose entries.
Others(c, d, r) ==
  \A s \in Ranks \ {r} :
    /\ d.generation[s] = c.generation[s]
    /\ d.sequences[s] = c.sequences[s]
    /\ d.pending[s] = c.pending[s]
    /\ s \in d.desynchronized <=> s \in c.desynchronized
    /\ s \in d.generation_conflicts <=> s \in c.generation_conflicts
    /\ Within(d.rank_entries[s], c.rank_entries[s])

\* Rank r is withdrawn in d.
Dropped(c, d, r) ==
  /\ Sound(d)
  /\ Bounded(c) => Bounded(d)
  /\ Others(c, d, r)
  /\ r \in d.desynchronized

\* The structural invariant does not depend on the protocol counters.
LEMMA SameIndexSound ==
  ASSUME NEW c, Sound(c), NEW d, IsCatalog(d), SameIndex(c, d),
         WithdrawnEmpty(d)
  PROVE  Sound(d) /\ (Bounded(c) => Bounded(d))
<1>1. InverseIndex(d)
  BY DEF Sound, InverseIndex, SameIndex
<1>2. RecencyIndex(d)
  BY DEF Sound, RecencyIndex, SameIndex, Listed
<1>3. CountFresh(d)
  BY DEF Sound, CountFresh, SameIndex, Quorate, has_quorum
<1>4. Bounded(c) => Bounded(d)
  BY DEF Bounded, Listed, SameIndex
<1> QED BY <1>1, <1>2, <1>3, <1>4 DEF Sound

\* Withdrawing never lists an entry.
LEMMA WithdrawBounded ==
  ASSUME NEW c, IsCatalog(c), Bounded(c), NEW r \in Ranks
  PROVE  Bounded(withdraw_rank(c, r))
<1> DEFINE w == withdraw_rank(c, r)
<1>1. WithdrawnFrom(c, r, w)
  BY WithdrawFields
<1> HIDE DEF w
<1>2. Listed(w) \in SUBSET Listed(c)
  BY <1>1 DEF WithdrawnFrom, Listed, IsCatalog
<1>3. IsFiniteSet(Listed(c))
  BY ImagesAssumption, FS_Subset DEF Listed
<1>4. /\ Cardinality(Listed(w)) <= Cardinality(Listed(c))
      /\ Cardinality(Listed(c)) \in Nat /\ Cardinality(Listed(w)) \in Nat
  BY <1>2, <1>3, FS_Subset, FS_CardinalityType
<1>5. Bounded(w)
  BY <1>4, ImagesAssumption DEF Bounded
<1> QED BY <1>5 DEF w

\* The withdrawal that waits for a complete checkpoint.
LEMMA DesynchronizeDrops ==
  ASSUME NEW c, Sound(c), NEW r \in Ranks
  PROVE  /\ Dropped(c, desynchronize(c, r), r)
         /\ SameBooks(c, desynchronize(c, r))
         /\ desynchronize(c, r).desynchronized = c.desynchronized \cup {r}
         /\ desynchronize(c, r).rank_entries =
              [c.rank_entries EXCEPT ![r] = NoEntries]
<1> DEFINE w == withdraw_rank(c, r)
           d == desynchronize(c, r)
<1>1. IsCatalog(c) /\ Sound(w) /\ (Bounded(c) => Bounded(w))
  BY WithdrawSound, WithdrawBounded DEF Sound
<1>2. WithdrawnFrom(c, r, w)
  BY <1>1, WithdrawFields
<1>3. d = [w EXCEPT !.desynchronized = w.desynchronized \cup {r}]
  BY DEF desynchronize
<1> HIDE DEF w, d
<1>4. /\ IsCatalog(w) /\ WithdrawnEmpty(w)
      /\ w.rank_entries = [c.rank_entries EXCEPT ![r] = NoEntries]
      /\ SameBooks(c, w) /\ w.desynchronized = c.desynchronized
  BY <1>1, <1>2 DEF WithdrawnFrom, Sound
<1>5. /\ SameIndex(w, d) /\ SameBooks(w, d) /\ DOMAIN d = DOMAIN w
      /\ d.desynchronized = w.desynchronized \cup {r}
  BY <1>3, <1>4 DEF IsCatalog, SameIndex, SameBooks
<1>6. IsCatalog(d)
  BY <1>4, <1>5 DEF IsCatalog, SameIndex, SameBooks
<1>7. WithdrawnEmpty(d)
  BY <1>1, <1>4, <1>5 DEF WithdrawnEmpty, IsCatalog, SameIndex, SameBooks
<1>8. Sound(d) /\ (Bounded(c) => Bounded(d))
  BY <1>1, <1>5, <1>6, <1>7, SameIndexSound
<1>9. /\ d.desynchronized = c.desynchronized \cup {r}
      /\ d.rank_entries = [c.rank_entries EXCEPT ![r] = NoEntries]
      /\ SameBooks(c, d)
  BY <1>4, <1>5 DEF SameIndex, SameBooks
<1>10. Others(c, d, r)
  BY <1>1, <1>9 DEF Others, SameBooks, Within, IsCatalog
<1> QED BY <1>8, <1>9, <1>10 DEF Dropped, d

\* The withdrawal that also throws the pending checkpoint away.
LEMMA DiscardDrops ==
  ASSUME NEW c, Sound(c), NEW r \in Ranks
  PROVE  /\ Dropped(c, discard(c, r), r)
         /\ discard(c, r).generation = c.generation
         /\ discard(c, r).generation_conflicts = c.generation_conflicts
         /\ discard(c, r).sequences = c.sequences
         /\ discard(c, r).pending = [c.pending EXCEPT ![r] = NoPending]
         /\ discard(c, r).desynchronized = c.desynchronized \cup {r}
<1> DEFINE w == desynchronize(c, r)
           d == discard(c, r)
<1>1. /\ Dropped(c, w, r) /\ SameBooks(c, w)
      /\ w.desynchronized = c.desynchronized \cup {r}
  BY DesynchronizeDrops
<1>2. d = [w EXCEPT !.pending[r] = NoPending]
  BY DEF discard
<1> HIDE DEF w, d
<1>3. Sound(w) /\ IsCatalog(w) /\ WithdrawnEmpty(w) /\ IsCatalog(c)
  BY <1>1 DEF Dropped, Sound
<1>4. /\ SameIndex(w, d) /\ DOMAIN d = DOMAIN w
      /\ d.generation = w.generation
      /\ d.generation_history = w.generation_history
      /\ d.sequences = w.sequences
      /\ d.generation_conflicts = w.generation_conflicts
      /\ d.desynchronized = w.desynchronized
      /\ d.pending = [w.pending EXCEPT ![r] = NoPending]
  BY <1>2, <1>3 DEF IsCatalog, SameIndex
<1>5. IsCatalog(d)
  BY <1>3, <1>4, NoneTypes DEF IsCatalog, SameIndex
<1>6. WithdrawnEmpty(d)
  BY <1>3, <1>4 DEF WithdrawnEmpty, SameIndex
<1>7. Sound(d) /\ (Bounded(w) => Bounded(d))
  BY <1>3, <1>4, <1>5, <1>6, SameIndexSound
<1>8. Others(c, d, r)
  BY <1>1, <1>3, <1>4 DEF Others, Dropped, SameIndex, IsCatalog
<1> QED BY <1>1, <1>4, <1>7, <1>8 DEF Dropped, SameBooks, d

\* What happens to the other ranks in two steps.
LEMMA OthersTrans ==
  ASSUME NEW a, NEW b, NEW c, NEW r, Others(a, b, r), Others(b, c, r)
  PROVE  Others(a, c, r)
BY DEF Others, Within

\* The rank is set aside until a greater epoch.
Conflicted(c, d, r) ==
  /\ Dropped(c, d, r)
  /\ d.generation = c.generation
  /\ d.sequences = c.sequences
  /\ d.pending = [c.pending EXCEPT ![r] = NoPending]
  /\ r \in d.generation_conflicts

\* _mark_generation_conflict withdraws the rank for this epoch.
LEMMA ConflictDrops ==
  ASSUME NEW c, Sound(c), NEW r \in Ranks
  PROVE  Conflicted(c, mark_generation_conflict(c, r), r)
<1> DEFINE w == discard(c, r)
           d == mark_generation_conflict(c, r)
<1>1. /\ Dropped(c, w, r)
      /\ w.generation = c.generation /\ w.sequences = c.sequences
      /\ w.generation_conflicts = c.generation_conflicts
      /\ w.pending = [c.pending EXCEPT ![r] = NoPending]
  BY DiscardDrops
<1>2. d = [w EXCEPT !.generation_conflicts = w.generation_conflicts \cup {r}]
  BY DEF mark_generation_conflict
<1> HIDE DEF w, d
<1>3. Sound(w) /\ IsCatalog(w) /\ WithdrawnEmpty(w) /\ r \in w.desynchronized
  BY <1>1 DEF Dropped, Sound
<1>4. /\ SameIndex(w, d) /\ DOMAIN d = DOMAIN w
      /\ d.generation = w.generation
      /\ d.generation_history = w.generation_history
      /\ d.sequences = w.sequences
      /\ d.generation_conflicts = w.generation_conflicts \cup {r}
      /\ d.desynchronized = w.desynchronized
      /\ d.pending = w.pending
  BY <1>2, <1>3 DEF IsCatalog, SameIndex
<1>5. IsCatalog(d)
  BY <1>3, <1>4 DEF IsCatalog, SameIndex
<1>6. WithdrawnEmpty(d)
  BY <1>3, <1>4 DEF WithdrawnEmpty, SameIndex
<1>7. Sound(d) /\ (Bounded(w) => Bounded(d))
  BY <1>3, <1>4, <1>5, <1>6, SameIndexSound
<1>8. Others(c, d, r)
  BY <1>1, <1>3, <1>4 DEF Others, Dropped, SameIndex
<1>9. Conflicted(c, d, r)
  BY <1>1, <1>3, <1>4, <1>7, <1>8 DEF Dropped, Conflicted
<1> QED BY <1>9 DEF d

\* _adopt_generation starts the rank afresh under its new process.
LEMMA AdoptDrops ==
  ASSUME NEW c, Sound(c), NEW r \in Ranks, NEW id \in Identity
  PROVE  /\ Dropped(c, adopt_generation(c, r, id), r)
         /\ adopt_generation(c, r, id).generation =
              [c.generation EXCEPT ![r] = id]
         /\ adopt_generation(c, r, id).sequences =
              [c.sequences EXCEPT ![r] = 0]
         /\ adopt_generation(c, r, id).pending =
              [c.pending EXCEPT ![r] = NoPending]
         /\ adopt_generation(c, r, id).generation_conflicts =
              c.generation_conflicts \ {r}
<1> DEFINE w == withdraw_rank(c, r)
           d == adopt_generation(c, r, id)
           previous == c.generation[r]
           history == IF previous \in {NoIdentity, id} THEN w.generation_history[r]
                      ELSE Remember(w.generation_history[r], previous)
<1>1. IsCatalog(c) /\ Sound(w) /\ (Bounded(c) => Bounded(w))
  BY WithdrawSound, WithdrawBounded DEF Sound
<1>2. WithdrawnFrom(c, r, w)
  BY <1>1, WithdrawFields
<1>3. d = [w EXCEPT !.generation_history[r] = history,
                    !.generation[r] = id,
                    !.sequences[r] = 0,
                    !.pending[r] = NoPending,
                    !.desynchronized = w.desynchronized \cup {r},
                    !.generation_conflicts = w.generation_conflicts \ {r}]
  BY DEF adopt_generation
<1> HIDE DEF w, d
<1>4. /\ IsCatalog(w) /\ WithdrawnEmpty(w)
      /\ w.rank_entries = [c.rank_entries EXCEPT ![r] = NoEntries]
      /\ SameBooks(c, w) /\ w.desynchronized = c.desynchronized
  BY <1>1, <1>2 DEF WithdrawnFrom, Sound
<1>5. history \in Seq(Identity)
  <2>1. w.generation_history[r] \in Seq(Identity)
    BY <1>4 DEF IsCatalog
  <2>2. previous \in Identity \cup {NoIdentity}
    BY <1>1 DEF IsCatalog
  <2> QED BY <2>1, <2>2, CatalogAssumption DEF Remember
<1> HIDE DEF history
<1>6. /\ SameIndex(w, d) /\ DOMAIN d = DOMAIN w
      /\ d.generation = [w.generation EXCEPT ![r] = id]
      /\ d.generation_history = [w.generation_history EXCEPT ![r] = history]
      /\ d.sequences = [w.sequences EXCEPT ![r] = 0]
      /\ d.generation_conflicts = w.generation_conflicts \ {r}
      /\ d.desynchronized = w.desynchronized \cup {r}
      /\ d.pending = [w.pending EXCEPT ![r] = NoPending]
  BY <1>3, <1>4 DEF IsCatalog, SameIndex
<1>7. IsCatalog(d)
  BY <1>4, <1>5, <1>6, NoneTypes DEF IsCatalog, SameIndex
<1>8. WithdrawnEmpty(d)
  BY <1>1, <1>4, <1>6 DEF WithdrawnEmpty, SameIndex, IsCatalog
<1>9. Sound(d) /\ (Bounded(c) => Bounded(d))
  BY <1>1, <1>6, <1>7, <1>8, SameIndexSound
<1>10. Others(c, d, r)
  BY <1>1, <1>4, <1>6 DEF Others, SameBooks, SameIndex, Within, IsCatalog
<1> QED BY <1>4, <1>6, <1>9, <1>10 DEF Dropped, SameBooks, d
--------------------------------------------------------------------------
(* The steps of apply_report and apply_startup.                            *)

\* A method that concerns only rank r, whose process it does not change.
Steady(c, d, r) ==
  /\ Sound(d) /\ Bounded(d)
  /\ Others(c, d, r)
  /\ d.generation = c.generation
  /\ d.generation_conflicts = c.generation_conflicts

\* Rank r can be listed: its process is known and undisputed.
Live(c, r) == c.generation[r] # NoIdentity /\ r \notin c.generation_conflicts

DeltaApplied(c, d, r, delta) ==
  /\ delta # NoDelta
  /\ r \notin c.desynchronized
  /\ r \notin d.desynchronized
  /\ delta.base_sequence = c.sequences[r]
  /\ delta.sequence = c.sequences[r] + 1
  /\ d.sequences[r] = delta.sequence
  /\ d.pending = c.pending
  /\ Within(d.rank_entries[r], Patched(c.rank_entries[r], delta))

DeltaMissed(c, d, r) ==
  /\ r \in d.desynchronized
  /\ d.sequences = c.sequences
  /\ d.pending = c.pending

DeltaIdle(c, d, r, delta) ==
  /\ d = c
  /\ \/ delta = NoDelta
     \/ r \in c.desynchronized
     \/ delta.sequence <= c.sequences[r]

\* Nothing is listed twice: patching an image yields an image.
LEMMA PatchedType ==
  ASSUME NEW a \in Image, NEW delta \in Delta
  PROVE  Patched(a, delta) \in Image
BY DEF Patched, Image, Delta

\* A delta is applied to the very image it was computed from, or the rank is
\* withdrawn, or nothing happens.
LEMMA DeltaResults ==
  ASSUME NEW c, Sound(c), Bounded(c), NEW r \in Ranks, Live(c, r),
         NEW delta \in Delta, NEW d \in delta_results(c, r, delta)
  PROVE  /\ Steady(c, d, r)
         /\ \/ DeltaApplied(c, d, r, delta)
            \/ DeltaMissed(c, d, r)
            \/ DeltaIdle(c, d, r, delta)
<1>0. IsCatalog(c)
  BY DEF Sound
<1>1. Steady(c, c, r)
  BY <1>0 DEF Steady, Others, Within, IsCatalog
<1>n. c.sequences[r] \in Nat /\ delta.sequence \in Nat
  BY <1>0 DEF IsCatalog, Delta
<1>2. CASE delta = NoDelta \/ r \in c.desynchronized
  BY <1>1, <1>2 DEF delta_results, DeltaIdle
<1>3. CASE /\ ~(delta = NoDelta \/ r \in c.desynchronized)
           /\ delta.base_sequence = c.sequences[r]
           /\ delta.sequence = c.sequences[r] + 1
  <2> DEFINE b == [c EXCEPT !.sequences[r] = delta.sequence]
             image == Patched(c.rank_entries[r], delta)
  <2>1. d \in replace_rank(b, r, image)
    BY <1>3 DEF delta_results
  <2>2. image \in Image
    BY <1>0, PatchedType DEF IsCatalog
  <2>3. /\ SameIndex(c, b) /\ DOMAIN b = DOMAIN c
        /\ b.generation = c.generation
        /\ b.generation_history = c.generation_history
        /\ b.sequences = [c.sequences EXCEPT ![r] = delta.sequence]
        /\ b.generation_conflicts = c.generation_conflicts
        /\ b.desynchronized = c.desynchronized
        /\ b.pending = c.pending
    BY <1>0 DEF IsCatalog, SameIndex
  <2> HIDE DEF b, image
  <2>4. IsCatalog(b)
    BY <1>0, <1>n, <2>3 DEF IsCatalog, SameIndex
  <2>5. Sound(b)
    BY <2>3, <2>4, SameIndexSound DEF Sound, WithdrawnEmpty, SameIndex
  <2>6. Live(b, r)
    BY <2>3 DEF Live
  <2>7. /\ Sound(d) /\ Bounded(d)
        /\ Within(d.rank_entries[r], image)
        /\ \A s \in Ranks \ {r} :
             Within(d.rank_entries[s], b.rank_entries[s])
        /\ d.desynchronized = b.desynchronized \ {r}
        /\ SameBooks(b, d)
    BY <2>1, <2>2, <2>5, <2>6, ReplaceRank DEF Live
  <2>8. Steady(c, d, r)
    BY <1>0, <2>3, <2>7 DEF Steady, Others, SameBooks, SameIndex, IsCatalog
  <2>9. DeltaApplied(c, d, r, delta)
    BY <1>0, <1>3, <2>3, <2>7 DEF DeltaApplied, SameBooks, IsCatalog, image
  <2> QED BY <2>8, <2>9
<1>4. CASE /\ ~(delta = NoDelta \/ r \in c.desynchronized)
           /\ ~(delta.base_sequence = c.sequences[r] /\ delta.sequence = c.sequences[r] + 1)
           /\ delta.sequence > c.sequences[r]
  <2> DEFINE w == desynchronize(c, r)
  <2>1. d = w
    BY <1>4 DEF delta_results
  <2> HIDE DEF w
  <2>2. Dropped(c, w, r) /\ SameBooks(c, w)
    BY DesynchronizeDrops DEF w
  <2> QED BY <2>1, <2>2 DEF Steady, Dropped, SameBooks, DeltaMissed
<1>5. CASE /\ ~(delta = NoDelta \/ r \in c.desynchronized)
           /\ ~(delta.base_sequence = c.sequences[r] /\ delta.sequence = c.sequences[r] + 1)
           /\ ~(delta.sequence > c.sequences[r])
  <2>1. d = c
    BY <1>5 DEF delta_results
  <2> QED BY <1>1, <1>5, <1>n, <2>1 DEF DeltaIdle
<1> QED BY <1>2, <1>3, <1>4, <1>5
\* What a checkpoint page may leave of the checkpoint under assembly.
PendingAfter(c, d, r, cp) ==
  LET p == pending_for(c, r, cp)
      grown == with_page(p, cp)
  IN \/ d.pending[r] = NoPending
     \/ /\ d.pending[r] = grown
        /\ cp.count = p.count /\ cp.held_count = p.held_count
        /\ grown.entry_count <= p.held_count

PageKept(c, d, r, cp) ==
  /\ d.sequences = c.sequences
  /\ PendingAfter(c, d, r, cp)
  /\ Within(d.rank_entries[r], c.rank_entries[r])
  /\ \/ r \in d.desynchronized
     \/ r \notin c.desynchronized /\ cp.sequence <= c.sequences[r]

PageCompletes(c, d, r, cp) ==
  /\ r \notin d.desynchronized
  /\ c.sequences[r] <= cp.sequence
  /\ d.sequences[r] = cp.sequence
  /\ d.pending[r] = NoPending
  /\ LET image == Flattened(with_page(pending_for(c, r, cp), cp).pages)
     IN /\ Within(d.rank_entries[r], image)
        /\ Size(image) = cp.held_count
        /\ cp.held_count <= Capacity => d.rank_entries[r] = image

\* The size of an inventory is a natural number (len of the dict).
LEMMA SizeType ==
  ASSUME NEW a
  PROVE  Size(a) \in Nat
BY ImagesAssumption, FS_Subset, FS_CardinalityType DEF Size, Keys

\* The page is stored in a checkpoint of its own sequence.
LEMMA WithPageType ==
  ASSUME NEW c, IsCatalog(c), NEW r \in Ranks, NEW cp \in Checkpoint,
         cp.index \in PageIndex
  PROVE  /\ pending_for(c, r, cp) \in Pending
         /\ with_page(pending_for(c, r, cp), cp) \in Pending
         /\ with_page(pending_for(c, r, cp), cp).sequence = cp.sequence
         /\ Flattened(with_page(pending_for(c, r, cp), cp).pages) \in Image
<1> DEFINE p == pending_for(c, r, cp)
           q == with_page(p, cp)
<1>1. cp.sequence \in Nat /\ cp.cycle \in Nat /\ cp.count \in Nat
      /\ cp.held_count \in Nat /\ cp.entries \in Image
  BY DEF Checkpoint
<1>2. c.pending[r] \in Pending
  BY DEF IsCatalog
<1>3. p \in Pending /\ p.sequence = cp.sequence
  BY <1>1, <1>2, NoneTypes DEF pending_for, Pending
<1> HIDE DEF p
<1>4. q \in Pending /\ q.sequence = cp.sequence
  <2>1. /\ p.pages \in [PageIndex -> Image]
        /\ p.entry_count \in Int
        /\ p.received \in SUBSET PageIndex
    BY <1>3 DEF Pending
  <2> DEFINE pages == [p.pages EXCEPT ![cp.index] = cp.entries]
             n == p.entry_count - Size(p.pages[cp.index]) + Size(cp.entries)
             received == p.received \cup {cp.index}
  <2>2. pages \in [PageIndex -> Image]
    BY <1>1, <2>1
  <2>3. n \in Int
    BY <2>1, SizeType
  <2>4. received \in SUBSET PageIndex
    BY <2>1
  <2>5. q = [p EXCEPT !.received = received, !.pages = pages, !.entry_count = n]
    BY DEF with_page
  <2> HIDE DEF pages, n, received, q
  <2> QED BY <1>3, <2>2, <2>3, <2>4, <2>5 DEF Pending
<1> HIDE DEF q
<1>5. q.pages \in [PageIndex -> Image]
  BY <1>4 DEF Pending
<1>6. Flattened(q.pages) \in Image
  <2> SUFFICES ASSUME NEW e \in Entries
               PROVE  Flattened(q.pages)[e] \in Spans \cup {0}
    BY DEF Flattened, Image
  <2>1. CASE \E i \in PageIndex : q.pages[i][e] # 0
    <3> DEFINE i == CHOOSE i \in PageIndex : q.pages[i][e] # 0
    <3>1. i \in PageIndex
      BY <2>1
    <3> HIDE DEF i
    <3>2. q.pages[i][e] \in Spans \cup {0}
      BY <1>5, <3>1 DEF Image
    <3>3. Flattened(q.pages)[e] = q.pages[i][e]
      BY <2>1 DEF Flattened, i
    <3> QED BY <3>2, <3>3
  <2>2. CASE ~ \E i \in PageIndex : q.pages[i][e] # 0
    BY <2>2 DEF Flattened
  <2> QED BY <2>1, <2>2
<1> QED BY <1>3, <1>4, <1>6 DEF q, p
\* Storing a pending checkpoint, or dropping it, touches no index.
LEMMA PendingChange ==
  ASSUME NEW c, Sound(c), Bounded(c), NEW r \in Ranks, NEW p \in Pending
  PROVE  /\ Steady(c, [c EXCEPT !.pending[r] = p], r)
         /\ [c EXCEPT !.pending[r] = p].pending = [c.pending EXCEPT ![r] = p]
         /\ [c EXCEPT !.pending[r] = p].sequences = c.sequences
         /\ [c EXCEPT !.pending[r] = p].desynchronized = c.desynchronized
         /\ [c EXCEPT !.pending[r] = p].rank_entries = c.rank_entries
<1> DEFINE d == [c EXCEPT !.pending[r] = p]
<1>0. IsCatalog(c) /\ WithdrawnEmpty(c)
  BY DEF Sound
<1>1. /\ SameIndex(c, d) /\ DOMAIN d = DOMAIN c
      /\ d.generation = c.generation
      /\ d.generation_history = c.generation_history
      /\ d.sequences = c.sequences
      /\ d.generation_conflicts = c.generation_conflicts
      /\ d.desynchronized = c.desynchronized
      /\ d.pending = [c.pending EXCEPT ![r] = p]
  BY <1>0 DEF IsCatalog, SameIndex
<1> HIDE DEF d
<1>2. IsCatalog(d)
  BY <1>0, <1>1 DEF IsCatalog, SameIndex
<1>3. WithdrawnEmpty(d)
  BY <1>0, <1>1 DEF WithdrawnEmpty, SameIndex
<1>4. Sound(d) /\ Bounded(d)
  BY <1>1, <1>2, <1>3, SameIndexSound
<1>5. Others(c, d, r)
  BY <1>0, <1>1 DEF Others, SameIndex, Within, IsCatalog
<1> QED BY <1>1, <1>4, <1>5 DEF Steady, SameIndex, d

\* A page is discarded with its checkpoint, stored, or completes it.
LEMMA CheckpointResults ==
  ASSUME NEW c, Sound(c), Bounded(c), NEW r \in Ranks, Live(c, r),
         NEW cp \in Checkpoint, cp.index \in PageIndex,
         NEW d \in checkpoint_results(c, r, cp)
  PROVE  /\ Steady(c, d, r)
         /\ PageKept(c, d, r, cp) \/ PageCompletes(c, d, r, cp)
<1> DEFINE g == checkpoint_gap(c, r, cp)
           pending == pending_for(g, r, cp)
           grown == with_page(pending, cp)
<1>0. IsCatalog(c) /\ c.sequences[r] \in Nat /\ cp.sequence \in Nat
  BY DEF Sound, IsCatalog, Checkpoint
<1>d. \/ d = discard(g, r)
      \/ /\ cp.count = pending.count /\ cp.held_count = pending.held_count
         /\ ~(grown.entry_count > pending.held_count)
         /\ \/ d \in completed(g, r, grown)
            \/ d = [g EXCEPT !.pending[r] = grown]
  BY DEF checkpoint_results
<1>1. /\ Steady(c, g, r) /\ g.sequences = c.sequences
      /\ g.pending = c.pending
      /\ Within(g.rank_entries[r], c.rank_entries[r])
      /\ \/ r \in g.desynchronized
         \/ r \notin c.desynchronized /\ cp.sequence <= c.sequences[r]
  <2>1. CASE r \notin c.desynchronized /\ cp.sequence > c.sequences[r]
    <3>1. g = desynchronize(c, r)
      BY <2>1 DEF checkpoint_gap
    <3>2. /\ Dropped(c, g, r) /\ SameBooks(c, g)
          /\ g.rank_entries = [c.rank_entries EXCEPT ![r] = NoEntries]
      BY <3>1, DesynchronizeDrops
    <3> HIDE DEF g
    <3> QED BY <1>0, <3>2
            DEF Dropped, SameBooks, Steady, Within, NoEntries, IsCatalog
  <2>2. CASE ~(r \notin c.desynchronized /\ cp.sequence > c.sequences[r])
    <3>1. g = c
      BY <2>2 DEF checkpoint_gap
    <3> QED BY <1>0, <2>2, <3>1 DEF Steady, Others, Within, IsCatalog
  <2> QED BY <2>1, <2>2
<1>2. pending = pending_for(c, r, cp)
  BY <1>1 DEF pending_for
<1>3. grown \in Pending /\ grown.sequence = cp.sequence /\ Flattened(grown.pages) \in Image
  BY <1>0, <1>2, WithPageType
<1>p. pending \in Pending
  BY <1>0, <1>2, WithPageType
<1>4. Sound(g) /\ Bounded(g) /\ Live(g, r) /\ IsCatalog(g)
  BY <1>1 DEF Steady, Live, Sound
<1> DEFINE after == with_page(pending_for(c, r, cp), cp)
<1>5. grown = after /\ grown.held_count = pending.held_count
  BY <1>2, <1>p DEF with_page, Pending
<1>n. grown.entry_count \in Int /\ pending.held_count \in Nat
  BY <1>3, <1>5 DEF Pending
<1> HIDE DEF g, pending, grown, after
\* Results are related to g; this carries them back to c.
<1>6. ASSUME NEW x, Steady(g, x, r)
      PROVE  Steady(c, x, r)
  <2>1. Others(c, x, r)
    BY <1>0, <1>1, <1>4, <1>6 DEF Steady, Others, Within, IsCatalog
  <2> QED BY <1>1, <1>6, <2>1 DEF Steady
<1>7. CASE d = discard(g, r)
  <2>1. /\ Dropped(g, d, r) /\ d.generation = g.generation
        /\ d.generation_conflicts = g.generation_conflicts
        /\ d.sequences = g.sequences
        /\ d.pending = [g.pending EXCEPT ![r] = NoPending]
    BY <1>4, <1>7, DiscardDrops
  <2>2. Steady(g, d, r) /\ r \in d.desynchronized /\ d.pending[r] = NoPending
    BY <1>4, <2>1 DEF Dropped, Steady, IsCatalog
  <2>3. d.rank_entries[r] = NoEntries
    BY <2>2 DEF Steady, Sound, WithdrawnEmpty
  <2> QED BY <1>0, <1>1, <1>6, <2>1, <2>2, <2>3
          DEF PageKept, PendingAfter, Within, NoEntries
<1>8. CASE /\ cp.count = pending.count /\ cp.held_count = pending.held_count
           /\ ~(grown.entry_count > pending.held_count)
           /\ d = [g EXCEPT !.pending[r] = grown]
  <2>1. /\ Steady(g, d, r) /\ d.pending = [g.pending EXCEPT ![r] = grown]
        /\ d.sequences = g.sequences /\ d.desynchronized = g.desynchronized
        /\ d.rank_entries = g.rank_entries
    BY <1>3, <1>4, <1>8, PendingChange
  <2>2. d.pending[r] = after
    BY <1>4, <1>5, <2>1 DEF IsCatalog
  <2>3. PendingAfter(c, d, r, cp)
    BY <1>2, <1>5, <1>8, <1>n, <2>2 DEF PendingAfter, after
  <2> QED BY <1>1, <1>6, <2>1, <2>3 DEF PageKept
<1>9. CASE /\ cp.count = pending.count /\ cp.held_count = pending.held_count
           /\ ~(grown.entry_count > pending.held_count)
           /\ d \in completed(g, r, grown)
  <2> DEFINE done == [g EXCEPT !.pending[r] = NoPending]
             image == Flattened(grown.pages)
  <2>1. /\ Steady(g, done, r) /\ done.pending = [g.pending EXCEPT ![r] = NoPending]
        /\ done.sequences = g.sequences /\ done.desynchronized = g.desynchronized
        /\ done.rank_entries = g.rank_entries
    BY <1>4, NoneTypes, PendingChange
  <2>2. done.pending[r] = NoPending
    BY <1>4, <2>1 DEF IsCatalog
  <2>d. \/ d = done
        \/ d = desynchronize(done, r)
        \/ /\ ~(grown.sequence < g.sequences[r])
           /\ grown.entry_count = grown.held_count /\ Size(image) = grown.entry_count
           /\ d \in replace_rank([done EXCEPT !.sequences[r] = grown.sequence], r, image)
    BY <1>9 DEF completed
  <2> HIDE DEF done, image
  <2>3. CASE d = done
    BY <1>1, <1>6, <2>1, <2>2, <2>3 DEF PageKept, PendingAfter
  <2>4. CASE d = desynchronize(done, r)
    <3>1. Sound(done)
      BY <2>1 DEF Steady
    <3>2. Dropped(done, d, r) /\ SameBooks(done, d)
      BY <2>4, <3>1, DesynchronizeDrops
    <3>3. Steady(g, d, r)
      BY <1>4, <2>1, <3>1, <3>2
         DEF Steady, Dropped, SameBooks, Others, Within, Sound, IsCatalog
    <3>4. d.rank_entries[r] = NoEntries
      BY <3>2 DEF Dropped, Sound, WithdrawnEmpty
    <3>5. d.sequences = c.sequences /\ d.pending[r] = NoPending /\ r \in d.desynchronized
      BY <1>1, <2>1, <2>2, <3>2 DEF Dropped, SameBooks
    <3> QED BY <1>0, <1>6, <3>3, <3>4, <3>5
            DEF PageKept, PendingAfter, Within, NoEntries
  <2>5. CASE /\ ~(grown.sequence < g.sequences[r])
             /\ grown.entry_count = grown.held_count /\ Size(image) = grown.entry_count
             /\ d \in replace_rank([done EXCEPT !.sequences[r] = grown.sequence], r, image)
    <3> DEFINE b == [done EXCEPT !.sequences[r] = grown.sequence]
    <3>0. /\ Sound(done) /\ IsCatalog(done) /\ Bounded(done) /\ Live(done, r)
          /\ WithdrawnEmpty(done)
      BY <1>4, <2>1 DEF Steady, Live, Sound
    <3>1. /\ SameIndex(done, b) /\ DOMAIN b = DOMAIN done
          /\ b.generation = done.generation
          /\ b.generation_history = done.generation_history
          /\ b.sequences = [done.sequences EXCEPT ![r] = grown.sequence]
          /\ b.generation_conflicts = done.generation_conflicts
          /\ b.desynchronized = done.desynchronized
          /\ b.pending = done.pending
      BY <3>0 DEF IsCatalog, SameIndex
    <3>d. d \in replace_rank(b, r, image)
      BY <2>5
    <3> HIDE DEF b
    <3>2. IsCatalog(b)
      BY <1>0, <1>3, <3>0, <3>1 DEF IsCatalog, SameIndex
    <3>3. Sound(b)
      BY <3>0, <3>1, <3>2, SameIndexSound DEF WithdrawnEmpty, SameIndex
    <3>4. Live(b, r) /\ image \in Image
      BY <1>3, <3>0, <3>1 DEF Live, image
    <3>5. /\ Sound(d) /\ Bounded(d)
          /\ Within(d.rank_entries[r], image)
          /\ Size(image) <= Capacity => d.rank_entries[r] = image
          /\ \A s \in Ranks \ {r} :
               Within(d.rank_entries[s], b.rank_entries[s])
          /\ d.desynchronized = b.desynchronized \ {r}
          /\ SameBooks(b, d)
      BY <3>3, <3>4, <3>d, ReplaceRank DEF Live
    <3>6. Others(done, d, r)
      BY <3>0, <3>1, <3>5 DEF Others, SameBooks, SameIndex, IsCatalog
    <3>7. Steady(g, d, r)
      BY <1>4, <2>1, <3>0, <3>1, <3>5, <3>6
         DEF Steady, SameBooks, SameIndex, Others, Within, IsCatalog
    <3>8. PageCompletes(c, d, r, cp)
      BY <1>0, <1>1, <1>3, <1>5, <1>9, <2>1, <2>2, <2>5, <3>0, <3>1, <3>5
         DEF PageCompletes, SameBooks, IsCatalog, image, after
    <3> QED BY <1>6, <3>7, <3>8
  <2> QED BY <2>3, <2>4, <2>5, <2>d
<1> QED BY <1>7, <1>8, <1>9, <1>d
\* The catalog in which a packet of process id is processed.
Receiving(c, r, id) ==
  IF generation_disposition(c, r, id) \in {"initial", "newer"}
  THEN adopt_generation(c, r, id) ELSE c

\* The rank has just been given its process.
Afresh(c, a, r, id) ==
  /\ c.generation[r] = NoIdentity \/ id.epoch > c.generation[r].epoch
  /\ a.generation = [c.generation EXCEPT ![r] = id]
  /\ a.sequences[r] = 0
  /\ a.pending[r] = NoPending

\* A packet that is neither stale nor in conflict is processed under its own
\* process, either unchanged or just adopted.
LEMMA ReceivingLive ==
  ASSUME NEW c, Sound(c), Bounded(c), NEW r \in Ranks, NEW id \in Identity,
         generation_disposition(c, r, id) \notin {"stale", "conflict"}
  PROVE  LET a == Receiving(c, r, id)
         IN /\ Sound(a) /\ Bounded(a) /\ Live(a, r) /\ Others(c, a, r)
            /\ a.generation[r] = id
            /\ \/ a = c
               \/ Afresh(c, a, r, id) /\ r \in a.desynchronized
<1> DEFINE a == Receiving(c, r, id)
           g == generation_disposition(c, r, id)
<1>0. IsCatalog(c) /\ id # NoIdentity /\ id.epoch \in Nat
  BY DEF Sound, Identity, NoIdentity
<1>1. CASE g \in {"initial", "newer"}
  <2>1. a = adopt_generation(c, r, id)
    BY <1>1 DEF Receiving
  <2> HIDE DEF a
  <2>2. /\ Dropped(c, a, r)
        /\ a.generation = [c.generation EXCEPT ![r] = id]
        /\ a.sequences = [c.sequences EXCEPT ![r] = 0]
        /\ a.pending = [c.pending EXCEPT ![r] = NoPending]
        /\ a.generation_conflicts = c.generation_conflicts \ {r}
    BY <2>1, AdoptDrops
  <2>3. c.generation[r] = NoIdentity \/ id.epoch > c.generation[r].epoch
    BY <1>1 DEF generation_disposition
  <2>4. Sound(a) /\ Bounded(a) /\ Live(a, r) /\ Others(c, a, r)
        /\ a.generation[r] = id /\ Afresh(c, a, r, id)
        /\ r \in a.desynchronized
    BY <1>0, <2>2, <2>3 DEF Dropped, Live, Afresh, IsCatalog
  <2> QED BY <2>4 DEF a
<1>2. CASE g \notin {"initial", "newer"}
  <2>1. a = c
    BY <1>2 DEF Receiving
  <2>2. Others(c, c, r)
    BY <1>0 DEF Others, Within, IsCatalog
  <2>3. /\ c.generation[r] # NoIdentity
        /\ ~(id.epoch < c.generation[r].epoch)
        /\ ~(id.epoch > c.generation[r].epoch)
        /\ id.uuid = c.generation[r].uuid /\ r \notin c.generation_conflicts
    BY <1>2 DEF generation_disposition
  <2>4. c.generation[r] \in Identity
    BY <1>0, <2>3 DEF IsCatalog
  <2>5. c.generation[r] = id
    BY <1>0, <2>3, <2>4 DEF Identity
  <2> QED BY <1>0, <2>1, <2>2, <2>3, <2>5 DEF Live
<1> QED BY <1>1, <1>2

StartupAdopted(c, d, m) ==
  /\ Afresh(c, d, m.rank, m.id)
  /\ m.rank \notin d.generation_conflicts
  /\ Within(d.rank_entries[m.rank], m.entries)
  /\ \/ m.rank \in d.desynchronized
     \/ d.rank_entries[m.rank] = m.entries

\* The packet is from the rank's process or from an older one.
Heeded(c, m) ==
  generation_disposition(c, m.rank, m.id) \in {"stale", "current"}

\* The packet's process cannot be ordered with the rank's.
Disputed(c, m) ==
  ~m.identified \/ generation_disposition(c, m.rank, m.id) = "conflict"

\* A startup inventory is ignored, ends in a conflict, or starts the rank
\* afresh with at most its entries.
LEMMA StartupResults ==
  ASSUME NEW c, Sound(c), Bounded(c), NEW m \in StartupMessage,
         NEW d \in startup_results(c, m)
  PROVE  /\ Sound(d) /\ Bounded(d) /\ Others(c, d, m.rank)
         /\ \/ d = c /\ Heeded(c, m)
            \/ Conflicted(c, d, m.rank) /\ Disputed(c, m)
            \/ StartupAdopted(c, d, m)
<1> DEFINE r == m.rank
           g == generation_disposition(c, r, m.id)
           a == adopt_generation(c, r, m.id)
<1>0. /\ IsCatalog(c) /\ r \in Ranks /\ m.id \in Identity
      /\ m.entries \in Image /\ m.id # NoIdentity
  BY DEF Sound, StartupMessage, Identity, NoIdentity
<1>d. \/ d = mark_generation_conflict(c, r) /\ Disputed(c, m)
      \/ d = c /\ Heeded(c, m)
      \/ g \notin {"conflict", "stale", "current"} /\ d = a
      \/ /\ g \notin {"conflict", "stale", "current"}
         /\ ~(Size(m.entries) > Capacity)
         /\ d \in replace_rank(a, r, m.entries)
  BY DEF startup_results, Heeded, Disputed
<1>a. /\ Dropped(c, a, r)
      /\ a.generation = [c.generation EXCEPT ![r] = m.id]
      /\ a.sequences = [c.sequences EXCEPT ![r] = 0]
      /\ a.pending = [c.pending EXCEPT ![r] = NoPending]
      /\ a.generation_conflicts = c.generation_conflicts \ {r}
  BY <1>0, AdoptDrops
<1> HIDE DEF r, a
<1>b. /\ Sound(a) /\ Bounded(a) /\ Live(a, r) /\ IsCatalog(a)
      /\ Others(c, a, r) /\ r \in a.desynchronized
      /\ a.generation[r] = m.id /\ a.sequences[r] = 0
      /\ a.pending[r] = NoPending
  BY <1>0, <1>a DEF Dropped, Live, Sound, IsCatalog
<1>1. CASE d = mark_generation_conflict(c, r) /\ Disputed(c, m)
  <2>1. Conflicted(c, d, r)
    BY <1>0, <1>1, ConflictDrops
  <2> QED BY <1>1, <2>1 DEF Conflicted, Dropped, r
<1>2. CASE d = c /\ Heeded(c, m)
  BY <1>0, <1>2 DEF Others, Within, IsCatalog
<1>n. ASSUME g \notin {"conflict", "stale", "current"}
      PROVE  c.generation[r] = NoIdentity \/ m.id.epoch > c.generation[r].epoch
  BY <1>n DEF generation_disposition
<1>3. CASE g \notin {"conflict", "stale", "current"} /\ d = a
  <2>1. a.rank_entries[r] = NoEntries
    BY <1>b DEF Sound, WithdrawnEmpty
  <2>2. Within(a.rank_entries[r], m.entries)
    BY <2>1 DEF Within, NoEntries
  <2>3. StartupAdopted(c, a, m)
    BY <1>3, <1>a, <1>b, <1>n, <2>2 DEF StartupAdopted, Afresh, Live, r, IsCatalog
  <2> QED BY <1>3, <1>b, <2>3 DEF r
<1>4. CASE /\ g \notin {"conflict", "stale", "current"}
           /\ ~(Size(m.entries) > Capacity)
           /\ d \in replace_rank(a, r, m.entries)
  <2>0. Size(m.entries) <= Capacity
    BY <1>4, SizeType, ImagesAssumption
  <2>1. /\ Sound(d) /\ Bounded(d)
        /\ Within(d.rank_entries[r], m.entries)
        /\ Size(m.entries) <= Capacity => d.rank_entries[r] = m.entries
        /\ \A s \in Ranks \ {r} :
             Within(d.rank_entries[s], a.rank_entries[s])
        /\ d.desynchronized = a.desynchronized \ {r}
        /\ SameBooks(a, d)
    BY <1>0, <1>4, <1>b, ReplaceRank DEF Live
  <2>2. Others(c, d, r)
    BY <1>0, <1>b, <2>1 DEF Others, SameBooks, Within, Sound, IsCatalog
  <2>3. StartupAdopted(c, d, m)
    BY <1>4, <1>a, <1>b, <1>n, <2>0, <2>1
       DEF StartupAdopted, Afresh, Live, SameBooks, r, Sound, IsCatalog
  <2> QED BY <2>1, <2>2, <2>3 DEF r
<1> QED BY <1>1, <1>2, <1>3, <1>4, <1>d

\* A valid page has an index within the bound on pages.
LEMMA ValidIndex ==
  ASSUME NEW m \in ReportMessage, validate_inventory_report(m)
  PROVE  m.checkpoint.index \in PageIndex
<1>1. /\ m.checkpoint.index \in Nat /\ m.checkpoint.count \in Nat
      /\ m.checkpoint.held_count \in Nat
  BY DEF ReportMessage, Checkpoint
<1> QED BY <1>1, ImagesAssumption DEF validate_inventory_report, PageIndex

\* A report is ignored, ends in a conflict, is malformed and withdraws the
\* rank, or its delta and then its page are processed.
LEMMA ReportResults ==
  ASSUME NEW c, Sound(c), Bounded(c), NEW m \in ReportMessage,
         NEW d \in report_results(c, m)
  PROVE  LET r == m.rank
             a == Receiving(c, r, m.id)
         IN /\ Sound(d) /\ Bounded(d) /\ Others(c, d, r)
            /\ \/ d = c /\ generation_disposition(c, r, m.id) = "stale"
               \/ Conflicted(c, d, r) /\ Disputed(c, m)
               \/ /\ generation_disposition(c, r, m.id) \notin {"stale", "conflict"}
                  /\ \/ d = discard(a, r)
                     \/ /\ m.checkpoint.index \in PageIndex
                        /\ validate_inventory_report(m)
                        /\ \E x \in delta_results(a, r, m.delta) :
                             d \in checkpoint_results(x, r, m.checkpoint)
<1> DEFINE r == m.rank
           g == generation_disposition(c, r, m.id)
           a == Receiving(c, r, m.id)
<1>0. /\ IsCatalog(c) /\ r \in Ranks /\ m.id \in Identity
      /\ m.checkpoint \in Checkpoint /\ m.delta \in Delta
  BY DEF Sound, ReportMessage
<1>d. \/ d = mark_generation_conflict(c, r) /\ Disputed(c, m)
      \/ d = c /\ g = "stale"
      \/ g \notin {"stale", "conflict"} /\ d = discard(a, r)
      \/ /\ g \notin {"stale", "conflict"}
         /\ validate_inventory_report(m)
         /\ \E x \in delta_results(a, r, m.delta) :
              d \in checkpoint_results(x, r, m.checkpoint)
  BY DEF report_results, Receiving, Disputed
<1>1. CASE d = mark_generation_conflict(c, r) /\ Disputed(c, m)
  <2>1. Conflicted(c, d, r)
    BY <1>0, <1>1, ConflictDrops
  <2> QED BY <1>1, <2>1 DEF Conflicted, Dropped
<1>2. CASE d = c /\ g = "stale"
  BY <1>0, <1>2 DEF Others, Within, IsCatalog
<1>3. CASE g \notin {"stale", "conflict"} /\ d = discard(a, r)
  <2>1. Sound(a) /\ Bounded(a) /\ Others(c, a, r)
    BY <1>0, <1>3, ReceivingLive
  <2>2. Dropped(a, d, r)
    BY <1>0, <1>3, <2>1, DiscardDrops
  <2> HIDE DEF a
  <2>3. Sound(d) /\ Bounded(d) /\ Others(c, d, r)
    BY <2>1, <2>2, OthersTrans DEF Dropped
  <2> QED BY <1>3, <2>3 DEF a
<1>4. CASE /\ g \notin {"stale", "conflict"}
           /\ validate_inventory_report(m)
           /\ \E x \in delta_results(a, r, m.delta) :
                d \in checkpoint_results(x, r, m.checkpoint)
  <2>1. Sound(a) /\ Bounded(a) /\ Others(c, a, r) /\ Live(a, r)
    BY <1>0, <1>4, ReceivingLive
  <2>2. PICK x \in delta_results(a, r, m.delta) :
          d \in checkpoint_results(x, r, m.checkpoint)
    BY <1>4
  <2>3. m.checkpoint.index \in PageIndex
    BY <1>4, ValidIndex
  <2> HIDE DEF a
  <2>4. Steady(a, x, r)
    BY <1>0, <2>1, <2>2, DeltaResults
  <2>5. Sound(x) /\ Bounded(x) /\ Live(x, r)
    BY <2>1, <2>4 DEF Steady, Live
  <2>6. Steady(x, d, r)
    BY <1>0, <2>2, <2>3, <2>5, CheckpointResults
  <2>7. Sound(d) /\ Bounded(d) /\ Others(c, d, r)
    BY <2>1, <2>4, <2>6, OthersTrans DEF Steady
  <2> QED BY <1>4, <2>2, <2>3, <2>7 DEF a
<1> QED BY <1>1, <1>2, <1>3, <1>4, <1>d

--------------------------------------------------------------------------
(* The checkpoint under assembly.                                          *)

\* The pairs of the pages, each with the index of its page.
Listings(pages) == {x \in PageIndex \X Entries : pages[x[1]][x[2]] # 0}

\* The counter of a checkpoint under assembly is right and within what the
\* checkpoint announced.
Fits(p) ==
  /\ p.entry_count <= p.held_count
  /\ p.held_count <= Capacity
  /\ \A i \in p.received : i < p.count
  /\ p.entry_count = Cardinality(Listings(p.pages))

\* No checkpoint has no pages.
LEMMA NoneFits == Fits(NoPending)
<1>1. Listings(NoPending.pages) = {}
  BY DEF Listings, NoPending, NoEntries
<1> QED BY <1>1, FS_EmptySet, ImagesAssumption DEF Fits, NoPending

\* with_page adjusts the counter by exactly what the page adds and what the
\* page that it overwrites had added.
LEMMA ListingsCount ==
  ASSUME NEW pages \in [PageIndex -> Image], NEW i \in PageIndex,
         NEW image \in Image
  PROVE  /\ Cardinality(Listings(pages)) \in Nat
         /\ Cardinality(Listings([pages EXCEPT ![i] = image])) =
              Cardinality(Listings(pages)) - Size(pages[i]) + Size(image)
<1> DEFINE Rest == {x \in Listings(pages) : x[1] # i}
           More == [pages EXCEPT ![i] = image]
<1>1. IsFiniteSet(PageIndex) /\ IsFiniteSet(Entries)
  BY ImagesAssumption, FS_Interval DEF PageIndex
<1>2. IsFiniteSet(PageIndex \X Entries)
  BY <1>1, FS_Product
<1>3. IsFiniteSet(Rest) /\ IsFiniteSet(Listings(pages))
  BY <1>2, FS_Subset DEF Listings
<1>4. ASSUME NEW a \in Image
      PROVE  /\ IsFiniteSet({i} \X Keys(a))
             /\ Cardinality({i} \X Keys(a)) = Size(a)
             /\ Size(a) \in Nat
  <2>1. IsFiniteSet(Keys(a))
    BY <1>1, FS_Subset DEF Keys
  <2>2. IsFiniteSet({i}) /\ Cardinality({i}) = 1
    BY FS_Singleton
  <2>3. IsFiniteSet({i} \X Keys(a)) /\ Cardinality({i} \X Keys(a)) = 1 * Cardinality(Keys(a))
    BY <2>1, <2>2, FS_Product
  <2>4. Cardinality(Keys(a)) \in Nat
    BY <2>1, FS_CardinalityType
  <2> QED BY <2>3, <2>4 DEF Size
<1>5. ASSUME NEW a \in Image
      PROVE  Cardinality(Rest \cup ({i} \X Keys(a))) = Cardinality(Rest) + Size(a)
  <2>1. Rest \cap ({i} \X Keys(a)) = {}
    OBVIOUS
  <2>2. Cardinality(Rest \cup ({i} \X Keys(a))) =
          Cardinality(Rest) + Size(a) - Cardinality(Rest \cap ({i} \X Keys(a)))
    BY <1>3, <1>4, FS_Union
  <2>3. Cardinality(Rest) \in Nat /\ Size(a) \in Nat
    BY <1>3, <1>4, FS_CardinalityType
  <2>4. Cardinality(Rest \cap ({i} \X Keys(a))) = 0
    BY <2>1, FS_EmptySet
  <2> DEFINE both == Cardinality(Rest \cup ({i} \X Keys(a)))
             none == Cardinality(Rest \cap ({i} \X Keys(a)))
             rest == Cardinality(Rest)
  <2>5. both = rest + Size(a) - none /\ none = 0 /\ rest \in Nat
    BY <2>2, <2>3, <2>4
  <2> HIDE DEF both, none, rest
  <2>6. both = rest + Size(a)
    BY <2>3, <2>5
  <2> QED BY <2>6 DEF both, rest
<1>6. pages[i] \in Image /\ More \in [PageIndex -> Image] /\ More[i] = image
      /\ \A j \in PageIndex \ {i} : More[j] = pages[j]
  OBVIOUS
<1>7. Listings(pages) = Rest \cup ({i} \X Keys(pages[i]))
  BY DEF Listings, Keys
<1> HIDE DEF More
<1>8. Listings(More) = Rest \cup ({i} \X Keys(image))
  BY <1>6 DEF Listings, Keys
<1>9. /\ Cardinality(Rest) \in Nat
      /\ Cardinality(Listings(pages)) = Cardinality(Rest) + Size(pages[i])
      /\ Cardinality(Listings(More)) = Cardinality(Rest) + Size(image)
      /\ Size(pages[i]) \in Nat /\ Size(image) \in Nat
  BY <1>3, <1>4, <1>5, <1>6, <1>7, <1>8, FS_CardinalityType
<1> QED BY <1>9 DEF More

\* A page that is kept leaves a checkpoint that fits.
LEMMA PageFits ==
  ASSUME NEW c, IsCatalog(c), NEW d, NEW r \in Ranks, Fits(c.pending[r]),
         NEW m \in ReportMessage, validate_inventory_report(m),
         PendingAfter(c, d, r, m.checkpoint)
  PROVE  Fits(d.pending[r])
<1> DEFINE cp == m.checkpoint
           p == pending_for(c, r, cp)
           grown == with_page(p, cp)
<1>1. /\ cp \in Checkpoint /\ cp.index \in PageIndex /\ cp.index \in Nat
      /\ cp.entries \in Image /\ cp.held_count \in Nat /\ cp.count \in Nat
      /\ cp.index < cp.count /\ cp.held_count <= Capacity
  BY ValidIndex DEF ReportMessage, Checkpoint, validate_inventory_report
<1>2. p \in Pending
  BY <1>1, WithPageType
<1>3. Cardinality(Listings(p.pages)) = p.entry_count
  <2>1. \/ p = c.pending[r]
        \/ p = [NoPending EXCEPT !.sequence = cp.sequence, !.cycle = cp.cycle,
                                 !.count = cp.count, !.held_count = cp.held_count]
    BY DEF pending_for
  <2>2. \/ p = c.pending[r]
        \/ p.pages = NoPending.pages /\ p.entry_count = NoPending.entry_count
           /\ p.received = {}
    BY <2>1 DEF NoPending
  <2> HIDE DEF p
  <2> QED BY <2>2, NoneFits DEF Fits
<1>4. \A i \in p.received : i < p.count
  <2>1. p = c.pending[r] \/ p.received = {}
    BY DEF pending_for, NoPending
  <2> HIDE DEF p
  <2> QED BY <2>1 DEF Fits
<1>5. /\ d.pending[r] = NoPending
      \/ /\ d.pending[r] = grown
         /\ cp.count = p.count /\ cp.held_count = p.held_count
         /\ grown.entry_count <= p.held_count
  BY DEF PendingAfter
<1> HIDE DEF p, cp
<1>6. /\ grown.received = p.received \cup {cp.index}
      /\ grown.pages = [p.pages EXCEPT ![cp.index] = cp.entries]
      /\ grown.entry_count = p.entry_count - Size(p.pages[cp.index]) + Size(cp.entries)
      /\ grown.count = p.count /\ grown.held_count = p.held_count
  BY <1>2 DEF with_page, Pending
<1>7. Cardinality(Listings(grown.pages)) = grown.entry_count
  BY <1>1, <1>2, <1>3, <1>6, ListingsCount DEF Pending
<1> HIDE DEF grown
<1>8. CASE d.pending[r] = NoPending
  BY <1>8, NoneFits
<1>9. CASE /\ d.pending[r] = grown
           /\ cp.count = p.count /\ cp.held_count = p.held_count
           /\ grown.entry_count <= p.held_count
  BY <1>1, <1>4, <1>6, <1>7, <1>9 DEF Fits
<1> QED BY <1>5, <1>8, <1>9

\* A report leaves every checkpoint under assembly fitting.
LEMMA ReportFits ==
  ASSUME NEW c, Sound(c), Bounded(c), \A q \in Ranks : Fits(c.pending[q]),
         NEW m \in ReportMessage, NEW d \in report_results(c, m)
  PROVE  \A q \in Ranks : Fits(d.pending[q])
<1> DEFINE r == m.rank
           a == Receiving(c, r, m.id)
<1>0. /\ r \in Ranks /\ m.id \in Identity /\ m.delta \in Delta
      /\ m.checkpoint \in Checkpoint
  BY DEF ReportMessage
<1>1. /\ Others(c, d, r)
      /\ \/ d = c
         \/ Conflicted(c, d, r)
         \/ /\ generation_disposition(c, r, m.id) \notin {"stale", "conflict"}
            /\ \/ d = discard(a, r)
               \/ /\ m.checkpoint.index \in PageIndex
                  /\ validate_inventory_report(m)
                  /\ \E x \in delta_results(a, r, m.delta) :
                       d \in checkpoint_results(x, r, m.checkpoint)
  BY ReportResults
<1>2. IsCatalog(c)
  BY DEF Sound
<1>3. CASE d = c
  BY <1>3
<1>4. ASSUME Fits(d.pending[r])
      PROVE  \A q \in Ranks : Fits(d.pending[q])
  BY <1>1, <1>4 DEF Others
<1>5. CASE Conflicted(c, d, r)
  <2>1. d.pending[r] = NoPending
    BY <1>0, <1>2, <1>5 DEF Conflicted, IsCatalog
  <2> QED BY <1>4, <2>1, NoneFits
<1>6. CASE /\ generation_disposition(c, r, m.id) \notin {"stale", "conflict"}
           /\ d = discard(a, r)
  <2>1. Sound(a)
    BY <1>0, <1>6, ReceivingLive
  <2>2. d.pending = [a.pending EXCEPT ![r] = NoPending]
    BY <1>0, <1>6, <2>1, DiscardDrops
  <2>3. a.pending \in [Ranks -> Pending]
    BY <2>1 DEF Sound, IsCatalog
  <2>4. d.pending[r] = NoPending
    BY <1>0, <2>2, <2>3
  <2> QED BY <1>4, <2>4, NoneFits
<1>7. CASE /\ generation_disposition(c, r, m.id) \notin {"stale", "conflict"}
           /\ m.checkpoint.index \in PageIndex
           /\ validate_inventory_report(m)
           /\ \E x \in delta_results(a, r, m.delta) :
                d \in checkpoint_results(x, r, m.checkpoint)
  <2>1. /\ Sound(a) /\ Bounded(a) /\ Live(a, r)
        /\ a = c \/ Afresh(c, a, r, m.id)
    BY <1>0, <1>7, ReceivingLive
  <2>2. Fits(a.pending[r])
    BY <1>0, <2>1, NoneFits DEF Afresh
  <2> HIDE DEF a
  <2>3. PICK x \in delta_results(a, r, m.delta) :
          d \in checkpoint_results(x, r, m.checkpoint)
    BY <1>7
  <2>4. /\ Steady(a, x, r)
        /\ x.pending = a.pending
    BY <1>0, <2>1, <2>3, DeltaResults DEF DeltaApplied, DeltaMissed, DeltaIdle
  <2>5. Sound(x) /\ Bounded(x) /\ Live(x, r) /\ IsCatalog(x)
    BY <2>1, <2>4 DEF Steady, Live, Sound
  <2>6. \/ d.pending[r] = NoPending
        \/ PendingAfter(x, d, r, m.checkpoint)
    BY <1>0, <1>7, <2>3, <2>5, CheckpointResults DEF PageKept, PageCompletes
  <2>7. Fits(d.pending[r])
    BY <1>0, <1>7, <2>2, <2>4, <2>5, <2>6, PageFits, NoneFits
  <2> QED BY <1>4, <2>7
<1> QED BY <1>1, <1>3, <1>5, <1>6, <1>7

--------------------------------------------------------------------------
(* The catalog under any packets.                                          *)

\* The inductive invariant.  IndexesAgree alone is not inductive: a count or
\* an index can be right only if a withdrawn rank is empty and typed.
CatalogInv ==
  /\ Sound(catalog) /\ Bounded(catalog)
  /\ \A r \in Ranks : Fits(catalog.pending[r])

\* A new QuorumCatalog satisfies the invariant: nothing is listed yet.
LEMMA InitInvariant == CatalogInit => CatalogInv
<1> SUFFICES ASSUME CatalogInit
             PROVE  CatalogInv
  OBVIOUS
<1>1. catalog = InitCatalog
  BY DEF CatalogInit
<1>2. IsCatalog(InitCatalog)
  BY NoneTypes
<1>3. InverseIndex(InitCatalog)
  BY DEF InverseIndex, InitCatalog, NoEntries
<1>4. Listed(InitCatalog) = {}
  BY DEF Listed, InitCatalog
<1>5. RecencyIndex(InitCatalog)
  BY <1>4 DEF RecencyIndex, InitCatalog
<1>6. WithdrawnEmpty(InitCatalog)
  BY DEF WithdrawnEmpty, InitCatalog
<1>7. CountFresh(InitCatalog)
  BY DEF CountFresh, InitCatalog
<1>8. Bounded(InitCatalog)
  BY <1>4, FS_EmptySet, ImagesAssumption DEF Bounded
<1>9. \A r \in Ranks : Fits(InitCatalog.pending[r])
  BY NoneFits DEF InitCatalog
<1> QED BY <1>1, <1>2, <1>3, <1>5, <1>6, <1>7, <1>8, <1>9 DEF CatalogInv, Sound

\* A lookup only moves an entry that is listed to the young end.
LEMMA LookupKeeps ==
  ASSUME CatalogInv, NEW candidates, longest(candidates)
  PROVE  CatalogInv'
<1> DEFINE c == catalog
           d == catalog'
<1>0. /\ Sound(c) /\ IsCatalog(c) /\ RecencyIndex(c) /\ Bounded(c)
      /\ \A r \in Ranks : Fits(c.pending[r])
  BY DEF CatalogInv, Sound
<1>1. PICK e \in Entries :
        /\ has_quorum(c, e)
        /\ d = [c EXCEPT !.recency = touch(c.recency, {e})]
  BY DEF longest, Quorate
<1>2. /\ d.recency = touch(c.recency, {e})
      /\ d.entry_ranks = c.entry_ranks /\ d.rank_entries = c.rank_entries
      /\ d.quorum_count = c.quorum_count /\ d.pending = c.pending
      /\ d.generation = c.generation /\ d.sequences = c.sequences
      /\ d.generation_history = c.generation_history
      /\ d.desynchronized = c.desynchronized
      /\ d.generation_conflicts = c.generation_conflicts
      /\ DOMAIN d = DOMAIN c
  BY <1>0, <1>1 DEF IsCatalog
<1> HIDE DEF c, d
<1>3. e \in Listed(c)
  BY <1>1, CatalogAssumption DEF has_quorum, Listed
<1>4. Listed(d) = Listed(c)
  BY <1>2 DEF Listed
<1>5. RecencyKeys(c.recency) = Listed(c)
  BY <1>0 DEF RecencyIndex, RecencyKeys, Listed
<1>6. RecencyIndex(d)
  BY <1>0, <1>2, <1>3, <1>4, <1>5 DEF RecencyIndex, touch, Forget
<1>7. IsCatalog(d)
  <2>1. d.recency \subseteq Entries \X Entries
    BY <1>4, <1>6 DEF RecencyIndex, Listed
  <2> QED BY <1>0, <1>2, <2>1 DEF IsCatalog
<1>8. InverseIndex(d) /\ WithdrawnEmpty(d) /\ CountFresh(d)
  BY <1>0, <1>2
     DEF Sound, InverseIndex, WithdrawnEmpty, CountFresh, Quorate, has_quorum
<1>9. Bounded(d)
  BY <1>0, <1>4 DEF Bounded
<1>10. \A r \in Ranks : Fits(d.pending[r])
  BY <1>0, <1>2
<1> QED BY <1>6, <1>7, <1>8, <1>9, <1>10 DEF CatalogInv, Sound, d

\* Filling the count cache stores the right count.
LEMMA CountKeeps ==
  ASSUME CatalogInv, read_quorum_count
  PROVE  CatalogInv'
<1> DEFINE c == catalog
           d == catalog'
           n == Cardinality(Quorate(catalog))
<1>0. /\ Sound(c) /\ IsCatalog(c) /\ Bounded(c)
      /\ \A r \in Ranks : Fits(c.pending[r])
  BY DEF CatalogInv, Sound
<1>1. n \in Int
  BY ImagesAssumption, FS_Subset, FS_CardinalityType DEF Quorate
<1>2. d = [c EXCEPT !.quorum_count = n]
  BY DEF read_quorum_count
<1>3. n = Cardinality(Quorate(c))
  OBVIOUS
<1> HIDE DEF c, d, n
<1>4. /\ d.recency = c.recency /\ d.quorum_count = n
      /\ d.entry_ranks = c.entry_ranks /\ d.rank_entries = c.rank_entries
      /\ d.pending = c.pending
      /\ d.generation = c.generation /\ d.sequences = c.sequences
      /\ d.generation_history = c.generation_history
      /\ d.desynchronized = c.desynchronized
      /\ d.generation_conflicts = c.generation_conflicts
      /\ DOMAIN d = DOMAIN c
  BY <1>0, <1>2 DEF IsCatalog
<1>5. IsCatalog(d)
  BY <1>0, <1>1, <1>4 DEF IsCatalog
<1>6. CountFresh(d)
  BY <1>3, <1>4 DEF CountFresh, Quorate, has_quorum
<1>7. InverseIndex(d) /\ WithdrawnEmpty(d)
  BY <1>0, <1>4 DEF Sound, InverseIndex, WithdrawnEmpty
<1>8. RecencyIndex(d) /\ Bounded(d)
  BY <1>0, <1>4 DEF Sound, RecencyIndex, Listed, Bounded
<1>9. \A r \in Ranks : Fits(d.pending[r])
  BY <1>0, <1>4
<1> QED BY <1>5, <1>6, <1>7, <1>8, <1>9 DEF CatalogInv, Sound, d

\* Every public method of QuorumCatalog preserves the invariant.
LEMMA NextInvariant == CatalogInv /\ [CatalogNext]_catalog => CatalogInv'
<1> SUFFICES ASSUME CatalogInv, [CatalogNext]_catalog
             PROVE  CatalogInv'
  OBVIOUS
<1>0. /\ Sound(catalog) /\ Bounded(catalog) /\ IsCatalog(catalog)
      /\ \A r \in Ranks : Fits(catalog.pending[r])
  BY DEF CatalogInv, Sound
<1>1. CASE Startup
  <2>1. PICK m \in StartupMessage : catalog' \in startup_results(catalog, m)
    BY <1>1, EnvironmentAssumption DEF Startup, apply_startup
  <2>2. /\ Sound(catalog') /\ Bounded(catalog') /\ Others(catalog, catalog', m.rank)
        /\ \/ catalog' = catalog
           \/ Conflicted(catalog, catalog', m.rank)
           \/ StartupAdopted(catalog, catalog', m)
    BY <1>0, <2>1, StartupResults
  <2>3. m.rank \in Ranks
    BY DEF StartupMessage
  <2>4. catalog'.pending[m.rank] \in {catalog.pending[m.rank], NoPending}
    BY <1>0, <2>2, <2>3 DEF Conflicted, StartupAdopted, Afresh, IsCatalog
  <2>5. \A r \in Ranks : Fits(catalog'.pending[r])
    BY <1>0, <2>2, <2>3, <2>4, NoneFits DEF Others
  <2> QED BY <2>2, <2>5 DEF CatalogInv
<1>2. CASE Report
  <2>1. PICK m \in ReportMessage : catalog' \in report_results(catalog, m)
    BY <1>2, EnvironmentAssumption DEF Report, apply_report
  <2> QED BY <1>0, <2>1, ReportResults, ReportFits DEF CatalogInv
<1>3. CASE Lookup
  BY <1>3, LookupKeeps DEF Lookup
<1>4. CASE read_quorum_count
  BY <1>4, CountKeeps
<1>5. CASE UNCHANGED catalog
  BY <1>5 DEF CatalogInv
<1> QED BY <1>1, <1>2, <1>3, <1>4, <1>5 DEF CatalogNext

\* The inductive invariant holds of every reachable catalog.
THEOREM Invariance == CatalogSpec => []CatalogInv
BY InitInvariant, NextInvariant, PTL DEF CatalogSpec

--------------------------------------------------------------------------
\* The catalog always has the types of its annotations.
THEOREM TypeCorrect == CatalogSpec => []CatalogTypeOK
<1>1. CatalogInv => CatalogTypeOK
  BY DEF CatalogInv, Sound, CatalogTypeOK
<1> QED BY <1>1, Invariance, PTL

\* Whatever packets arrive, _entry_ranks and _recency agree with
\* _rank_entries.
THEOREM IndexesAlwaysAgree == CatalogSpec => []IndexesAgree
<1>1. CatalogInv => IndexesAgree
  BY DEF CatalogInv, Sound, IndexesAgree
<1> QED BY <1>1, Invariance, PTL

\* Whatever packets arrive, the catalog never lists more than Capacity
\* entries between two calls.
THEOREM MemoryAlwaysBounded == CatalogSpec => []MemoryBounded
<1>1. CatalogInv => MemoryBounded
  BY DEF CatalogInv, Bounded, MemoryBounded
<1> QED BY <1>1, Invariance, PTL

\* The quorum_count cache is never stale.
THEOREM CountAlwaysFresh == CatalogSpec => []QuorumCountFresh
<1>1. CatalogInv => QuorumCountFresh
  BY DEF CatalogInv, Sound, QuorumCountFresh
<1> QED BY <1>1, Invariance, PTL

\* An entry has a quorum only while every rank is synchronized, identified
\* and undisputed: has_quorum need not look at _desynchronized.
THEOREM QuorumNeedsEveryRank == CatalogSpec => []QuorumOnlyWhenReady
<1>1. CatalogInv => QuorumOnlyWhenReady
  <2> SUFFICES ASSUME CatalogInv, NEW e \in Entries, has_quorum(catalog, e)
               PROVE  /\ catalog.desynchronized = {}
                      /\ catalog.generation_conflicts = {}
                      /\ \A r \in Ranks : catalog.generation[r] # NoIdentity
    BY DEF QuorumOnlyWhenReady
  <2>1. IsCatalog(catalog) /\ WithdrawnEmpty(catalog)
    BY DEF CatalogInv, Sound
  <2>2. \A r \in Ranks : catalog.rank_entries[r][e] # 0
    BY ImagesAssumption DEF has_quorum
  <2>3. \A r \in Ranks : r \notin catalog.desynchronized
    BY <2>1, <2>2 DEF WithdrawnEmpty, NoEntries
  <2> QED BY <2>1, <2>3 DEF WithdrawnEmpty, IsCatalog
<1> QED BY <1>1, Invariance, PTL

\* The counter of a checkpoint under assembly, which apply_report adjusts page
\* by page, is what its pages hold, within what it announced and the bound.
THEOREM PendingAlwaysBounded == CatalogSpec => []PendingBounded
<1>1. CatalogInv => PendingBounded
  BY DEF CatalogInv, Fits, Listings, PendingBounded
<1> QED BY <1>1, Invariance, PTL

\* What may happen to the process of a rank in one step.
Succession(c, d) ==
  \A r \in Ranks : c.generation[r] # NoIdentity =>
    \/ /\ d.generation[r] = c.generation[r]
       /\ r \in c.generation_conflicts => r \in d.generation_conflicts
    \/ d.generation[r].epoch > c.generation[r].epoch

\* A report or startup inventory of rank q leaves the other ranks' processes
\* alone, so that only q matters.
LEMMA SuccessionOf ==
  ASSUME NEW c, NEW d, NEW q \in Ranks, Others(c, d, q),
         c.generation[q] # NoIdentity =>
           \/ /\ d.generation[q] = c.generation[q]
              /\ q \in c.generation_conflicts => q \in d.generation_conflicts
           \/ d.generation[q].epoch > c.generation[q].epoch
  PROVE  Succession(c, d)
BY DEF Succession, Others

\* Only a process of a strictly greater epoch takes a rank over.
THEOREM OnlyNewerEverTakesOver == CatalogSpec => OnlyNewerTakesOver
<1>1. ASSUME CatalogInv, [CatalogNext]_catalog
      PROVE  Succession(catalog, catalog')
  <2> DEFINE c == catalog
             d == catalog'
  <2> SUFFICES Succession(c, d)
    OBVIOUS
  <2>0. Sound(c) /\ Bounded(c) /\ IsCatalog(c)
    BY <1>1 DEF CatalogInv, Sound
  <2>1. CASE Startup
    <3>1. PICK m \in StartupMessage : d \in startup_results(c, m)
      BY <2>1, EnvironmentAssumption DEF Startup, apply_startup
    <3>2. m.rank \in Ranks /\ m.id \in Identity
      BY DEF StartupMessage
    <3> HIDE DEF c, d
    <3>3. /\ Others(c, d, m.rank)
          /\ \/ d = c
             \/ Conflicted(c, d, m.rank)
             \/ StartupAdopted(c, d, m)
      BY <2>0, <3>1, StartupResults
    <3>4. StartupAdopted(c, d, m) => d.generation[m.rank] = m.id
      BY <2>0, <3>2 DEF StartupAdopted, Afresh, IsCatalog
    <3> QED BY <3>2, <3>3, <3>4, SuccessionOf
            DEF Conflicted, StartupAdopted, Afresh
  <2>2. CASE Report
    <3>1. PICK m \in ReportMessage : d \in report_results(c, m)
      BY <2>2, EnvironmentAssumption DEF Report, apply_report
    <3> DEFINE r == m.rank
               a == Receiving(c, r, m.id)
    <3>2. r \in Ranks /\ m.id \in Identity /\ m.delta \in Delta
          /\ m.checkpoint \in Checkpoint
      BY DEF ReportMessage
    <3> HIDE DEF c, d
    <3>3. /\ Others(c, d, r)
          /\ \/ d = c
             \/ Conflicted(c, d, r)
             \/ /\ generation_disposition(c, r, m.id) \notin {"stale", "conflict"}
                /\ \/ d = discard(a, r)
                   \/ /\ m.checkpoint.index \in PageIndex
                      /\ \E x \in delta_results(a, r, m.delta) :
                           d \in checkpoint_results(x, r, m.checkpoint)
      BY <2>0, <3>1, ReportResults
    <3>4. CASE d = c \/ Conflicted(c, d, r)
      BY <3>2, <3>3, <3>4, SuccessionOf DEF Conflicted
    <3>5. CASE /\ generation_disposition(c, r, m.id) \notin {"stale", "conflict"}
               /\ \/ d = discard(a, r)
                  \/ /\ m.checkpoint.index \in PageIndex
                     /\ \E x \in delta_results(a, r, m.delta) :
                          d \in checkpoint_results(x, r, m.checkpoint)
      <4>1. /\ Sound(a) /\ Bounded(a) /\ Live(a, r) /\ a.generation[r] = m.id
            /\ a = c \/ Afresh(c, a, r, m.id)
        BY <2>0, <3>2, <3>5, ReceivingLive
      <4> HIDE DEF r, a
      <4>2. d.generation = a.generation
            /\ d.generation_conflicts = a.generation_conflicts
        <5>1. CASE d = discard(a, r)
          BY <3>2, <4>1, <5>1, DiscardDrops
        <5>2. CASE /\ m.checkpoint.index \in PageIndex
                   /\ \E x \in delta_results(a, r, m.delta) :
                        d \in checkpoint_results(x, r, m.checkpoint)
          <6>1. PICK x \in delta_results(a, r, m.delta) :
                  d \in checkpoint_results(x, r, m.checkpoint)
            BY <5>2
          <6>2. Steady(a, x, r)
            BY <3>2, <4>1, <6>1, DeltaResults
          <6>3. Sound(x) /\ Bounded(x) /\ Live(x, r)
            BY <4>1, <6>2 DEF Steady, Live
          <6>4. Steady(x, d, r)
            BY <3>2, <5>2, <6>1, <6>3, CheckpointResults
          <6> QED BY <6>2, <6>4 DEF Steady
        <5> QED BY <3>5, <5>1, <5>2
      <4> QED BY <3>2, <3>3, <4>1, <4>2, SuccessionOf DEF Afresh
    <3> QED BY <3>3, <3>4, <3>5
  <2>3. CASE Lookup
    <3>1. PICK R : catalog' = [catalog EXCEPT !.recency = R]
      BY <2>3 DEF Lookup, longest
    <3>2. /\ d.generation = c.generation
          /\ d.generation_conflicts = c.generation_conflicts
      BY <2>0, <3>1 DEF IsCatalog
    <3> QED BY <3>2 DEF Succession
  <2>4. CASE read_quorum_count
    <3>1. /\ d.generation = c.generation
          /\ d.generation_conflicts = c.generation_conflicts
      BY <2>0, <2>4 DEF IsCatalog, read_quorum_count
    <3> QED BY <3>1 DEF Succession
  <2>5. CASE UNCHANGED catalog
    BY <2>5 DEF Succession
  <2> QED BY <1>1, <2>1, <2>2, <2>3, <2>4, <2>5 DEF CatalogNext
<1>2. CatalogInv /\ [CatalogNext]_catalog => [Succession(catalog, catalog')]_catalog
  BY <1>1
<1>3. [][Succession(catalog, catalog')]_catalog => OnlyNewerTakesOver
  BY DEF Succession, OnlyNewerTakesOver
<1> QED BY <1>2, <1>3, Invariance, PTL DEF CatalogSpec
==========================================================================
