---------------------------- MODULE MCCatalog ----------------------------
(* Packets for the catalog: two ranks, three entries in a catalog of two,  *)
(* three process identities of which two collide, deltas and pages that    *)
(* fit together in some orders and not in others, and malformed packets.   *)
EXTENDS CatalogEnvironment, TLC

Of(f) == f @@ NoEntries

MCImages == {NoEntries, Of(1 :> 1), Of(1 :> 2), Of(1 :> 1 @@ 2 :> 1), Of(3 :> 1)}

MCIdentities ==
  {[uuid |-> 1, epoch |-> 1], [uuid |-> 2, epoch |-> 1],
   [uuid |-> 3, epoch |-> 2]}

First == [uuid |-> 1, epoch |-> 1]

MCStartups ==
  [rank : {0}, identified : {TRUE}, id : MCIdentities,
   wellformed : BOOLEAN, entries : MCImages \ {Of(1 :> 2)}]
  \cup
  [rank : {1}, identified : {TRUE}, id : {First},
   wellformed : {TRUE}, entries : MCImages \ {NoEntries}]

Page(sequence, index, count, held_count, entries) ==
  [sequence |-> sequence, cycle |-> 0, index |-> index, count |-> count,
   held_count |-> held_count, entries |-> entries]

MCPages ==
  {Page(1, 0, 1, 1, Of(1 :> 2)), Page(2, 0, 1, 1, Of(3 :> 1)),
   Page(0, 0, 1, 2, Of(1 :> 1)), Page(1, 0, 2, 2, Of(1 :> 1)),
   Page(1, 1, 2, 2, Of(2 :> 1)), Page(1, 1, 2, 2, Of(1 :> 1 @@ 2 :> 1)), Page(1, 2, 3, 2, NoEntries)}

MCDeltas ==
  {NoDelta,
   [sequence |-> 1, base_sequence |-> 0, added |-> Of(2 :> 1),
    removed |-> {}],
   [sequence |-> 2, base_sequence |-> 1, added |-> NoEntries,
    removed |-> {1}]}

MCReports ==
  [rank : {0}, identified : {TRUE}, id : MCIdentities,
   wellformed : {TRUE}, checkpoint : MCPages, delta : MCDeltas]
  \cup
  [rank : {1}, identified : {TRUE}, id : {First}, wellformed : {TRUE},
   checkpoint : {Page(1, 0, 1, 1, Of(1 :> 2)), Page(2, 0, 1, 1, Of(3 :> 1))},
   delta : {NoDelta}]
  \cup
  [rank : {0}, identified : BOOLEAN, id : {[uuid |-> 3, epoch |-> 2]},
   wellformed : {FALSE}, checkpoint : {Page(0, 0, 1, 0, NoEntries)},
   delta : {NoDelta}]

MCCandidates == {{<<1, 1>>, <<1, 2>>}, {<<1, 1>>, <<2, 1>>}}
==========================================================================
