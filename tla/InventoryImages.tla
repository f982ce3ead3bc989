------------------------- MODULE InventoryImages -------------------------
(***************************************************************************)
(* The data of the inventory protocol of quorum.py.                        *)
(*                                                                         *)
(* An inventory is a Python dict from an entry id (the digest of a token   *)
(* prefix) to the token span that the entry covers.  It is modelled as a   *)
(* total function in which 0 stands for "not a key of the dict": spans are *)
(* positive.  Entry ids are numbers because reports list them in sorted    *)
(* order; nothing else about them is used.                                 *)
(***************************************************************************)
EXTENDS Integers, FiniteSets

CONSTANTS
  Entries,          \* entry ids
  Spans,            \* token spans an entry may be recorded with
  Capacity,         \* inventory_capacity(max_bytes): records that fit in RAM
  MaxReportEntries  \* max_report_entries: bound on one page and one delta

ASSUME ImagesAssumption ==
  /\ Entries \subseteq Nat
  /\ IsFiniteSet(Entries)
  /\ Spans \subseteq Nat \ {0}
  /\ Capacity \in Nat \ {0}
  /\ MaxReportEntries \in Nat \ {0}

Image == [Entries -> Spans \cup {0}]

NoEntries == [e \in Entries |-> 0]

Keys(image) == {e \in Entries : image[e] # 0}

Size(image) == Cardinality(Keys(image))

\* Every pair of a is a pair of b: a is a sub-dictionary of b.
Within(a, b) == \A e \in Entries : a[e] \in {0, b[e]}

\* The pairs of image whose key is in S.
Only(image, S) == [e \in Entries |-> IF e \in S THEN image[e] ELSE 0]

\* One InventoryDelta, and the None that stands for no delta (a real delta
\* has a positive sequence).
Delta == [sequence : Nat, base_sequence : Int, added : Image,
          removed : SUBSET Entries]

NoDelta == [sequence |-> 0, base_sequence |-> 0, added |-> NoEntries,
            removed |-> {}]

\* The dict after the removals of a delta and then its additions.
Patched(image, delta) ==
  [e \in Entries |-> IF delta.added[e] # 0 THEN delta.added[e]
                     ELSE IF e \in delta.removed THEN 0
                     ELSE image[e]]
==========================================================================
