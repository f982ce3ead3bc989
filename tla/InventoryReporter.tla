------------------------ MODULE InventoryReporter ------------------------
(***************************************************************************)
(* One worker's reporter, class InventoryReporter of quorum.py: what the   *)
(* worker holds, what it has told the scheduler so far, and the bounded    *)
(* report (one delta and one checkpoint page) it sends with every step.    *)
(*                                                                         *)
(* The object is one record.  The insertion order of the held dict is      *)
(* abstracted: replace() keeps and add() evicts an arbitrary entry where   *)
(* the code takes the newest or the oldest, so that they are operators to  *)
(* sets of records.  The checkpoint cycle, a counter that is only compared *)
(* for equality, is kept modulo CycleModulus.                              *)
(***************************************************************************)
EXTENDS InventoryImages, Sequences

CONSTANTS
  BatchSize,           \* batch_size of next_report: one page, one delta
  DeltaHistoryLimit,   \* maxlen of the deque of retained deltas
  CycleModulus         \* checkpoint cycles told apart

ASSUME ReporterAssumption ==
  /\ BatchSize \in 1..MaxReportEntries
  /\ DeltaHistoryLimit \in Nat \ {0}
  /\ CycleModulus \in Nat \ {0}

Reporter ==
  [held : Image, observed : Image, dirty : BOOLEAN, sequence : Nat,
   history : Seq(Delta), delta_cursor : Nat, checkpoint_items : Image,
   checkpoint_sequence : Nat, checkpoint_cycle : Nat,
   checkpoint_index : Nat]

NewReporter ==
  [held |-> NoEntries, observed |-> NoEntries, dirty |-> FALSE,
   sequence |-> 0, history |-> <<>>, delta_cursor |-> 0,
   checkpoint_items |-> NoEntries, checkpoint_sequence |-> 0,
   checkpoint_cycle |-> 0, checkpoint_index |-> 0]

\* The n smallest elements of S.
Smallest(n, S) == {e \in S : Cardinality({x \in S : x < e}) < n}

--------------------------------------------------------------------------
(* Mutations of the held catalog.                                          *)

\* replace: as many of the entries as fit.
replace(w, image) ==
  {[w EXCEPT !.held = Only(image, kept), !.dirty = TRUE] :
     kept \in {S \in SUBSET Keys(image) :
                 \/ S = Keys(image) /\ Cardinality(S) <= Capacity
                 \/ Size(image) > Capacity /\ Cardinality(S) = Capacity}}

\* add: the entry moves to the young end; the oldest makes room for it.
add(w, e, span) ==
  LET others == Keys(w.held) \ {e}
      kept == IF Cardinality(others) + 1 > Capacity
              THEN {others \ {victim} : victim \in others}
              ELSE {others}
  IN {[w EXCEPT !.held = [Only(w.held, S) EXCEPT ![e] = span],
                !.dirty = w.dirty \/ w.held[e] # span] : S \in kept}

remove(w, e) ==
  [w EXCEPT !.held = [w.held EXCEPT ![e] = 0],
            !.dirty = w.dirty \/ w.held[e] # 0]

\* startup: the handshake carries the whole held catalog.
startup(w) ==
  [w EXCEPT !.observed = w.held, !.dirty = FALSE,
            !.checkpoint_items = w.held,
            !.checkpoint_sequence = w.sequence]

--------------------------------------------------------------------------
(* next_report, in the order of its statements.                            *)

\* Advertised values that are no longer held, at once.
Obsolete(w) == {e \in Keys(w.observed) : w.held[e] # w.observed[e]}

\* New keys, as far as the batch has room after the removals.
Announced(w) ==
  Only(w.held, Smallest(BatchSize - Cardinality(Obsolete(w)),
                        Keys(w.held) \ Keys(w.observed)))

\* The delta that the report adds to the history.
NewDelta(w) ==
  IF Cardinality(Obsolete(w)) <= BatchSize
  THEN [sequence |-> w.sequence + 1, base_sequence |-> w.sequence,
        added |-> Announced(w), removed |-> Obsolete(w)]
  ELSE [sequence |-> w.sequence + 2, base_sequence |-> w.sequence + 1,
        added |-> NoEntries, removed |-> {}]

Retained(history, delta) ==
  Append(IF Len(history) < DeltaHistoryLimit THEN history ELSE Tail(history),
         delta)

\* The mutation branch: a delta within the batch, or a deliberate gap.
observe(w) ==
  LET fits == Cardinality(Obsolete(w)) <= BatchSize
      delta == NewDelta(w)
      history == IF fits THEN Retained(w.history, delta) ELSE <<delta>>
      observed == IF fits THEN Patched(w.observed, delta) ELSE w.held
  IN [w EXCEPT !.sequence = delta.sequence,
               !.observed = observed,
               !.history = history,
               !.delta_cursor = Len(history) - 1,
               !.checkpoint_items = observed,
               !.checkpoint_sequence = delta.sequence,
               !.checkpoint_cycle = (@ + 1) % CycleModulus,
               !.checkpoint_index = 0]

\* Mutant: a report is taken to announce everything.
noticed_clean(w) ==
  LET o == IF w.dirty /\ w.held # w.observed THEN observe(w) ELSE w
  IN [o EXCEPT !.dirty = FALSE]

noticed(w) ==
  LET o == IF w.dirty /\ w.held # w.observed THEN observe(w) ELSE w
  IN [o EXCEPT !.dirty = Size(o.held) # Size(o.observed)]

\* Pages of BatchSize entries, in key order; at least one.
PageCount(w) ==
  LET n == Size(w.checkpoint_items)
  IN IF n = 0 THEN 1 ELSE (n + BatchSize - 1) \div BatchSize

PageOf(items, index) ==
  Only(items, Smallest((index + 1) * BatchSize, Keys(items))
                \ Smallest(index * BatchSize, Keys(items)))

CurrentPage(w) ==
  [sequence |-> w.checkpoint_sequence, cycle |-> w.checkpoint_cycle,
   index |-> w.checkpoint_index, count |-> PageCount(w),
   held_count |-> Size(w.checkpoint_items),
   entries |-> PageOf(w.checkpoint_items, w.checkpoint_index)]

CurrentDelta(w) ==
  IF w.history = <<>> THEN NoDelta
  ELSE w.history[(w.delta_cursor % Len(w.history)) + 1]

\* Mutant: the last page is sent for ever.
advance_stays_on_last_page(w) ==
  [w EXCEPT !.checkpoint_index =
              IF w.checkpoint_index + 1 >= PageCount(w) THEN @ ELSE @ + 1,
            !.delta_cursor =
              IF w.history = <<>> THEN @ ELSE (@ + 1) % Len(w.history)]

\* The cursors after the report: the next page, the next retained delta.
advance(w) ==
  LET wrapped == w.checkpoint_index + 1 >= PageCount(w)
  IN [w EXCEPT !.checkpoint_index = IF wrapped THEN 0 ELSE @ + 1,
               !.checkpoint_cycle =
                  IF wrapped THEN (@ + 1) % CycleModulus ELSE @,
               !.delta_cursor =
                  IF w.history = <<>> THEN @ ELSE (@ + 1) % Len(w.history)]

\* next_report: the report is CurrentPage and CurrentDelta of noticed(w).
next_report(w) == advance(noticed(w))
==========================================================================
