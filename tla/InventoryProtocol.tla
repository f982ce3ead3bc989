------------------------ MODULE InventoryProtocol ------------------------
(***************************************************************************)
(* Workers and scheduler together: every rank runs a sequence of worker    *)
(* processes (generations), each with a reporter, and the scheduler keeps  *)
(* one catalog.  A process publishes a startup inventory, then a report    *)
(* with every step.  Reports of one process arrive in order, may be lost   *)
(* or garbled, and reports and startup inventories of a dead process may   *)
(* arrive after those of its successor.                                    *)
(*                                                                         *)
(* images, seen and heard are history variables, read by no action.        *)
(***************************************************************************)
EXTENDS QuorumCatalog, InventoryReporter

CONSTANTS
  MaxGenerations,   \* processes started per rank
  MaxEpoch,         \* generation epochs
  MaxSequence,      \* reporter sequence numbers
  MaxInFlight,      \* reports under way per process
  MaxChanges,       \* mutations of held catalogs
  MaxFaults,        \* lost or garbled reports
  MaxRollbacks      \* restarts whose epoch does not exceed the last one's

ASSUME ProtocolAssumption ==
  /\ MaxGenerations \in Nat \ {0}
  /\ {MaxEpoch, MaxSequence, MaxInFlight, MaxChanges, MaxFaults,
      MaxRollbacks} \subseteq Nat

VARIABLES
  reporter,     \* reporter[r]: the reporter of r's running process
  process,      \* process[r]: number (UUID) of r's running process, 0: none
  epochs,       \* epochs[r][g]: generation epoch reserved by process g of r
  handshakes,   \* startup inventories published
  wire,         \* wire[r][g]: reports of process g of r under way, in order
  budget,       \* changes, faults and rollbacks so far
  images,       \* history: images[r][g][s], what g advertised at sequence s
  seen,         \* history: what r held when it sent the last packet applied
  heard         \* history: processes of r a packet came from

vars == <<catalog, reporter, process, epochs, handshakes, wire, budget,
          images, seen, heard>>

Generations == 1..MaxGenerations
Sequence == 0..MaxSequence

IdentityOf(r, g) == [uuid |-> g, epoch |-> epochs[r][g]]

Init ==
  /\ catalog = InitCatalog
  /\ reporter = [r \in Ranks |-> NewReporter]
  /\ process = [r \in Ranks |-> 0]
  /\ epochs = [r \in Ranks |-> [g \in Generations |-> 0]]
  /\ handshakes = {}
  /\ wire = [r \in Ranks |-> [g \in Generations |-> <<>>]]
  /\ budget = [changes |-> 0, faults |-> 0, rollbacks |-> 0]
  /\ images = [r \in Ranks |-> [g \in Generations |->
                 [s \in Sequence |-> NoEntries]]]
  /\ seen = [r \in Ranks |-> NoEntries]
  /\ heard = [r \in Ranks |-> {}]

--------------------------------------------------------------------------
(* Workers.                                                                *)

\* register_kv_caches: the process scans its store into a new reporter and
\* publishes the startup inventory.  Its epoch exceeds every earlier one,
\* unless the persistent counter was rolled back.
StartWorker(r) ==
  LET g == process[r] + 1
      last == IF process[r] = 0 THEN 0 ELSE epochs[r][process[r]]
  IN /\ g \in Generations
     /\ \E epoch \in 1..MaxEpoch, image \in Image :
          /\ epoch > last \/ budget.rollbacks < MaxRollbacks
          /\ \E w \in replace(NewReporter, image) :
               /\ reporter' = [reporter EXCEPT ![r] = startup(w)]
               /\ handshakes' = handshakes \cup
                    {[rank |-> r, identified |-> TRUE,
                      id |-> [uuid |-> g, epoch |-> epoch],
                      wellformed |-> TRUE, entries |-> w.held]}
               /\ images' = [images EXCEPT ![r][g][0] = w.held]
          /\ epochs' = [epochs EXCEPT ![r][g] = epoch]
          /\ budget' = [budget EXCEPT !.rollbacks =
                          IF epoch > last THEN @ ELSE @ + 1]
     /\ process' = [process EXCEPT ![r] = g]
     /\ UNCHANGED <<catalog, wire, seen, heard>>

\* A mutation of the running process' held catalog.
Change(r, w) ==
  /\ process[r] # 0
  /\ budget.changes < MaxChanges
  /\ reporter' = [reporter EXCEPT ![r] = w]
  /\ budget' = [budget EXCEPT !.changes = @ + 1]
  /\ UNCHANGED <<catalog, process, epochs, handshakes, wire, images, seen,
                 heard>>

Replace(r) ==
  \E image \in Image : \E w \in replace(reporter[r], image) : Change(r, w)

Add(r) ==
  \E e \in Entries, span \in Spans :
    \E w \in add(reporter[r], e, span) : Change(r, w)

Remove(r) == \E e \in Entries : Change(r, remove(reporter[r], e))

\* The worker runs, and the bounds allow another report.
CanSend(r) ==
  /\ process[r] # 0
  /\ Len(wire[r][process[r]]) < MaxInFlight
  /\ noticed(reporter[r]).sequence <= MaxSequence

\* get_kv_connector_stats: the worker's report for this step.
SendReport(r) ==
  LET g == process[r]
      w == noticed(reporter[r])
      report == [rank |-> r, identified |-> TRUE, id |-> IdentityOf(r, g),
                 wellformed |-> TRUE, checkpoint |-> CurrentPage(w),
                 delta |-> CurrentDelta(w)]
  IN /\ CanSend(r)
     /\ reporter' = [reporter EXCEPT ![r] = next_report(reporter[r])]
     /\ wire' = [wire EXCEPT ![r][g] =
                   Append(@, [report |-> report, held |-> w.held])]
     /\ images' = [images EXCEPT ![r][g][w.sequence] = w.observed]
     /\ UNCHANGED <<catalog, process, epochs, handshakes, budget, seen,
                    heard>>

--------------------------------------------------------------------------
(* Transport and scheduler.                                                *)

\* What the scheduler has been told about r, after a packet of process g
\* that carried what g held: nothing new if the packet was not g's to tell.
Record(r, g, held) ==
  /\ seen' = IF catalog'.generation[r].uuid = g
             THEN [seen EXCEPT ![r] = held] ELSE seen
  /\ heard' = [heard EXCEPT ![r] = @ \cup {g}]

\* _set_pp_aware_handshake_metadata, for one rank; possibly late or again.
Handshake ==
  \E m \in handshakes :
    /\ apply_startup(m)
    /\ seen' = IF catalog'.generation[m.rank] # catalog.generation[m.rank]
               THEN [seen EXCEPT ![m.rank] = m.entries] ELSE seen
    /\ heard' = [heard EXCEPT ![m.rank] = @ \cup {m.id.uuid}]
    /\ UNCHANGED <<reporter, process, epochs, handshakes, wire, budget,
                   images>>

\* update_connector_output applies the next report of process g.
Deliver(r, g) ==
  /\ wire[r][g] # <<>>
  /\ apply_report(Head(wire[r][g]).report)
  /\ Record(r, g, Head(wire[r][g]).held)
  /\ wire' = [wire EXCEPT ![r][g] = Tail(@)]
  /\ UNCHANGED <<reporter, process, epochs, handshakes, budget, images>>

\* A report reaches the scheduler with a field that does not validate.
Garble(r, g) ==
  /\ wire[r][g] # <<>>
  /\ budget.faults < MaxFaults
  /\ apply_report([Head(wire[r][g]).report EXCEPT !.wellformed = FALSE])
  /\ Record(r, g, Head(wire[r][g]).held)
  /\ wire' = [wire EXCEPT ![r][g] = Tail(@)]
  /\ budget' = [budget EXCEPT !.faults = @ + 1]
  /\ UNCHANGED <<reporter, process, epochs, handshakes, images>>

\* A step output is dropped before the scheduler sees it.
Lose(r, g) ==
  /\ wire[r][g] # <<>>
  /\ budget.faults < MaxFaults
  /\ wire' = [wire EXCEPT ![r][g] = Tail(@)]
  /\ budget' = [budget EXCEPT !.faults = @ + 1]
  /\ UNCHANGED <<catalog, reporter, process, epochs, handshakes, images,
                 seen, heard>>

Next ==
  \/ \E r \in Ranks : StartWorker(r)
  \/ \E r \in Ranks : Replace(r)
  \/ \E r \in Ranks : Add(r)
  \/ \E r \in Ranks : Remove(r)
  \/ \E r \in Ranks : SendReport(r)
  \/ Handshake
  \/ \E r \in Ranks, g \in Generations : Deliver(r, g)
  \/ \E r \in Ranks, g \in Generations : Garble(r, g)
  \/ \E r \in Ranks, g \in Generations : Lose(r, g)

Spec == Init /\ [][Next]_vars

\* vLLM steps the worker while it runs and hands every step output to the
\* scheduler.  This is weak fairness of SendReport and of Deliver, with their
\* guards in the place of ENABLED: nothing else can disable them.
Fairness ==
  /\ \A r \in Ranks : []<>~CanSend(r) \/ []<><<SendReport(r)>>_vars
  /\ \A r \in Ranks, g \in Generations :
       []<>(wire[r][g] = <<>>) \/ []<><<Deliver(r, g)>>_vars

FairSpec == Spec /\ Fairness

--------------------------------------------------------------------------
Packet == [report : ReportMessage, held : Image]

\* Every component keeps its type.
TypeOK ==
  /\ IsCatalog(catalog)
  /\ reporter \in [Ranks -> Reporter]
  /\ process \in [Ranks -> 0..MaxGenerations]
  /\ epochs \in [Ranks -> [Generations -> Nat]]
  /\ handshakes \subseteq StartupMessage
  /\ wire \in [Ranks -> [Generations -> Seq(Packet)]]
  /\ budget \in [changes : Nat, faults : Nat, rollbacks : Nat]
  /\ images \in [Ranks -> [Generations -> [Sequence -> Image]]]
  /\ seen \in [Ranks -> Image]
  /\ heard \in [Ranks -> SUBSET Generations]

\* The dirty flag, which next_report recomputes from two lengths alone, never
\* hides a mutation that no report has announced yet.
DirtyIsComplete ==
  \A r \in Ranks : ~reporter[r].dirty => reporter[r].held = reporter[r].observed

\* What the catalog lists for a rank is what the rank held when it sent the
\* last packet that the scheduler applied, or less: no lost delta, replayed
\* delta, old checkpoint page, gap or restart leaves an entry behind that
\* the worker has since withdrawn.
Fresh == \A r \in Ranks : Within(catalog.rank_entries[r], seen[r])

\* An entry has a quorum at a span only if every rank held it with that span
\* when it last reported.
QuorumIsHeld ==
  \A e \in Entries : has_quorum(catalog, e) =>
    \A r, s \in Ranks : seen[r][e] # 0 /\ seen[r][e] = seen[s][e]

\* A rank's image comes from the one process whose epoch exceeds that of
\* every other process the scheduler has heard of, however late, lost or
\* repeated their packets are and even if an epoch did not grow: two
\* processes that cannot be ordered leave the rank withdrawn.
NoGhostProcess ==
  \A r \in Ranks : catalog.rank_entries[r] # NoEntries =>
    LET owner == catalog.generation[r].uuid
    IN \A g \in heard[r] \ {owner} : epochs[r][g] < epochs[r][owner]

\* A withdrawn rank comes back only with a whole image of one moment of its
\* process: every page of one checkpoint, or the startup inventory, and the
\* bound pushes out other ranks' entries first.
ReadmittedWhole ==
  [][\A r \in catalog.desynchronized \ catalog'.desynchronized :
       catalog'.rank_entries[r] =
         images[r][catalog'.generation[r].uuid][catalog'.sequences[r]]]_vars

\* Once mutations, restarts and faults are over, every rank's image becomes
\* what its worker holds and stays so, unless its processes cannot be
\* ordered.
EventuallyInSync ==
  <>[](\A r \in Ranks : \/ r \in catalog.generation_conflicts
                        \/ process[r] = 0
                        \/ catalog.rank_entries[r] = reporter[r].held)
==========================================================================
