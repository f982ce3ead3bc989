---------------------------- MODULE RankProofs ----------------------------
(***************************************************************************)
(* Theorems about what a rank keeps from one process to the next, for any  *)
(* base of the epochs, any clock, any events and any configurations: the   *)
(* reservation of epochs by itself, the same inside the life of a rank,    *)
(* the counted events, the layouts of worker, scheduler and directory, and *)
(* the bytes that files keep and a restore puts back.                      *)
(***************************************************************************)
EXTENDS RankState, FiniteSetTheorems, SequenceTheorems, WellFoundedInduction, TLAPS

---------------------------------------------------------------------------
(* The reservation of epochs.                                              *)

\* An epoch of this implementation that was advertised is recorded for good:
\* the sentry is durable, and no state that a power loss can bring back is
\* below it, unless the state file is gone.
Recorded ==
  advertised >= Base =>
    /\ sentries = {"present"}
    /\ \A x \in states : x = 0 \/ x >= advertised

\* The epoch being reserved is newer, and at each step as much of it is
\* durable as the code relies on.
Reserving ==
  /\ op.step # "idle" => op.epoch >= Base /\ op.epoch > advertised
  /\ op.step # "idle" /\ op.required = "present" => sentry = "present"
  /\ op.step \in {"sync", "sentry", "sync_sentry", "return"} =>
       state \in {0, op.epoch}
  /\ op.step \in {"sentry", "sync_sentry", "return"} =>
       states \subseteq {0, op.epoch}
  /\ op.step = "sync_sentry" => sentry = "present"
  /\ op.step = "return" => sentries = {"present"}

\* While the state has not been deleted, no power loss leaves a sentry alone:
\* the state is durable before the sentry is written.
SentryLast ==
  custody = "kept" =>
    /\ "present" \in sentries => 0 \notin states
    /\ op.step \in {"sync", "sentry", "sync_sentry", "return"} =>
         state = op.epoch
    /\ op.step \in {"sentry", "sync_sentry", "return"} => 0 \notin states

IInv == TypeOK /\ Recorded /\ Reserving /\ SentryLast

\* The next epoch is one of this implementation, above the last one, and
\* within the 63 bits.
LEMMA NextEpochGrows ==
  ASSUME NEW previous \in 0 .. MaxEpoch - 1,
         NEW now \in 1 .. MaxEpoch - Base
  PROVE  /\ next_epoch(previous, now) \in Base .. MaxEpoch
         /\ next_epoch(previous, now) > previous
  BY EpochAssumption DEF next_epoch, Larger, MaxEpoch

\* A root that was never used, or was used by the older implementation.
LEMMA InitHolds == Init => IInv
  BY EpochAssumption DEF Init, IInv, TypeOK, Recorded, Reserving, SentryLast,
                         Op, NoOp, MaxEpoch

\* Every step, every failure and every loss keeps the invariant.
LEMMA NextKeeps == IInv /\ [Next]_vars => IInv'
<1> SUFFICES ASSUME IInv, [Next]_vars
             PROVE  IInv'
  OBVIOUS
<1>a. Base \in Nat /\ Base > 0 /\ MaxEpoch \in Nat /\ Clocks \subseteq Nat
  BY EpochAssumption DEF MaxEpoch
<1> USE <1>a DEF IInv, TypeOK, Recorded, Reserving, SentryLast, Op, NoOp, At
<1>1. CASE \E now \in Clocks : Begin(now)
  <2>1. PICK now \in Clocks : Begin(now)
    BY <1>1
  <2>2. state \in 0 .. MaxEpoch - 1 /\ now \in 1 .. MaxEpoch - Base
    BY <2>1 DEF Begin
  <2>3. /\ next_epoch(state, now) \in Base .. MaxEpoch
        /\ next_epoch(state, now) > state
    BY <2>2, NextEpochGrows
  <2>4. advertised >= Base => state >= advertised
    BY <2>1 DEF Begin
  <2>5. next_epoch(state, now) > advertised
    BY <2>3, <2>4
  <2> QED BY <2>1, <2>3, <2>5 DEF Begin
<1>2. CASE Replace
  BY <1>2 DEF Replace
<1>3. CASE Sync
  BY <1>3 DEF Sync, SyncNames
<1>4. CASE WriteSentry
  BY <1>4 DEF WriteSentry
<1>5. CASE SyncSentry
  BY <1>5 DEF SyncSentry, SyncNames
<1>6. CASE Return
  BY <1>6 DEF Return
<1>7. CASE Abandon
  BY <1>7 DEF Abandon
<1>8. CASE PowerLoss
  BY <1>8 DEF PowerLoss
<1>9. CASE LoseState
  BY <1>9 DEF LoseState
<1>10. CASE SyncByJournal
  BY <1>10 DEF SyncByJournal, SyncNames
<1>11. CASE UNCHANGED vars
  BY <1>11 DEF vars
<1> QED BY <1>1, <1>2, <1>3, <1>4, <1>5, <1>6, <1>7, <1>8, <1>9, <1>10, <1>11
        DEF Next

\* No reservation produces an epoch beyond the 63 bits, or a state that is
\* not one.
THEOREM TypeCorrect == Spec => []TypeOK
<1>1. IInv => TypeOK
  BY DEF IInv
<1> QED BY <1>1, InitHolds, NextKeeps, PTL DEF Spec

\* Whatever the clock says and whatever fails, a process gets an epoch above
\* all earlier ones, or none.
THEOREM AlwaysNewer == Spec => []StrictlyNewer
<1>1. IInv => StrictlyNewer
  BY DEF IInv, Reserving, StrictlyNewer, At
<1> QED BY <1>1, InitHolds, NextKeeps, PTL DEF Spec

\* As long as nobody deletes the state file, no crash, failure or power loss
\* makes a later start impossible.
THEOREM NeverLocksItselfOut == Spec => []NeverWedged
<1>1. IInv => NeverWedged
  BY DEF IInv, SentryLast, TypeOK, NeverWedged
<1> QED BY <1>1, InitHolds, NextKeeps, PTL DEF Spec

---------------------------------------------------------------------------
(* The reservation in the life of a rank.                                  *)

\* Every step of the rank is a step of the reservation or leaves it alone: the
\* sync of the journal's directory, the fatal exit and the power loss included.
LEMMA StepsOfTheEpoch == [RankNext]_allVars => [Next]_vars
<1> SUFFICES ASSUME [RankNext]_allVars
             PROVE  [Next]_vars
  OBVIOUS
<1>1. CASE \E config, other \in DOMAIN Configs : Boot(config, other)
  BY <1>1 DEF Boot, Next
<1>2. CASE Reserve
  BY <1>2 DEF Reserve, Next
<1>3. CASE ReserveSync
  BY <1>3 DEF ReserveSync, Next
<1>4. CASE Reserved
  BY <1>4 DEF Reserved, Next
<1>5. CASE BootFails \/ Killed
  BY <1>5 DEF BootFails, Killed, AbandonReservation, Next
<1>6. CASE Handshake \/ HandshakeFails
  BY <1>6 DEF Handshake, HandshakeFails
<1>7. CASE \E plan \in Plan : Save(plan) \/ Load(plan)
  BY <1>7, Zenon DEF Save, Load
<1>8. CASE RestoreFails \/ CountFailure \/ Exit
  BY <1>8 DEF RestoreFails, CountFailure, Exit
<1>9. CASE CountQuarantine \/ CountingStep \/ ExportTotals
  BY <1>9 DEF CountQuarantine, CountingStep, ExportTotals
<1>10. CASE CountingSync
  BY <1>10 DEF CountingSync, Next
<1>11. CASE PowerGoes
  BY <1>11 DEF PowerGoes, Next
<1>12. CASE Tampering
  BY <1>12 DEF Tampering, Next
<1>13. CASE UNCHANGED allVars
  BY <1>13 DEF allVars
<1> QED BY <1>1, <1>2, <1>3, <1>4, <1>5, <1>6, <1>7, <1>8, <1>9, <1>10, <1>11,
           <1>12, <1>13 DEF RankNext

\* The life of a rank implements the reservation of epochs, for any
\* configurations, spans, events and bounds.
THEOREM RankReserves == RankSpec => Spec
<1>1. RankInit => Init
  BY DEF RankInit
<1> QED BY <1>1, StepsOfTheEpoch, PTL DEF RankSpec, Spec

\* No process of a rank gets an epoch that is not above those of all its
\* predecessors (reserve_inventory_generation_epoch).
THEOREM RankAlwaysNewer == RankSpec => []StrictlyNewer
  BY RankReserves, AlwaysNewer, PTL

\* No crash, failure or power loss in the life of a rank makes a later start
\* impossible.
THEOREM RankNeverLocksItselfOut == RankSpec => []NeverWedged
  BY RankReserves, NeverLocksItselfOut, PTL
---------------------------------------------------------------------------
(* The event journal.                                                      *)

Counts == [Events -> Nat]

\* The count that an increment in progress has added to the totals.
Pending(e) == IF ~Idle /\ increment.event = e THEN 1 ELSE 0

JournalTypeOK ==
  /\ totals \in Counts /\ cursor \in Counts
  /\ journals \subseteq Counts /\ journal \in journals
  /\ counted \in Counts /\ mishaps \in Counts
  /\ Idle \/ increment \in [step : {"replace", "sync"}, event : Events]

\* What the file may be counts every increment that returned, and none that was
\* not at least begun.
FileKept ==
  \A e \in Events : \A j \in journals : Plausible(e, j[e])

\* So does the memory of a process, even if the increment in progress fails; and
\* that is more than the process has exported.
MemoryKept ==
  phase # "down" =>
    \A e \in Events :
      /\ counted[e] + Pending(e) <= totals[e]
      /\ totals[e] <= counted[e] + mishaps[e] + Pending(e)
      /\ cursor[e] + Pending(e) <= totals[e]

\* A sync makes the very totals durable that the process has in memory; without a
\* process there is no increment.
Renamed ==
  /\ increment.step = "sync" => journal = totals
  /\ phase = "down" => Idle /\ cursor = None

JInv == JournalTypeOK /\ FileKept /\ MemoryKept /\ Renamed

\* An increment in progress is not the record that stands for none.
LEMMA NoIncrementIsNone == NoIncrement.step = "none"
  BY DEF NoIncrement

LEMMA JournalBegins == RankInit => JInv
  BY NoIncrementIsNone
  DEF RankInit, JournalInit, JInv, JournalTypeOK, FileKept, MemoryKept, Renamed,
      Plausible, Counts, None, Idle

\* The process ends, with or without the power: whoever was counting has a
\* mishap, and one of the files that were possible remains.
LEMMA EndKeeps ==
  ASSUME JInv, Down, DropMemory, journal' \in journals,
         journals' \subseteq journals, journal' \in journals'
  PROVE  JInv'
<1> USE NoIncrementIsNone DEF JInv, Down, DropMemory
<1>1. Idle' /\ counted' = counted /\ totals' = None /\ cursor' = None
  BY DEF Idle
<1>2. mishaps' \in Counts /\ \A e \in Events : mishaps[e] + Pending(e) = mishaps'[e]
  BY DEF JournalTypeOK, Counts, Mishap, Pending
<1>3. JournalTypeOK'
  BY <1>1, <1>2 DEF JournalTypeOK, Counts, None
<1>4. FileKept'
  BY <1>1, <1>2 DEF FileKept, Plausible, Pending, JournalTypeOK, Counts
<1>5. MemoryKept' /\ Renamed'
  BY <1>1, <1>2 DEF MemoryKept, Renamed, Idle
<1> QED BY <1>3, <1>4, <1>5

\* Steps that leave the journal alone, or sync its directory.
LEMMA OtherKeeps ==
  ASSUME JInv, phase' = "down" <=> phase = "down",
         UNCHANGED <<totals, journal, increment, cursor, counted, mishaps>>,
         journals' \in {journals, {journal}}
  PROVE  JInv'
  BY DEF JInv, JournalTypeOK, FileKept, MemoryKept, Renamed, Plausible, Pending, Idle

\* A process reads what its predecessors left.
LEMMA LoadKeeps ==
  ASSUME JInv, phase = "down", phase' # "down", LoadJournal
  PROVE  JInv'
<1> USE NoIncrementIsNone DEF JInv
<1>1. Idle /\ Idle' /\ counted' = counted /\ mishaps' = mishaps /\ totals' = journal
      /\ cursor' = None /\ journal' = journal /\ journals' \in {journals, {journal}}
  BY DEF LoadJournal, CleanupTemporaries, Renamed, Idle
<1>2. \A e \in Events : counted[e] <= journal[e] /\ journal[e] <= counted[e] + mishaps[e]
  BY <1>1 DEF JournalTypeOK, FileKept, Plausible, Counts
<1>3. JournalTypeOK'
  BY <1>1 DEF JournalTypeOK, Counts, None
<1>4. FileKept'
  BY <1>1 DEF JournalTypeOK, FileKept, Plausible
<1>5. MemoryKept'
  BY <1>1, <1>2 DEF MemoryKept, Pending, JournalTypeOK, Counts, None
<1>6. Renamed'
  BY <1>1 DEF Renamed, Idle
<1> QED BY <1>3, <1>4, <1>5, <1>6

\* An increment begins.
LEMMA BeginKeeps ==
  ASSUME JInv, phase # "down", phase' # "down", NEW e \in Events, BeginIncrement(e)
  PROVE  JInv'
<1> USE NoIncrementIsNone DEF JInv, BeginIncrement
<1>1. Idle /\ ~Idle' /\ increment' = [step |-> "replace", event |-> e]
  BY DEF Idle
<1>2. totals' \in Counts /\ \A x \in Events : totals'[x] = totals[x] + Pending(x)'
  BY <1>1 DEF JournalTypeOK, Counts, Pending
<1>3. JournalTypeOK'
  BY <1>1, <1>2 DEF JournalTypeOK
<1>4. FileKept'
  BY <1>1 DEF JournalTypeOK, FileKept, Plausible, Counts
<1>5. MemoryKept'
  BY <1>1, <1>2 DEF MemoryKept, Pending, JournalTypeOK, Counts
<1>6. Renamed'
  BY <1>1 DEF Renamed
<1> QED BY <1>3, <1>4, <1>5, <1>6

\* Its file is renamed into place.
LEMMA ReplaceKeeps ==
  ASSUME JInv, phase # "down", phase' # "down", ReplaceJournal
  PROVE  JInv'
<1> USE NoIncrementIsNone DEF JInv, ReplaceJournal
<1>1. ~Idle /\ ~Idle' /\ increment' = [step |-> "sync", event |-> increment.event]
  BY DEF Idle, JournalTypeOK
<1>2. \A x \in Events : Pending(x)' = Pending(x)
  BY <1>1 DEF Pending
<1>3. JournalTypeOK'
  BY <1>1 DEF JournalTypeOK, Idle
<1>4. FileKept'
  BY <1>1, <1>2 DEF JournalTypeOK, FileKept, MemoryKept, Plausible, Counts, Pending
<1>5. MemoryKept'
  BY <1>2 DEF MemoryKept
<1>6. Renamed'
  BY <1>1 DEF Renamed
<1> QED BY <1>3, <1>4, <1>5, <1>6

\* The directory is synced, and the increment returns.
LEMMA SyncKeeps ==
  ASSUME JInv, phase # "down", phase' # "down", SyncJournal
  PROVE  JInv'
<1> USE NoIncrementIsNone DEF JInv, SyncJournal
<1>1. ~Idle /\ Idle' /\ increment.event \in Events /\ journal = totals
  BY DEF Idle, JournalTypeOK, Renamed
<1>2. counted' \in Counts /\ \A x \in Events : counted'[x] = counted[x] + Pending(x)
  BY <1>1 DEF JournalTypeOK, Counts, Pending
<1>3. JournalTypeOK'
  BY <1>1, <1>2 DEF JournalTypeOK
<1>4. FileKept'
  BY <1>1, <1>2 DEF JournalTypeOK, FileKept, MemoryKept, Plausible, Counts, Pending
<1>5. MemoryKept'
  BY <1>1, <1>2 DEF MemoryKept, Pending, JournalTypeOK, Counts
<1>6. Renamed'
  BY <1>1 DEF Renamed, Idle
<1> QED BY <1>3, <1>4, <1>5, <1>6

\* The increment raises, and the memory takes its count back.
LEMMA FailureKeeps ==
  ASSUME JInv, phase # "down", phase' # "down", IncrementFails
  PROVE  JInv'
<1> USE NoIncrementIsNone DEF JInv, IncrementFails, Mishap
<1>1. ~Idle /\ Idle' /\ increment.event \in Events
  BY DEF Idle, JournalTypeOK
<1>2. /\ totals' \in Counts /\ \A x \in Events : totals[x] = totals'[x] + Pending(x)
      /\ mishaps' \in Counts /\ \A x \in Events : mishaps'[x] = mishaps[x] + Pending(x)
  BY <1>1 DEF JournalTypeOK, MemoryKept, Counts, Pending
<1>3. JournalTypeOK'
  BY <1>1, <1>2 DEF JournalTypeOK
<1>4. FileKept'
  BY <1>1, <1>2 DEF JournalTypeOK, FileKept, Plausible, Counts, Pending
<1>5. MemoryKept'
  BY <1>1, <1>2 DEF MemoryKept, Pending, JournalTypeOK, Counts
<1>6. Renamed'
  BY <1>1 DEF Renamed, Idle
<1> QED BY <1>3, <1>4, <1>5, <1>6

\* Every step of the rank's life keeps what the journal knows.
LEMMA RankKeepsJournal == JInv /\ [RankNext]_allVars => JInv'
<1> SUFFICES ASSUME JInv, [RankNext]_allVars
             PROVE  JInv'
  OBVIOUS
<1>0. ~Idle => phase # "down"
  BY DEF JInv, Renamed
<1> USE DEF journalVars, rankVars
<1>1. CASE \E config, other \in DOMAIN Configs : Boot(config, other)
  BY <1>1, LoadKeeps DEF Boot
<1>2. CASE Reserve \/ Reserved
  BY <1>2, OtherKeeps DEF Reserve, Reserved
<1>3. CASE ReserveSync
  BY <1>3, OtherKeeps DEF ReserveSync
<1>4. CASE BootFails \/ HandshakeFails \/ Exit \/ Killed
  <2>1. Down /\ JournalCrash
    BY <1>4 DEF BootFails, HandshakeFails, Exit, Killed
  <2> QED BY <2>1, EndKeeps DEF JournalCrash, JInv, JournalTypeOK
<1>5. CASE Handshake \/ RestoreFails
  BY <1>5, OtherKeeps DEF Handshake, RestoreFails
<1>6. CASE \E plan \in Plan : Save(plan) \/ Load(plan)
  <2>1. /\ UNCHANGED <<totals, journal, journals, increment, cursor, counted, mishaps>>
        /\ UNCHANGED phase
    BY <1>6, Zenon DEF Save, Load
  <2> QED BY <2>1, OtherKeeps
<1>7. CASE CountFailure
  BY <1>7, BeginKeeps, RankAssumption DEF CountFailure
<1>8. CASE CountQuarantine
  BY <1>8, BeginKeeps DEF CountQuarantine
<1>9. CASE CountingStep
  <2>1. ~Idle /\ phase' = phase
    BY <1>9, NoIncrementIsNone DEF CountingStep, ReplaceJournal, IncrementFails, Idle
  <2> QED BY <1>9, <1>0, <2>1, ReplaceKeeps, FailureKeeps DEF CountingStep
<1>10. CASE CountingSync
  <2>1. ~Idle /\ phase' = phase
    BY <1>10, NoIncrementIsNone DEF CountingSync, SyncJournal, Idle
  <2> QED BY <1>10, <1>0, <2>1, SyncKeeps DEF CountingSync
<1>11. CASE ExportTotals
  BY <1>11 DEF ExportTotals, Export, JInv, JournalTypeOK, FileKept, MemoryKept, Renamed,
               Plausible, Pending, Idle, Counts
<1>12. CASE PowerGoes
  BY <1>12, EndKeeps DEF PowerGoes, JournalPowerLoss
<1>13. CASE Tampering
  BY <1>13, OtherKeeps DEF Tampering
<1>14. CASE UNCHANGED allVars
  BY <1>14, OtherKeeps DEF allVars
<1> QED BY <1>1, <1>2, <1>3, <1>4, <1>5, <1>6, <1>7, <1>8, <1>9, <1>10, <1>11,
           <1>12, <1>13, <1>14 DEF RankNext

\* For any events and any number of failures, crashes and power losses, no
\* increment of the journal that returned is lost and none is counted twice, and
\* an exported total never moves backwards (event_journal.py, _refresh_worker_metrics).
THEOREM EventsAlwaysKept == RankSpec => []EventsKept
<1>1. JInv => EventsKept
  BY DEF JInv, JournalTypeOK, FileKept, MemoryKept, Renamed, EventsKept, Pending,
         Counts, None
<1> QED BY <1>1, JournalBegins, RankKeepsJournal, PTL DEF RankSpec

---------------------------------------------------------------------------
(* Layouts.                                                                *)

\* The worker and the scheduler of a running process have layouts that were
\* accepted, the worker's is the one the directory is bound to and has the
\* semantics it is named after, and once the handshake is over the two agree on
\* what they must share.
Bound ==
  /\ phase # "down" =>
       /\ worker \in DOMAIN Layouts /\ scheduler \in DOMAIN Layouts
       /\ ValidLayout(Layouts[worker])
       /\ binding # NoConfig
       /\ digest(Layouts[binding]) = digest(Layouts[worker])
       /\ logical_digest(Layouts[worker]) = logical_digest(Layouts[root])
  /\ phase \notin {"down", "epoch", "handshake"} =>
       CoordinationDigest(worker) = CoordinationDigest(scheduler)

\* The positions of a file in a layout.
Positions(config, name) == {place[1] : place \in PlacesOf[config][name]}

\* A directory without a binding has no files; the files of one that is bound
\* have the positions that this layout gives them, whoever wrote them.
FilesFit ==
  /\ binding # NoConfig => binding \in DOMAIN Layouts
  /\ \A name \in FileNames : files[name] # <<>> =>
       binding # NoConfig /\ DOMAIN files[name] = Positions(binding, name)

\* A worker that is up restores files of exactly the length that its own layout
\* expects.
LengthsAgree ==
  phase = "up" =>
    \A name \in FileNames : files[name] # <<>> =>
      DOMAIN files[name] = Positions(worker, name)

\* A worker that is up does not refuse the pages of a plan of its scheduler, and
\* picks the same ones, whatever layers each of them has.
PagesAgree ==
  phase = "up" =>
    \A plan \in Planned[scheduler] :
      LET tables == Tables(scheduler, plan) IN
      /\ plan.span % ChunkTokens(Layouts[worker]) = 0
      /\ Selectable(Layouts[worker], tables, plan.span)
      /\ select_physical_pages(Layouts[worker], tables, plan.span) =
           select_physical_pages(Layouts[scheduler], tables, plan.span)

\* What the pages of a group at a boundary depend on.
SamePages(group, other) ==
  /\ group.width = other.width /\ group.policy = other.policy
  /\ group.window = other.window /\ group.tail = other.tail

\* A layout has one geometry per group.
LEMMA LayoutShape ==
  ASSUME NEW config \in DOMAIN Layouts
  PROVE  /\ Len(Layouts[config]) = Len(Configs[config])
         /\ Len(Layouts[config]) \in Nat
         /\ \A g \in Indices(Layouts[config]) :
              Layouts[config][g] = Geometry(Configs[config][g])
<1> DEFINE n == Len(Configs[config])
<1>1. config \in DOMAIN Configs /\ n \in Nat
  BY RankAssumption DEF Layouts
<1>2. Layouts[config] = [g \in 1 .. n |-> Geometry(Configs[config][g])]
  BY DEF Layouts, build_hma_layout, Indices
<1> HIDE DEF n
<1>3. Len([g \in 1 .. n |-> Geometry(Configs[config][g])]) = n
  BY <1>1
<1> QED BY <1>1, <1>2, <1>3 DEF Indices, n

\* Either digest that the handshake compares fixes them.
LEMMA HandshakeFixesPages ==
  ASSUME NEW config \in DOMAIN Layouts, NEW other \in DOMAIN Layouts,
         CoordinationDigest(config) = CoordinationDigest(other)
  PROVE  /\ ChunkTokens(Layouts[config]) = ChunkTokens(Layouts[other])
         /\ Len(Layouts[config]) = Len(Layouts[other])
         /\ \A g \in Indices(Layouts[config]) :
              SamePages(Layouts[config][g], Layouts[other][g])
<1> DEFINE a == Layouts[config]
           b == Layouts[other]
<1>1. /\ ChunkTokens(a) = ChunkTokens(b)
      /\ \/ coordination_digest(a) = coordination_digest(b)
         \/ logical_digest(a) = logical_digest(b)
  BY Zenon DEF CoordinationDigest
<1>2. /\ Len(a) \in Nat /\ Len(b) \in Nat
      /\ \A g \in Indices(a) : a[g] = Geometry(Configs[config][g])
      /\ \A g \in Indices(b) : b[g] = Geometry(Configs[other][g])
  BY LayoutShape
<1> HIDE DEF a, b
<1>3. Len(a) = Len(b)
  <2>1. Indices(a) = Indices(b)
    BY <1>1 DEF coordination_digest, logical_digest, Indices
  <2> QED BY <1>2, <2>1 DEF Indices
<1>4. ASSUME NEW g \in Indices(a)
      PROVE  SamePages(a[g], b[g])
  <2>1. g \in Indices(b)
    BY <1>3 DEF Indices
  <2>2. /\ a[g] = Geometry(Configs[config][g])
        /\ b[g] = Geometry(Configs[other][g])
    BY <1>2, <2>1
  <2>3. \/ [a[g] EXCEPT !.page = 0, !.layers = <<>>, !.eagle = FALSE] =
             [b[g] EXCEPT !.page = 0, !.layers = <<>>, !.eagle = FALSE]
        \/ [a[g] EXCEPT !.page = 0, !.layers = Names(a[g])] =
             [b[g] EXCEPT !.page = 0, !.layers = Names(b[g])]
    BY <1>1, <2>1 DEF coordination_digest, logical_digest
  <2> QED BY <2>2, <2>3 DEF Geometry, SamePages
<1> QED BY <1>1, <1>3, <1>4 DEF a, b

\* Groups that agree take the same part of a block table.
LEMMA SameSlice ==
  ASSUME NEW group, NEW other, SamePages(group, other), NEW table, NEW span
  PROVE  /\ Slice(group, table, span) = Slice(other, table, span)
         /\ selected_page_count(group, span) = selected_page_count(other, span)
<1>1. selected_page_count(group, span) = selected_page_count(other, span)
  BY DEF SamePages, selected_page_count
<1> QED BY <1>1 DEF SamePages, Slice

\* Hence the selection is the same on both sides of a handshake.
LEMMA SameSelection ==
  ASSUME NEW config \in DOMAIN Layouts, NEW other \in DOMAIN Layouts,
         CoordinationDigest(config) = CoordinationDigest(other),
         NEW tables, NEW span, Selectable(Layouts[other], tables, span)
  PROVE  /\ Selectable(Layouts[config], tables, span)
         /\ select_physical_pages(Layouts[config], tables, span) =
              select_physical_pages(Layouts[other], tables, span)
<1> DEFINE a == Layouts[config]
           b == Layouts[other]
<1>1. Len(a) = Len(b) /\ Indices(a) = Indices(b)
  BY HandshakeFixesPages DEF Indices
<1>2. \A g \in Indices(a) : SamePages(a[g], b[g])
  BY HandshakeFixesPages
<1>0. Selectable(b, tables, span)
  OBVIOUS
<1> HIDE DEF a, b
<1>3. ASSUME NEW g \in Indices(a)
      PROVE  /\ Slice(a[g], tables[g], span) = Slice(b[g], tables[g], span)
             /\ selected_page_count(a[g], span) = selected_page_count(b[g], span)
             /\ a[g].policy = b[g].policy /\ a[g].width = b[g].width
  <2>1. SamePages(a[g], b[g])
    BY <1>2
  <2>2. /\ Slice(a[g], tables[g], span) = Slice(b[g], tables[g], span)
        /\ selected_page_count(a[g], span) = selected_page_count(b[g], span)
    BY <2>1, SameSlice
  <2> QED BY <2>1, <2>2 DEF SamePages
<1>4. Selectable(a, tables, span)
  BY <1>0, <1>1, <1>3 DEF Selectable
<1>5. select_physical_pages(a, tables, span) = select_physical_pages(b, tables, span)
  BY <1>1, <1>3 DEF select_physical_pages
<1> QED BY <1>4, <1>5 DEF a, b

LayoutInv == Bound /\ FilesFit

LEMMA LayoutBegins == RankInit => LayoutInv
BY DEF RankInit, LayoutInv, Bound, FilesFit

\* A step that ends the process leaves the directory alone.
LEMMA EndLeavesDirectory ==
  ASSUME LayoutInv, Down, UNCHANGED <<root, binding, files>>
  PROVE  LayoutInv'
BY DEF LayoutInv, Bound, FilesFit, Down, Positions

\* One in which the process goes on without a save.
LEMMA ProcessGoesOn ==
  ASSUME LayoutInv, UNCHANGED <<root, binding, files, worker, scheduler>>,
         phase' = "down" => phase = "down",
         \/ phase' \in {"down", "epoch", "handshake"}
         \/ phase \notin {"down", "epoch", "handshake"}
         \/ CoordinationDigest(worker) = CoordinationDigest(scheduler),
         phase # "down" \/ phase' = "down"
  PROVE  LayoutInv'
BY DEF LayoutInv, Bound, FilesFit, Positions, CoordinationDigest

\* A process comes up: only with the layout that the directory is bound to.
LEMMA BootBinds ==
  ASSUME LayoutInv, NEW config, NEW other, Boot(config, other)
  PROVE  LayoutInv'
<1>1. /\ worker' = config /\ scheduler' = other /\ phase' = "epoch"
      /\ config \in DOMAIN Layouts /\ other \in DOMAIN Layouts
      /\ ValidLayout(Layouts[config])
      /\ logical_digest(Layouts[config]) = logical_digest(Layouts[root])
      /\ UNCHANGED <<root, files>>
      /\ \/ binding = NoConfig /\ binding' = config
         \/ /\ binding # NoConfig
            /\ digest(Layouts[binding]) = digest(Layouts[config])
            /\ UNCHANGED binding
  BY DEF Boot
<1>2. config # NoConfig
  BY <1>1, RankAssumption DEF Layouts
<1>3. Bound'
  BY <1>1, <1>2 DEF Bound
<1>4. FilesFit'
  BY <1>1, <1>2 DEF LayoutInv, FilesFit, Positions
<1> QED BY <1>3, <1>4 DEF LayoutInv

\* Places depend on the layout alone.
LEMMA SamePositions ==
  ASSUME NEW config \in DOMAIN Layouts, NEW other \in DOMAIN Layouts,
         Layouts[config] = Layouts[other], NEW name \in FileNames
  PROVE  Positions(config, name) = Positions(other, name)
BY DEF Positions, PlacesOf

\* A save writes files of the layout that the directory is bound to.
LEMMA SaveFits ==
  ASSUME LayoutInv, NEW plan \in Plan, Save(plan)
  PROVE  LayoutInv'
<1>1. phase = "up" /\ UNCHANGED <<root, binding, phase, worker, scheduler>>
  BY Zenon DEF Save, Carries
<1>2. Bound'
  BY <1>1 DEF LayoutInv, Bound, CoordinationDigest
<1>3. /\ binding \in DOMAIN Layouts /\ worker \in DOMAIN Layouts
      /\ binding # NoConfig
      /\ Layouts[binding] = Layouts[worker]
  BY <1>1 DEF LayoutInv, Bound, FilesFit, digest
<1>5. ASSUME NEW name \in FileNames
      PROVE  \/ files'[name] = files[name]
             \/ DOMAIN files'[name] = Positions(worker, name)
  BY DEF Save, Positions
<1>6. FilesFit'
  BY <1>1, <1>3, <1>5, SamePositions DEF LayoutInv, FilesFit, Positions
<1> QED BY <1>2, <1>6 DEF LayoutInv

LEMMA RankKeepsLayout == LayoutInv /\ [RankNext]_allVars => LayoutInv'
<1> SUFFICES ASSUME LayoutInv, [RankNext]_allVars
             PROVE  LayoutInv'
  OBVIOUS
<1> USE DEF rankVars
<1>1. CASE \E config, other \in DOMAIN Configs : Boot(config, other)
  BY <1>1, BootBinds
<1>2. CASE Reserve \/ ReserveSync \/ Reserved
  BY <1>2, ProcessGoesOn DEF Reserve, ReserveSync, Reserved
<1>3. CASE BootFails \/ HandshakeFails \/ Exit \/ Killed \/ PowerGoes
  BY <1>3, EndLeavesDirectory DEF BootFails, HandshakeFails, Exit, Killed, PowerGoes
<1>4. CASE Handshake
  BY <1>4, ProcessGoesOn DEF Handshake
<1>5. CASE RestoreFails \/ CountFailure
  BY <1>5, ProcessGoesOn DEF RestoreFails, CountFailure
<1>6. ASSUME NEW plan \in Plan, Save(plan)
      PROVE  LayoutInv'
  BY <1>6, SaveFits
<1>7. ASSUME NEW plan \in Plan, Load(plan)
      PROVE  LayoutInv'
  <2>1. UNCHANGED rankVars
    BY <1>7, Zenon DEF Load
  <2> QED BY <2>1, ProcessGoesOn
<1>8. CASE CountQuarantine \/ CountingStep \/ CountingSync \/ ExportTotals \/ Tampering
  <2>1. UNCHANGED rankVars
    BY <1>8 DEF CountQuarantine, CountingStep, CountingSync, ExportTotals, Tampering
  <2> QED BY <2>1, ProcessGoesOn
<1>9. CASE UNCHANGED allVars
  BY <1>9, ProcessGoesOn DEF allVars
<1> QED BY <1>1, <1>2, <1>3, <1>4, <1>5, <1>6, <1>7, <1>8, <1>9 DEF RankNext

\* For any configurations that processes of a deployment come up with, a worker
\* that is up finds files of exactly the bytes that its own layout gives them
\* (digest in token-format.json).
THEOREM LengthsAlwaysAgree == RankSpec => []LengthsAgree
<1>1. ASSUME LayoutInv
      PROVE  LengthsAgree
  <2> SUFFICES ASSUME phase = "up", NEW name \in FileNames, files[name] # <<>>
               PROVE  DOMAIN files[name] = Positions(worker, name)
    BY DEF LengthsAgree
  <2>1. /\ binding \in DOMAIN Layouts /\ worker \in DOMAIN Layouts
        /\ Layouts[binding] = Layouts[worker]
    BY <1>1 DEF LayoutInv, Bound, FilesFit, digest
  <2> QED BY <1>1, <2>1, SamePositions DEF LayoutInv, FilesFit
<1> QED BY <1>1, LayoutBegins, RankKeepsLayout, PTL DEF RankSpec

\* For any configurations, with or without pipeline stages: once the handshake has
\* let a worker in, it selects the pages of every plan of its scheduler, and the
\* same ones (coordination_digest and _set_pp_aware_handshake_metadata).
THEOREM PagesAlwaysAgree == RankSpec => []PagesAgree
<1>1. ASSUME LayoutInv
      PROVE  PagesAgree
  <2> SUFFICES ASSUME phase = "up", NEW plan \in Planned[scheduler]
               PROVE  LET tables == Tables(scheduler, plan) IN
                      /\ plan.span % ChunkTokens(Layouts[worker]) = 0
                      /\ Selectable(Layouts[worker], tables, plan.span)
                      /\ select_physical_pages(Layouts[worker], tables, plan.span) =
                           select_physical_pages(Layouts[scheduler], tables, plan.span)
    BY Zenon DEF PagesAgree
  <2>1. /\ worker \in DOMAIN Layouts /\ scheduler \in DOMAIN Layouts
        /\ CoordinationDigest(worker) = CoordinationDigest(scheduler)
    BY <1>1 DEF LayoutInv, Bound
  <2>2. /\ plan.span % ChunkTokens(Layouts[scheduler]) = 0
        /\ Selectable(Layouts[scheduler], Tables(scheduler, plan), plan.span)
    BY <2>1 DEF Planned
  <2>3. plan.span % ChunkTokens(Layouts[worker]) = 0
    BY <2>1, <2>2, HandshakeFixesPages
  <2>4. /\ Selectable(Layouts[worker], Tables(scheduler, plan), plan.span)
        /\ select_physical_pages(Layouts[worker], Tables(scheduler, plan), plan.span) =
             select_physical_pages(Layouts[scheduler], Tables(scheduler, plan), plan.span)
    BY <2>1, <2>2, SameSelection
  <2> QED BY <2>3, <2>4
<1> QED BY <1>1, LayoutBegins, RankKeepsLayout, PTL DEF RankSpec

---------------------------------------------------------------------------
(* Induction, and sums.                                                    *)

\* A set of numbers has a least one.
LEMMA LeastNumber ==
  ASSUME NEW T \in SUBSET Nat, T # {}
  PROVE  \E x \in T : \A y \in T : x <= y
<1>1. PICK x \in T : \A y \in T : ~ (<<y, x>> \in OpToRel(<, Nat))
  <2> DEFINE R == OpToRel(<, Nat)
  <2>1. IsWellFoundedOn(R, Nat)
    BY NatLessThanWellFounded
  <2> HIDE DEF R
  <2>2. \E x \in T : \A y \in T : ~ (<<y, x>> \in R)
    BY <2>1, WFMin
  <2> QED BY <2>2 DEF R
<1>2. \A y \in T : ~ (y < x)
  BY <1>1 DEF OpToRel
<1> QED BY <1>2

\* Induction, over a set instead of a predicate.
LEMMA Induction ==
  ASSUME NEW T, 0 \in T, \A n \in Nat : n \in T => n + 1 \in T
  PROVE  Nat \subseteq T
<1> DEFINE U == {n \in Nat : n \notin T}
<1> SUFFICES ASSUME U # {} PROVE FALSE
  OBVIOUS
<1>1. PICK x \in U : \A y \in U : x <= y
  <2> HIDE DEF U
  <2>1. U \in SUBSET Nat
    BY DEF U
  <2> QED BY <2>1, LeastNumber
<1>2. x # 0
  OBVIOUS
<1>3. x - 1 \in Nat /\ x - 1 \in T
  BY <1>1, <1>2
<1>4. (x - 1) + 1 \in T
  BY <1>3
<1> QED BY <1>4

\* There is a function of the lengths of the first parts.
LEMMA SumsExist ==
  ASSUME NEW parts, Len(parts) \in Nat
  PROVE  \E f : f = [j \in 0 .. Len(parts) |->
                       IF j = 0 THEN 0 ELSE f[j - 1] + parts[j].bytes]
<1> DEFINE D(f, n) == f = [j \in 0 .. n |-> IF j = 0 THEN 0 ELSE f[j - 1] + parts[j].bytes]
           T == {n \in Nat : \E f : D(f, n)}
<1>1. 0 \in T
  <2>1. D([j \in 0 .. 0 |-> 0], 0)
    OBVIOUS
  <2> QED BY <2>1
<1>2. ASSUME NEW n \in Nat, n \in T
      PROVE  n + 1 \in T
  <2>1. PICK f : D(f, n)
    BY <1>2
  <2> DEFINE g == [j \in 0 .. n + 1 |-> IF j <= n THEN f[j] ELSE f[n] + parts[n + 1].bytes]
  <2>2. D(g, n + 1)
    <3>1. ASSUME NEW j \in 0 .. n + 1
          PROVE  g[j] = IF j = 0 THEN 0 ELSE g[j - 1] + parts[j].bytes
      <4>1. CASE j <= n
        BY <2>1, <4>1
      <4>2. CASE j = n + 1
        BY <4>2
      <4> QED BY <4>1, <4>2
    <3> HIDE DEF g
    <3>2. g = [j \in 0 .. n + 1 |-> g[j]]
      BY DEF g
    <3> QED BY <3>1, <3>2
  <2> HIDE DEF D
  <2> QED BY <2>2
<1>3. Nat \subseteq T
  <2> HIDE DEF T
  <2> QED BY <1>1, <1>2, Induction
<1> QED BY <1>3

\* Sums is one.
LEMMA SumsDef ==
  ASSUME NEW parts, Len(parts) \in Nat
  PROVE  Sums(parts) =
           [j \in 0 .. Len(parts) |->
              IF j = 0 THEN 0 ELSE Sums(parts)[j - 1] + parts[j].bytes]
BY SumsExist DEF Sums

\* Parts with a length each.
IsParts(parts) ==
  Len(parts) \in Nat /\ \A i \in 1 .. Len(parts) : parts[i].bytes \in Nat

\* The sums are numbers, each the one before and the next part, and never shrink.
LEMMA SumsGrow ==
  ASSUME NEW parts, IsParts(parts)
  PROVE  /\ Sums(parts)[0] = 0
         /\ \A j \in 1 .. Len(parts) :
              Sums(parts)[j] = Sums(parts)[j - 1] + parts[j].bytes
         /\ \A j \in 0 .. Len(parts) : Sums(parts)[j] \in Nat
         /\ \A i, j \in 0 .. Len(parts) : i <= j => Sums(parts)[i] <= Sums(parts)[j]
<1> DEFINE n == Len(parts)
           s == Sums(parts)
<1>0. n \in Nat /\ \A i \in 1 .. n : parts[i].bytes \in Nat
  BY DEF IsParts
<1>1. s = [j \in 0 .. n |-> IF j = 0 THEN 0 ELSE s[j - 1] + parts[j].bytes]
  BY <1>0, SumsDef
<1> HIDE DEF n, s
<1>2. s[0] = 0 /\ \A j \in 1 .. n : s[j] = s[j - 1] + parts[j].bytes
  BY <1>0, <1>1
<1>3. \A j \in 0 .. n : s[j] \in Nat
  <2> DEFINE T == {j \in Nat : j <= n => s[j] \in Nat}
  <2>1. 0 \in T
    BY <1>2
  <2>2. ASSUME NEW j \in Nat, j \in T  PROVE j + 1 \in T
    BY <1>0, <1>2, <2>2
  <2>3. Nat \subseteq T
    <3> HIDE DEF T
    <3> QED BY <2>1, <2>2, Induction
  <2> QED BY <2>3, <1>0
<1>4. ASSUME NEW i \in 0 .. n  PROVE \A j \in 0 .. n : i <= j => s[i] <= s[j]
  <2> DEFINE T == {j \in Nat : i <= j /\ j <= n => s[i] <= s[j]}
  <2>1. 0 \in T
    BY <1>3
  <2>2. ASSUME NEW j \in Nat, j \in T  PROVE j + 1 \in T
    <3>1. CASE j + 1 > n \/ i > j + 1
      BY <3>1, <1>0
    <3>2. CASE j + 1 <= n /\ i = j + 1
      BY <3>2, <1>0, <1>3
    <3>3. CASE j + 1 <= n /\ i <= j
      <4>1. j \in 0 .. n /\ j + 1 \in 1 .. n /\ (j + 1) - 1 = j
        BY <3>3, <1>0
      <4>2. s[i] <= s[j] /\ s[j + 1] = s[j] + parts[j + 1].bytes
        BY <4>1, <2>2, <3>3, <1>2
      <4> QED BY <4>1, <4>2, <1>0, <1>3
    <3> QED BY <3>1, <3>2, <3>3, <1>0
  <2>3. Nat \subseteq T
    <3> HIDE DEF T
    <3> QED BY <2>1, <2>2, Induction
  <2> QED BY <2>3, <1>0
<1> QED BY <1>2, <1>3, <1>4 DEF n, s

\* Sums of numbers that are not larger.
LEMMA Adding == \A w, x, y, z \in Nat : w <= x /\ y <= z => w + y <= x + z
OBVIOUS

\* Parts that are no longer than others, one by one, are not together.
LEMMA SumsCompare ==
  ASSUME NEW a, NEW b, IsParts(a), IsParts(b), Len(a) = Len(b),
         \A i \in 1 .. Len(a) : a[i].bytes <= b[i].bytes
  PROVE  Length(a) <= Length(b) /\ Length(a) \in Nat /\ Length(b) \in Nat
<1> DEFINE n == Len(a)
           s == Sums(a)
           t == Sums(b)
<1>0. /\ n \in Nat /\ Len(b) = n
      /\ \A i \in 1 .. n : a[i].bytes \in Nat /\ b[i].bytes \in Nat
                           /\ a[i].bytes <= b[i].bytes
  BY DEF IsParts
<1>1. /\ s[0] = 0 /\ \A j \in 1 .. n : s[j] = s[j - 1] + a[j].bytes
      /\ \A j \in 0 .. n : s[j] \in Nat
  BY SumsGrow
<1>2. /\ t[0] = 0 /\ \A j \in 1 .. n : t[j] = t[j - 1] + b[j].bytes
      /\ \A j \in 0 .. n : t[j] \in Nat
  BY SumsGrow, <1>0
<1>3. Length(a) = s[n] /\ Length(b) = t[n]
  BY <1>0 DEF Length, Start
<1> HIDE DEF n, s, t
<1> DEFINE T == {j \in Nat : j <= n => s[j] <= t[j]}
<1>4. 0 \in T
  BY <1>1, <1>2
<1>5. ASSUME NEW j \in Nat, j \in T  PROVE j + 1 \in T
  <2>1. CASE j + 1 <= n
    <3>1. j \in 0 .. n /\ j + 1 \in 1 .. n /\ (j + 1) - 1 = j
      BY <2>1, <1>0
    <3>2. s[j] <= t[j]
      BY <1>5, <3>1
    <3>3. s[j + 1] = s[j] + a[j + 1].bytes /\ t[j + 1] = t[j] + b[j + 1].bytes
      BY <3>1, <1>1, <1>2
    <3>4. /\ s[j] \in Nat /\ t[j] \in Nat
          /\ a[j + 1].bytes \in Nat /\ b[j + 1].bytes \in Nat
          /\ a[j + 1].bytes <= b[j + 1].bytes
      BY <3>1, <1>0, <1>1, <1>2
    <3>5. s[j + 1] <= t[j + 1]
      BY <3>2, <3>3, <3>4, Adding
    <3> QED BY <3>5
  <2> QED BY <2>1, <1>0
<1>6. Nat \subseteq T
  <2> HIDE DEF T
  <2> QED BY <1>4, <1>5, Induction
<1> QED BY <1>6, <1>0, <1>1, <1>2, <1>3

---------------------------------------------------------------------------
(* Sequences of sequences.                                                 *)

\* There is a function that joins the first sequences.
LEMMA FlattenExist ==
  ASSUME NEW seqs, NEW n \in Nat
  PROVE  \E f : f = [i \in 1 .. n |-> IF i = 1 THEN seqs[i] ELSE f[i - 1] \o seqs[i]]
<1> DEFINE D(f, m) == f = [i \in 1 .. m |-> IF i = 1 THEN seqs[i] ELSE f[i - 1] \o seqs[i]]
           T == {m \in Nat : \E f : D(f, m)}
<1>1. 0 \in T
  <2>1. D([i \in 1 .. 0 |-> 0], 0)
    OBVIOUS
  <2> QED BY <2>1
<1>2. ASSUME NEW m \in Nat, m \in T
      PROVE  m + 1 \in T
  <2>1. PICK f : D(f, m)
    BY <1>2
  <2> DEFINE g == [i \in 1 .. m + 1 |-> IF i <= m THEN f[i]
                     ELSE IF i = 1 THEN seqs[i] ELSE f[m] \o seqs[m + 1]]
  <2>2. D(g, m + 1)
    <3>1. ASSUME NEW i \in 1 .. m + 1
          PROVE  g[i] = IF i = 1 THEN seqs[i] ELSE g[i - 1] \o seqs[i]
      <4>1. CASE i <= m
        <5>1. i \in 1 .. m /\ g[i] = f[i] /\ (i # 1 => g[i - 1] = f[i - 1])
          BY <4>1
        <5>2. f[i] = IF i = 1 THEN seqs[i] ELSE f[i - 1] \o seqs[i]
          BY <2>1, <5>1
        <5> HIDE DEF g
        <5> QED BY <5>1, <5>2
      <4>2. CASE i = m + 1
        BY <4>2
      <4> QED BY <4>1, <4>2
    <3> HIDE DEF g
    <3>2. g = [i \in 1 .. m + 1 |-> g[i]]
      BY DEF g
    <3> QED BY <3>1, <3>2
  <2> HIDE DEF D
  <2> QED BY <2>2
<1>3. Nat \subseteq T
  <2> HIDE DEF T
  <2> QED BY <1>1, <1>2, Induction
<1> QED BY <1>3

\* The joined sequences, one more at a time.
LEMMA FlattenSteps ==
  ASSUME NEW seqs, Len(seqs) \in Nat \ {0}
  PROVE  \E f : /\ FlattenSeq(seqs) = f[Len(seqs)]
                /\ f[1] = seqs[1]
                /\ \A i \in 2 .. Len(seqs) : f[i] = f[i - 1] \o seqs[i]
<1> DEFINE D(f) == f = [i \in 1 .. Len(seqs) |->
                          IF i = 1 THEN seqs[i] ELSE f[i - 1] \o seqs[i]]
           flatten == CHOOSE f : D(f)
<1>1. \E f : D(f)
  BY FlattenExist
<1>2. D(flatten)
  BY <1>1, Zenon
<1>3. FlattenSeq(seqs) = flatten[Len(seqs)]
  <2>1. Len(seqs) # 0
    OBVIOUS
  <2> QED BY <2>1, Zenon DEF FlattenSeq
<1> HIDE DEF flatten
<1>4. ASSUME NEW i \in 1 .. Len(seqs)
      PROVE  flatten[i] = IF i = 1 THEN seqs[i] ELSE flatten[i - 1] \o seqs[i]
  BY <1>2, Zenon
<1>5. /\ flatten[1] = seqs[1]
      /\ \A i \in 2 .. Len(seqs) : flatten[i] = flatten[i - 1] \o seqs[i]
  <2>1. 1 \in 1 .. Len(seqs) /\ \A i \in 2 .. Len(seqs) : i \in 1 .. Len(seqs) /\ i # 1
    OBVIOUS
  <2> HIDE DEF D
  <2> QED BY <1>4, <2>1, Zenon
<1> QED BY <1>3, <1>5

\* u is s with t after it.
IsJoin(u, s, t) ==
  /\ Len(u) = Len(s) + Len(t)
  /\ Len(s) \in Nat /\ Len(t) \in Nat /\ Len(u) \in Nat
  /\ \A i \in 1 .. Len(s) : i \in 1 .. Len(u) /\ u[i] = s[i]
  /\ \A i \in 1 .. Len(t) : Len(s) + i \in 1 .. Len(u) /\ u[Len(s) + i] = t[i]
  /\ \A i \in 1 .. Len(u) :
       i \in 1 .. Len(s) \/ (i - Len(s) \in 1 .. Len(t) /\ u[i] = t[i - Len(s)])

\* What a concatenation has.
LEMMA Joined ==
  ASSUME NEW S, NEW s \in Seq(S), NEW t \in Seq(S), NEW u, u = s \o t
  PROVE  u \in Seq(S) /\ IsJoin(u, s, t)
<1>1. /\ u \in Seq(S) /\ Len(u) = Len(s) + Len(t)
      /\ Len(s) \in Nat /\ Len(t) \in Nat
  OBVIOUS
<1>2. \A i \in 1 .. Len(s) + Len(t) : u[i] = IF i <= Len(s) THEN s[i] ELSE t[i - Len(s)]
  BY ConcatProperties, Zenon
<1> DEFINE m == Len(s)
           n == Len(t)
<1>3. m \in Nat /\ n \in Nat /\ Len(u) = m + n
  BY <1>1
<1>4. \A i \in 1 .. m + n : u[i] = IF i <= m THEN s[i] ELSE t[i - m]
  BY <1>2
<1> HIDE DEF m, n
<1>5. \A i \in 1 .. m : i \in 1 .. m + n /\ u[i] = s[i]
  BY <1>3, <1>4
<1>6. ASSUME NEW i \in 1 .. n
      PROVE  m + i \in 1 .. m + n /\ u[m + i] = t[i]
  <2>1. m + i \in 1 .. m + n /\ ~ (m + i <= m) /\ (m + i) - m = i
    BY <1>3
  <2>2. u[m + i] = t[(m + i) - m]
    BY <2>1, <1>4
  <2> QED BY <2>1, <2>2
<1>7. ASSUME NEW i \in 1 .. m + n
      PROVE  i \in 1 .. m \/ (i - m \in 1 .. n /\ u[i] = t[i - m])
  BY <1>3, <1>4
<1> QED BY <1>1, <1>3, <1>5, <1>6, <1>7 DEF m, n, IsJoin

\* Sequences over a set.
AreSequences(seqs, S) ==
  Len(seqs) \in Nat \ {0} /\ \A g \in 1 .. Len(seqs) : seqs[g] \in Seq(S)

\* One sequence has the elements of several.
IsFlat(flat, seqs) ==
  /\ \A g \in 1 .. Len(seqs) : \A l \in 1 .. Len(seqs[g]) :
       \E i \in 1 .. Len(flat) : flat[i] = seqs[g][l]
  /\ \A i \in 1 .. Len(flat) :
       \E g \in 1 .. Len(seqs) : \E l \in 1 .. Len(seqs[g]) : flat[i] = seqs[g][l]

\* Joining sequences loses nothing and adds nothing.
LEMMA FlattenElements ==
  ASSUME NEW S, NEW seqs, AreSequences(seqs, S)
  PROVE  FlattenSeq(seqs) \in Seq(S) /\ IsFlat(FlattenSeq(seqs), seqs)
<1> USE DEF AreSequences, IsFlat
<1> DEFINE n == Len(seqs)
<1>0. n \in Nat \ {0} /\ \A g \in 1 .. n : seqs[g] \in Seq(S)
  OBVIOUS
<1>1. PICK f : /\ FlattenSeq(seqs) = f[n]
               /\ f[1] = seqs[1]
               /\ \A i \in 2 .. n : f[i] = f[i - 1] \o seqs[i]
  BY FlattenSteps
<1> HIDE DEF n
<1> DEFINE Has(m) == \A g \in 1 .. m : \A l \in 1 .. Len(seqs[g]) :
                       \E i \in 1 .. Len(f[m]) : f[m][i] = seqs[g][l]
           From(m) == \A i \in 1 .. Len(f[m]) :
                        \E g \in 1 .. m : \E l \in 1 .. Len(seqs[g]) :
                          f[m][i] = seqs[g][l]
           P(m) == f[m] \in Seq(S) /\ Has(m) /\ From(m)
           T == {m \in Nat : 1 <= m /\ m <= n => P(m)}
<1>2. P(1)
  BY <1>0, <1>1
<1>3. ASSUME NEW m \in Nat, 1 <= m, m + 1 <= n, P(m)
      PROVE  P(m + 1)
  <2>1. m + 1 \in 2 .. n /\ (m + 1) - 1 = m /\ m + 1 \in 1 .. n
    BY <1>0, <1>3
  <2> DEFINE s == f[m]
             t == seqs[m + 1]
             u == f[m + 1]
  <2>2. u = s \o t /\ s \in Seq(S) /\ t \in Seq(S)
    BY <2>1, <1>0, <1>1, <1>3
  <2>3. /\ u \in Seq(S)
        /\ \A i \in 1 .. Len(s) : i \in 1 .. Len(u) /\ u[i] = s[i]
        /\ \A i \in 1 .. Len(t) : Len(s) + i \in 1 .. Len(u) /\ u[Len(s) + i] = t[i]
        /\ \A i \in 1 .. Len(u) :
             i \in 1 .. Len(s) \/ (i - Len(s) \in 1 .. Len(t) /\ u[i] = t[i - Len(s)])
    <3> HIDE DEF s, t, u
    <3>1. IsJoin(u, s, t) /\ u \in Seq(S)
      BY <2>2, Joined
    <3> QED BY <3>1 DEF IsJoin
  <2>4. Has(m) /\ From(m)
    BY <1>3
  <2>5. Has(m + 1)
    <3> SUFFICES ASSUME NEW g \in 1 .. m + 1, NEW l \in 1 .. Len(seqs[g])
                 PROVE  \E i \in 1 .. Len(u) : u[i] = seqs[g][l]
      OBVIOUS
    <3>1. CASE g \in 1 .. m
      <4>1. PICK i \in 1 .. Len(s) : s[i] = seqs[g][l]
        BY <2>4, <3>1
      <4> HIDE DEF s, t, u
      <4> QED BY <4>1, <2>3
    <3>2. CASE g = m + 1
      <4>1. l \in 1 .. Len(t) /\ seqs[g][l] = t[l]
        BY <3>2
      <4> HIDE DEF s, t, u
      <4>2. Len(s) + l \in 1 .. Len(u) /\ u[Len(s) + l] = t[l]
        BY <4>1, <2>3
      <4> QED BY <4>1, <4>2
    <3> QED BY <3>1, <3>2
  <2>6. From(m + 1)
    <3> SUFFICES ASSUME NEW i \in 1 .. Len(u)
                 PROVE  \E g \in 1 .. m + 1 : \E l \in 1 .. Len(seqs[g]) :
                          u[i] = seqs[g][l]
      OBVIOUS
    <3>1. CASE i \in 1 .. Len(s)
      <4>0. i \in 1 .. Len(s) /\ u[i] = s[i]
        <5> HIDE DEF s, t, u
        <5> QED BY <3>1, <2>3
      <4>1. PICK g \in 1 .. m : \E l \in 1 .. Len(seqs[g]) : s[i] = seqs[g][l]
        BY <4>0, <2>4
      <4>2. g \in 1 .. m + 1
        OBVIOUS
      <4> QED BY <4>0, <4>1, <4>2
    <3>2. CASE i - Len(s) \in 1 .. Len(t) /\ u[i] = t[i - Len(s)]
      <4>2. m + 1 \in 1 .. m + 1
        OBVIOUS
      <4> QED BY <3>2, <4>2
    <3> QED BY <3>1, <3>2, <2>3
  <2> QED BY <2>3, <2>5, <2>6
<1> HIDE DEF P
<1>4. 0 \in T
  OBVIOUS
<1>5. ASSUME NEW m \in Nat, m \in T  PROVE m + 1 \in T
  BY <1>0, <1>2, <1>3, <1>5
<1>6. Nat \subseteq T
  <2> HIDE DEF T
  <2> QED BY <1>4, <1>5, Induction
<1>7. P(n)
  BY <1>0, <1>6
<1> QED BY <1>1, <1>7 DEF P, n

\* Sequences of equal lengths are joined alike.
LEMMA FlattenAlike ==
  ASSUME NEW S, NEW a, NEW b, Len(a) \in Nat \ {0}, Len(b) = Len(a),
         \A g \in 1 .. Len(a) : /\ a[g] \in Seq(S) /\ b[g] \in Seq(S)
                                /\ Len(a[g]) = Len(b[g])
                                /\ \A l \in 1 .. Len(a[g]) :
                                     a[g][l].bytes <= b[g][l].bytes
  PROVE  /\ Len(FlattenSeq(a)) = Len(FlattenSeq(b))
         /\ \A i \in 1 .. Len(FlattenSeq(a)) :
              FlattenSeq(a)[i].bytes <= FlattenSeq(b)[i].bytes
<1> DEFINE n == Len(a)
           Le(s, t) == /\ s \in Seq(S) /\ t \in Seq(S) /\ Len(s) = Len(t)
                       /\ \A i \in 1 .. Len(s) : s[i].bytes <= t[i].bytes
<1>0. n \in Nat \ {0} /\ \A g \in 1 .. n : Le(a[g], b[g])
  OBVIOUS
<1>1. PICK f : /\ FlattenSeq(a) = f[n]
               /\ f[1] = a[1]
               /\ \A i \in 2 .. n : f[i] = f[i - 1] \o a[i]
  BY FlattenSteps
<1>2. PICK h : /\ FlattenSeq(b) = h[n]
               /\ h[1] = b[1]
               /\ \A i \in 2 .. n : h[i] = h[i - 1] \o b[i]
  <2>1. Len(b) \in Nat \ {0} /\ Len(b) = n
    OBVIOUS
  <2> HIDE DEF n
  <2> QED BY <2>1, FlattenSteps
<1>3. ASSUME NEW s, NEW t, NEW x, NEW y, Le(s, t), Le(x, y)
      PROVE  Le(s \o x, t \o y)
  <2> DEFINE u == s \o x
             v == t \o y
  <2>0. /\ s \in Seq(S) /\ t \in Seq(S) /\ x \in Seq(S) /\ y \in Seq(S)
        /\ Len(s) = Len(t) /\ Len(x) = Len(y) /\ u = s \o x /\ v = t \o y
    BY <1>3
  <2> HIDE DEF u, v
  <2>1. u \in Seq(S) /\ IsJoin(u, s, x)
    BY <2>0, Joined
  <2>2. v \in Seq(S) /\ IsJoin(v, t, y)
    BY <2>0, Joined
  <2>3. ASSUME NEW i \in 1 .. Len(u)
        PROVE  u[i].bytes <= v[i].bytes
    <3>1. CASE i \in 1 .. Len(s)
      BY <3>1, <2>0, <2>1, <2>2, <1>3 DEF IsJoin
    <3>2. CASE i - Len(s) \in 1 .. Len(x) /\ u[i] = x[i - Len(s)]
      <4>1. Len(t) + (i - Len(s)) = i
        BY <2>0, <2>2 DEF IsJoin
      <4>2. v[i] = y[i - Len(s)]
        BY <4>1, <3>2, <2>0, <2>2 DEF IsJoin
      <4> QED BY <4>2, <3>2, <1>3
    <3> QED BY <3>1, <3>2, <2>1 DEF IsJoin
  <2>4. Len(u) = Len(v)
    BY <2>0, <2>1, <2>2 DEF IsJoin
  <2> QED BY <2>1, <2>2, <2>3, <2>4 DEF u, v
<1> HIDE DEF n, Le
<1> DEFINE T == {m \in Nat : 1 <= m /\ m <= n => Le(f[m], h[m])}
<1>4. 0 \in T
  OBVIOUS
<1>5. ASSUME NEW m \in Nat, m \in T  PROVE m + 1 \in T
  <2>1. CASE m = 0
    BY <2>1, <1>0, <1>1, <1>2
  <2>2. CASE m >= 1 /\ m + 1 <= n
    <3>1. m + 1 \in 2 .. n /\ (m + 1) - 1 = m /\ m + 1 \in 1 .. n
      BY <2>2, <1>0
    <3>2. f[m + 1] = f[m] \o a[m + 1] /\ h[m + 1] = h[m] \o b[m + 1]
      BY <3>1, <1>1, <1>2
    <3>3. Le(f[m], h[m]) /\ Le(a[m + 1], b[m + 1])
      BY <3>1, <2>2, <1>5, <1>0
    <3>4. Le(f[m + 1], h[m + 1])
      BY <3>2, <3>3, <1>3
    <3> QED BY <3>4
  <2> QED BY <2>1, <2>2, <1>0
<1>6. Nat \subseteq T
  <2> HIDE DEF T
  <2> QED BY <1>4, <1>5, Induction
<1>7. Le(f[n], h[n])
  BY <1>0, <1>6
<1> QED BY <1>1, <1>2, <1>7 DEF Le

\* Sequences of one element, and then empty ones.
IsSingles(seqs, x, k) ==
  /\ Len(seqs) \in Nat \ {0} /\ k \in 1 .. Len(seqs)
  /\ \A i \in 1 .. k : seqs[i] = <<x[i]>>
  /\ \A i \in k + 1 .. Len(seqs) : seqs[i] = <<>>

\* Sequences of one element each come out one after the other.
LEMMA FlattenSingles ==
  ASSUME NEW seqs, NEW x, NEW k, IsSingles(seqs, x, k)
  PROVE  /\ Len(FlattenSeq(seqs)) = k
         /\ \A i \in 1 .. k : FlattenSeq(seqs)[i] = x[i]
<1> USE DEF IsSingles
<1> DEFINE n == Len(seqs)
           S == {x[i] : i \in 1 .. k}
           P(s, m) == s \in Seq(S) /\ Len(s) = m /\ \A i \in 1 .. m : s[i] = x[i]
<1>0. n \in Nat \ {0} /\ k \in Nat /\ 1 <= k /\ k <= n
  OBVIOUS
<1>1. PICK f : /\ FlattenSeq(seqs) = f[n]
               /\ f[1] = seqs[1]
               /\ \A i \in 2 .. n : f[i] = f[i - 1] \o seqs[i]
  BY FlattenSteps
<1>2. /\ \A i \in 1 .. k : seqs[i] = <<x[i]>>
      /\ \A i \in k + 1 .. n : seqs[i] = <<>>
  OBVIOUS
<1>3. ASSUME NEW s, NEW m \in Nat, P(s, m), m + 1 \in 1 .. k
      PROVE  P(s \o <<x[m + 1]>>, m + 1)
  <2> DEFINE t == <<x[m + 1]>>
             u == s \o t
  <2>1. t \in Seq(S) /\ s \in Seq(S) /\ u = s \o t /\ Len(t) = 1 /\ t[1] = x[m + 1]
    BY <1>3
  <2>2. \A i \in 1 .. m : s[i] = x[i]
    BY <1>3
  <2>3. Len(s) = m
    BY <1>3
  <2> HIDE DEF t, u, S
  <2>4. u \in Seq(S) /\ IsJoin(u, s, t)
    BY <2>1, Joined
  <2>5. Len(u) = m + 1
    BY <2>1, <2>3, <2>4 DEF IsJoin
  <2>6. u[m + 1] = x[m + 1]
    BY <2>1, <2>3, <2>4 DEF IsJoin
  <2>7. ASSUME NEW i \in 1 .. m + 1  PROVE u[i] = x[i]
    <3>1. CASE i \in 1 .. m
      BY <3>1, <2>2, <2>3, <2>4 DEF IsJoin
    <3>2. CASE i = m + 1
      BY <3>2, <2>6
    <3> QED BY <3>1, <3>2
  <2> QED BY <2>4, <2>5, <2>7 DEF u, t
<1>4. ASSUME NEW s, P(s, k)  PROVE P(s \o <<>>, k)
  BY <1>4, ConcatEmptySeq
<1>5. P(<<x[1]>>, 1)
  BY <1>0
<1> HIDE DEF n, P, S
<1> DEFINE T == {m \in Nat : 1 <= m /\ m <= n => P(f[m], Smaller(m, k))}
<1>6. 0 \in T
  OBVIOUS
<1>7. ASSUME NEW m \in Nat, m \in T  PROVE m + 1 \in T
  <2>1. CASE m = 0
    <3>1. Smaller(m + 1, k) = 1 /\ f[m + 1] = <<x[1]>>
      BY <2>1, <1>0, <1>1, <1>2 DEF Smaller
    <3> QED BY <3>1, <1>5
  <2>2. CASE m >= 1 /\ m + 1 <= n
    <3>0. m + 1 \in 2 .. n /\ (m + 1) - 1 = m
      BY <2>2, <1>0
    <3>1. f[m + 1] = f[m] \o seqs[m + 1] /\ P(f[m], Smaller(m, k))
      <4>1. P(f[m], Smaller(m, k))
        BY <2>2, <1>7, <1>0
      <4>2. f[m + 1] = f[(m + 1) - 1] \o seqs[m + 1]
        BY <3>0, <1>1, Zenon
      <4> QED BY <4>1, <4>2, <3>0
    <3>2. CASE m + 1 <= k
      <4>1. /\ Smaller(m, k) = m /\ Smaller(m + 1, k) = m + 1
            /\ m + 1 \in 1 .. k /\ seqs[m + 1] = <<x[m + 1]>>
        BY <3>2, <1>0, <1>2 DEF Smaller
      <4>2. P(f[m + 1], m + 1)
        BY <4>1, <3>1, <1>3
      <4> QED BY <4>1, <4>2
    <3>3. CASE m + 1 > k
      <4>1. /\ Smaller(m, k) = k /\ Smaller(m + 1, k) = k
            /\ seqs[m + 1] = <<>>
        BY <3>3, <2>2, <1>0, <1>2 DEF Smaller
      <4>2. P(f[m + 1], k)
        BY <4>1, <3>1, <1>4
      <4> QED BY <4>1, <4>2
    <3> QED BY <3>2, <3>3, <1>0
  <2> QED BY <2>1, <2>2, <1>0
<1>8. Nat \subseteq T
  <2> HIDE DEF T
  <2> QED BY <1>6, <1>7, Induction
<1>9. P(f[n], k)
  BY <1>0, <1>8 DEF Smaller
<1> QED BY <1>1, <1>9 DEF P

\* Empty sequences, and then one of one element.
LEMMA FlattenLast ==
  ASSUME NEW seqs, Len(seqs) \in Nat \ {0}, NEW x,
         \A i \in 1 .. Len(seqs) - 1 : seqs[i] = <<>>,
         seqs[Len(seqs)] = <<x>>
  PROVE  FlattenSeq(seqs) = <<x>>
<1> DEFINE n == Len(seqs)
<1>0. n \in Nat \ {0} /\ seqs[n] = <<x>> /\ \A i \in 1 .. n - 1 : seqs[i] = <<>>
  OBVIOUS
<1>1. PICK f : /\ FlattenSeq(seqs) = f[n]
               /\ f[1] = seqs[1]
               /\ \A i \in 2 .. n : f[i] = f[i - 1] \o seqs[i]
  BY FlattenSteps
<1>2. <<>> \o <<>> = <<>> /\ <<>> \o <<x>> = <<x>>
  <2>1. <<x>> \in Seq({x}) /\ <<>> \in Seq({x})
    OBVIOUS
  <2> QED BY <2>1, ConcatEmptySeq
<1> HIDE DEF n
<1> DEFINE T == {m \in Nat : 1 <= m /\ m <= n => f[m] = IF m < n THEN <<>> ELSE <<x>>}
<1>3. 0 \in T
  OBVIOUS
<1>4. ASSUME NEW m \in Nat, m \in T  PROVE m + 1 \in T
  <2>1. CASE m = 0
    BY <2>1, <1>0, <1>1
  <2>2. CASE m >= 1 /\ m + 1 <= n
    <3>0. m + 1 \in 2 .. n /\ (m + 1) - 1 = m
      BY <2>2, <1>0
    <3>1. f[m + 1] = f[m] \o seqs[m + 1] /\ f[m] = <<>>
      <4>1. f[m] = <<>>
        BY <2>2, <1>4, <1>0
      <4>2. f[m + 1] = f[(m + 1) - 1] \o seqs[m + 1]
        BY <3>0, <1>1, Zenon
      <4> QED BY <4>1, <4>2, <3>0
    <3>2. CASE m + 1 < n
      BY <3>1, <3>2, <1>0, <1>2
    <3>3. CASE m + 1 = n
      BY <3>1, <3>3, <1>0, <1>2
    <3> QED BY <3>2, <3>3, <2>2, <1>0
  <2> QED BY <2>1, <2>2, <1>0
<1>5. Nat \subseteq T
  <2> HIDE DEF T
  <2> QED BY <1>3, <1>4, Induction
<1> QED BY <1>0, <1>1, <1>5

---------------------------------------------------------------------------
(* Quotients.                                                              *)

\* Multiples are ordered as their factors.
LEMMA Multiples ==
  ASSUME NEW a \in Nat, NEW b \in Nat, NEW d \in Nat \ {0}
  PROVE  /\ a * d \in Nat
         /\ a <= b <=> a * d <= b * d
         /\ a < b <=> a * d + d <= b * d
         /\ a < b <=> a * d < b * d
<1>1. a * d \in Nat /\ b * d \in Nat
  OBVIOUS
<1>2. ASSUME NEW x \in Nat, NEW y \in Nat, x < y  PROVE x * d + d <= y * d
  <2>1. PICK e \in Nat : y = x + 1 + e
    <3>1. y - x - 1 \in Nat /\ y = x + 1 + (y - x - 1)
      BY <1>2
    <3> QED BY <3>1
  <2>2. y * d = x * d + d + e * d
    BY <2>1
  <2>3. e * d \in Nat /\ x * d \in Nat
    OBVIOUS
  <2> QED BY <2>2, <2>3
<1>3. a < b => a * d + d <= b * d
  BY <1>2
<1>4. b < a => b * d + d <= a * d
  BY <1>2
<1>5. a = b => a * d = b * d
  OBVIOUS
<1> DEFINE x == a * d
           y == b * d
<1> HIDE DEF x, y
<1> QED BY <1>1, <1>3, <1>4, <1>5 DEF x, y

\* A number by its quotient and its remainder.
LEMMA Quotient ==
  ASSUME NEW a \in Nat, NEW d \in Nat \ {0}
  PROVE  /\ a \div d \in Nat /\ a % d \in 0 .. d - 1
         /\ a = (a \div d) * d + (a % d)
<1>1. d \in Int /\ d > 0 /\ a \in Int
  OBVIOUS
<1>2. a \div d \in Int /\ a % d \in Int
  BY <1>1
<1>3. 0 <= a % d /\ a % d < d
  BY <1>1
<1>4. a = d * (a \div d) + (a % d)
  BY <1>1
<1>5. a \div d >= 0
  BY <1>1
<1>6. d * (a \div d) = (a \div d) * d
  BY <1>1, <1>2
<1> QED BY <1>1, <1>2, <1>3, <1>4, <1>5, <1>6

\* And the other way round.
LEMMA QuotientOf ==
  ASSUME NEW q \in Nat, NEW d \in Nat \ {0}, NEW r \in 0 .. d - 1
  PROVE  (q * d + r) \div d = q /\ (q * d + r) % d = r
<1> DEFINE a == q * d + r
           p == a \div d
<1>0. q * d \in Nat /\ r \in Nat /\ r < d
  OBVIOUS
<1>1. a \in Nat /\ p \in Nat /\ a % d \in 0 .. d - 1 /\ a = p * d + (a % d)
  BY <1>0, Quotient
<1>2. a = q * d + r
  OBVIOUS
<1> HIDE DEF a, p
<1>3. /\ p < q => p * d + d <= q * d
      /\ q < p => q * d + d <= p * d
  BY <1>1, Multiples
<1>4. p * d \in Nat
  BY <1>1
<1>5. p = q
  <2> DEFINE x == p * d
             y == q * d
  <2> HIDE DEF x, y
  <2> QED BY <1>0, <1>1, <1>2, <1>3, <1>4 DEF x, y
<1>6. a % d = r
  BY <1>0, <1>1, <1>2, <1>4, <1>5
<1> QED BY <1>5, <1>6 DEF a, p

\* Exact quotients.
LEMMA Exact ==
  ASSUME NEW a \in Nat, NEW d \in Nat \ {0}
  PROVE  /\ a % d = 0 => a = (a \div d) * d
         /\ (a * d) % d = 0 /\ (a * d) \div d = a
<1>1. a % d = 0 => a = (a \div d) * d
  BY Quotient
<1>2. 0 \in 0 .. d - 1 /\ a * d + 0 = a * d
  OBVIOUS
<1>3. (a * d + 0) \div d = a /\ (a * d + 0) % d = 0
  BY <1>2, QuotientOf
<1> QED BY <1>1, <1>2, <1>3

\* The least number of parts of d that reach a.
LEMMA CeilingIs ==
  ASSUME NEW a \in Nat, NEW d \in Nat \ {0}
  PROVE  /\ Ceiling(a, d) \in Nat
         /\ \A n \in Nat : Ceiling(a, d) <= n <=> a <= n * d
<1> DEFINE c == (a + d - 1) \div d
<1>1. /\ a + d - 1 \in Nat /\ c \in Nat /\ (a + d - 1) % d \in 0 .. d - 1
      /\ a + d - 1 = c * d + ((a + d - 1) % d)
  BY Quotient
<1>2. PICK r \in 0 .. d - 1 : a + d - 1 = c * d + r
  BY <1>1
<1>3. c * d \in Nat /\ c * d <= a + d - 1 /\ a <= c * d
  <2>1. c * d \in Nat
    BY <1>1
  <2> DEFINE x == c * d
  <2> HIDE DEF x, c
  <2> QED BY <1>2, <2>1 DEF x
<1>4. ASSUME NEW n \in Nat  PROVE c <= n <=> a <= n * d
  <2>1. /\ c <= n <=> c * d <= n * d
        /\ n < c <=> n * d + d <= c * d
        /\ n * d \in Nat
    BY <1>1, Multiples
  <2> DEFINE x == c * d
             y == n * d
  <2> HIDE DEF x, y, c
  <2> QED BY <1>1, <1>3, <2>1 DEF x, y
<1> QED BY <1>1, <1>4 DEF Ceiling

---------------------------------------------------------------------------
(* The chunk.                                                              *)

\* There is a function of the products of the first widths.
LEMMA ProductsExist ==
  ASSUME NEW layout, NEW n \in Nat
  PROVE  \E f : f = [g \in 0 .. n |-> IF g = 0 THEN 1
                                      ELSE f[g - 1] * AlignedWidth(layout[g])]
<1> DEFINE D(f, m) == f = [g \in 0 .. m |-> IF g = 0 THEN 1
                                            ELSE f[g - 1] * AlignedWidth(layout[g])]
           T == {m \in Nat : \E f : D(f, m)}
<1>1. 0 \in T
  <2>1. D([g \in 0 .. 0 |-> 1], 0)
    OBVIOUS
  <2> QED BY <2>1
<1>2. ASSUME NEW m \in Nat, m \in T
      PROVE  m + 1 \in T
  <2>1. PICK f : D(f, m)
    BY <1>2
  <2> DEFINE h == [g \in 0 .. m + 1 |-> IF g <= m THEN f[g]
                                        ELSE f[m] * AlignedWidth(layout[m + 1])]
  <2>2. D(h, m + 1)
    <3>1. ASSUME NEW g \in 0 .. m + 1
          PROVE  h[g] = IF g = 0 THEN 1 ELSE h[g - 1] * AlignedWidth(layout[g])
      <4>1. CASE g <= m
        <5>1. g \in 0 .. m /\ h[g] = f[g] /\ (g # 0 => h[g - 1] = f[g - 1])
          BY <4>1
        <5>2. f[g] = IF g = 0 THEN 1 ELSE f[g - 1] * AlignedWidth(layout[g])
          BY <2>1, <5>1
        <5> HIDE DEF h
        <5> QED BY <5>1, <5>2
      <4>2. CASE g = m + 1
        BY <4>2
      <4> QED BY <4>1, <4>2
    <3> HIDE DEF h
    <3>2. h = [g \in 0 .. m + 1 |-> h[g]]
      BY DEF h
    <3> QED BY <3>1, <3>2
  <2> HIDE DEF D
  <2> QED BY <2>2
<1>3. Nat \subseteq T
  <2> HIDE DEF T
  <2> QED BY <1>1, <1>2, Induction
<1> QED BY <1>3

\* Products is one.
LEMMA ProductsDef ==
  ASSUME NEW layout, Len(layout) \in Nat
  PROVE  Products(layout) =
           [g \in 0 .. Len(layout) |->
              IF g = 0 THEN 1 ELSE Products(layout)[g - 1] * AlignedWidth(layout[g])]
<1>1. \E f : f = [g \in 0 .. Len(layout) |->
                    IF g = 0 THEN 1 ELSE f[g - 1] * AlignedWidth(layout[g])]
  BY ProductsExist
<1> QED BY <1>1, Zenon DEF Products

\* A layout whose boundaries are multiples of something.
IsAligned(layout) ==
  /\ Len(layout) \in Nat
  /\ \A g \in 1 .. Len(layout) : AlignedWidth(layout[g]) \in Nat \ {0}

\* The product of the widths is a multiple of each of them.
LEMMA ProductsDivisible ==
  ASSUME NEW layout, IsAligned(layout)
  PROVE  LET p == Products(layout)[Len(layout)] IN
         /\ p \in Nat \ {0}
         /\ \A g \in 1 .. Len(layout) : p % AlignedWidth(layout[g]) = 0
<1> DEFINE n == Len(layout)
           w(g) == AlignedWidth(layout[g])
           f == Products(layout)
           P(m) == /\ f[m] \in Nat \ {0}
                   /\ \A g \in 1 .. m : \E q \in Nat : f[m] = q * w(g)
           T == {m \in Nat : m <= n => P(m)}
<1>0. n \in Nat /\ \A g \in 1 .. n : w(g) \in Nat \ {0}
  BY DEF IsAligned
<1>1. f[0] = 1 /\ \A g \in 1 .. n : f[g] = f[g - 1] * w(g)
  <2>1. f = [g \in 0 .. n |-> IF g = 0 THEN 1 ELSE f[g - 1] * w(g)]
    BY <1>0, ProductsDef
  <2> HIDE DEF f, n, w
  <2> QED BY <2>1, <1>0
<1> HIDE DEF n, w, f
<1>2. 0 \in T
  BY <1>1
<1>3. ASSUME NEW m \in Nat, m \in T  PROVE m + 1 \in T
  <2> SUFFICES ASSUME m + 1 <= n  PROVE P(m + 1)
    OBVIOUS
  <2>1. m + 1 \in 1 .. n /\ (m + 1) - 1 = m
    BY <1>0
  <2>2. P(m)
    BY <1>0, <1>3
  <2>3. f[m + 1] = f[m] * w(m + 1) /\ f[m] \in Nat \ {0} /\ w(m + 1) \in Nat \ {0}
    BY <2>1, <2>2, <1>0, <1>1
  <2>4. f[m + 1] \in Nat \ {0}
    <3>1. \A x, y \in Nat \ {0} : x * y \in Nat \ {0}
      OBVIOUS
    <3> QED BY <2>3, <3>1
  <2>5. ASSUME NEW g \in 1 .. m + 1  PROVE \E q \in Nat : f[m + 1] = q * w(g)
    <3>1. CASE g = m + 1
      BY <3>1, <2>3
    <3>2. CASE g \in 1 .. m
      <4>1. PICK q \in Nat : f[m] = q * w(g)
        BY <2>2, <3>2
      <4>2. w(g) \in Nat
        BY <3>2, <2>1, <1>0
      <4>3. \A x, y, z \in Nat : (x * y) * z = (x * z) * y /\ x * z \in Nat
        OBVIOUS
      <4>4. f[m + 1] = (q * w(m + 1)) * w(g) /\ q * w(m + 1) \in Nat
        BY <4>1, <4>2, <4>3, <2>3
      <4> QED BY <4>4
    <3> QED BY <3>1, <3>2
  <2> QED BY <2>4, <2>5
<1>4. Nat \subseteq T
  <2> HIDE DEF T
  <2> QED BY <1>2, <1>3, Induction
<1>5. P(n)
  BY <1>0, <1>4
<1>6. ASSUME NEW g \in 1 .. n  PROVE f[n] % w(g) = 0
  <2>1. PICK q \in Nat : f[n] = q * w(g)
    BY <1>5
  <2> QED BY <2>1, <1>0, Exact
<1> QED BY <1>5, <1>6 DEF n, w, f

\* math.lcm: there is a common multiple, so alignment_tokens is one.
LEMMA Alignment ==
  ASSUME NEW layout, IsAligned(layout)
  PROVE  /\ alignment_tokens(layout) \in Nat \ {0}
         /\ \A g \in 1 .. Len(layout) :
              alignment_tokens(layout) % AlignedWidth(layout[g]) = 0
<1> DEFINE p == Products(layout)[Len(layout)]
           M == {t \in 1 .. p : \A g \in Indices(layout) :
                                  t % AlignedWidth(layout[g]) = 0}
<1>1. p \in M
  BY ProductsDivisible DEF Indices
<1>2. alignment_tokens(layout) = Min(M)
  BY DEF alignment_tokens
<1>3. M \in SUBSET Nat
  BY ProductsDivisible
<1>4. \A t \in M : t \in Nat \ {0} /\ \A g \in 1 .. Len(layout) :
                                        t % AlignedWidth(layout[g]) = 0
  BY ProductsDivisible DEF Indices
<1> HIDE DEF M
<1>5. PICK x \in M : \A y \in M : x <= y
  BY <1>1, <1>3, LeastNumber
<1>6. Min(M) \in M
  BY <1>5, Zenon DEF Min
<1> QED BY <1>2, <1>4, <1>6

\* A chunk has whole pages of every group.
LEMMA ChunkIs ==
  ASSUME NEW layout, IsAligned(layout)
  PROVE  /\ ChunkTokens(layout) \in Nat \ {0}
         /\ \A g \in 1 .. Len(layout) :
              ChunkTokens(layout) % AlignedWidth(layout[g]) = 0
<1> DEFINE a == alignment_tokens(layout)
           c == Ceiling(ChunkFloor, a)
<1>1. a \in Nat \ {0} /\ ChunkFloor \in Nat \ {0} /\ ChunkTokens(layout) = c * a
  BY Alignment, LayoutAssumption DEF ChunkTokens, aligned_chunk_tokens
<1>2. \A g \in 1 .. Len(layout) : /\ AlignedWidth(layout[g]) \in Nat \ {0}
                                  /\ a % AlignedWidth(layout[g]) = 0
  BY Alignment DEF IsAligned
<1> HIDE DEF a
<1>3. c \in Nat /\ \A n \in Nat : c <= n <=> ChunkFloor <= n * a
  BY <1>1, CeilingIs
<1>4. c # 0
  BY <1>1, <1>3
<1> HIDE DEF c
<1>5. c * a \in Nat \ {0}
  <2>1. \A x, y \in Nat \ {0} : x * y \in Nat \ {0}
    OBVIOUS
  <2> QED BY <2>1, <1>1, <1>3, <1>4
<1>6. ASSUME NEW g \in 1 .. Len(layout)
      PROVE  (c * a) % AlignedWidth(layout[g]) = 0
  <2> DEFINE w == AlignedWidth(layout[g])
  <2>1. w \in Nat \ {0} /\ a % w = 0
    BY <1>2
  <2> HIDE DEF w
  <2>2. PICK q \in Nat : a = q * w
    BY <2>1, <1>1, Exact, Quotient
  <2>3. c * a = (c * q) * w /\ c * q \in Nat
    BY <2>1, <2>2, <1>3
  <2>4. ((c * q) * w) % w = 0
    BY <2>1, <2>3, Exact
  <2> QED BY <2>3, <2>4 DEF w
<1> QED BY <1>1, <1>5, <1>6

---------------------------------------------------------------------------
(* What discovery accepts.                                                 *)

\* The geometry of a group, as far as pages and files depend on it.
IsGeometry(group) ==
  /\ group.policy \in {"full", "sliding", "recurrent_align", "circular_one"}
  /\ group.width \in Nat \ {0}
  /\ group.window \in Nat
  /\ group.policy = "sliding" => group.window > 1
  /\ group.tail \in Nat
  /\ Len(group.layers) \in Nat
  /\ group.layers # <<>> => Len(group.layers) # 0
  /\ \A l \in 1 .. Len(group.layers) : group.layers[l].bytes \in Nat \ {0}

\* What a sequence of a configuration has.
LEMMA SequenceIs ==
  ASSUME NEW s, IsSequence(s)
  PROVE  /\ Len(s) \in Nat /\ DOMAIN s = 1 .. Len(s)
         /\ ToSet(s) = {s[i] : i \in 1 .. Len(s)}
         /\ \A i \in 1 .. Len(s) : s[i] \in ToSet(s)
         /\ s # <<>> => Len(s) # 0
<1>1. s \in Seq(ToSet(s))
  BY DEF IsSequence
<1>2. Len(s) \in Nat /\ DOMAIN s = 1 .. Len(s) /\ (s # <<>> => Len(s) # 0)
  BY <1>1, LenProperties, EmptySeq
<1>3. ToSet(s) = {s[i] : i \in DOMAIN s}
  BY DEF ToSet
<1> QED BY <1>2, <1>3

\* The image of a finite set.
LEMMA FiniteImage ==
  ASSUME NEW D, IsFiniteSet(D), NEW f
  PROVE  IsFiniteSet({f[x] : x \in D})
<1> DEFINE h == [x \in D |-> f[x]]
           T == {f[x] : x \in D}
<1>1. h \in Surjection(D, T)
  BY DEF Surjection
<1> HIDE DEF h, T
<1>2. IsFiniteSet(T)
  BY <1>1, FS_Surjection
<1> QED BY <1>2 DEF T

\* A set with one element.
LEMMA OnlyOne ==
  ASSUME NEW S, IsFiniteSet(S), Cardinality(S) = 1
  PROVE  \E x : S = {x}
BY FS_Singleton

\* The specifications of an accepted group agree on one policy, and those of a
\* recurrent state on one tail.
LEMMA OnePolicy ==
  ASSUME NEW config, IsConfiguration(config), NEW g \in 1 .. Len(config),
         GroupAccepted(config[g])
  PROVE  /\ Specs(config[g]) # {}
         /\ \A spec \in Specs(config[g]) : /\ IsSpecification(spec)
                                           /\ reuse_policy(config[g], spec) =
                                                PolicyOf(config[g])
         /\ PolicyOf(config[g])[1] = "recurrent_align" =>
              \E tail \in Nat : Tails(config[g]) = {tail}
<1> DEFINE group == config[g]
           specs == Specs(group)
           source == IF group.layers # <<>> THEN group.layers ELSE group.members
<1>1. /\ IsSequence(group.layers) /\ IsSequence(group.members)
      /\ \A spec \in ToSet(group.layers) \cup ToSet(group.members) :
           IsSpecification(spec)
  BY DEF IsConfiguration, Indices
<1>2. specs = ToSet(source) /\ IsSequence(source)
  BY <1>1 DEF Specs
<1>3. \A spec \in specs : IsSpecification(spec)
  BY <1>1 DEF Specs
<1>4. IsFiniteSet(specs)
  <2> DEFINE n == Len(source)
  <2> HIDE DEF source, specs
  <2>1. n \in Nat /\ specs = {source[i] : i \in 1 .. n}
    BY <1>2, SequenceIs
  <2>2. IsFiniteSet(1 .. n)
    <3> HIDE DEF n
    <3> QED BY <2>1, FS_Interval
  <2> HIDE DEF n
  <2>3. IsFiniteSet({source[i] : i \in 1 .. n})
    BY <2>2, FiniteImage
  <2> QED BY <2>1, <2>3
<1>5. Cardinality(Policies(group)) = 1
  BY DEF GroupAccepted
<1>6. PICK policy : Policies(group) = {policy}
  <2> DEFINE f == [spec \in specs |-> reuse_policy(group, spec)]
  <2>1. Policies(group) = {f[spec] : spec \in specs}
    BY DEF Policies
  <2> HIDE DEF f
  <2>2. IsFiniteSet({f[spec] : spec \in specs})
    <3> HIDE DEF specs
    <3> QED BY <1>4, FiniteImage
  <2> QED BY <1>5, <2>1, <2>2, OnlyOne
<1>7. PolicyOf(group) = policy
  BY <1>6 DEF PolicyOf
<1>8. specs # {} /\ \A spec \in specs : reuse_policy(group, spec) = policy
  <2> HIDE DEF specs
  <2>1. Policies(group) = {reuse_policy(group, spec) : spec \in specs}
    BY DEF Policies, specs
  <2> QED BY <1>6, <2>1
<1>9. ASSUME PolicyOf(group)[1] = "recurrent_align"
      PROVE  \E tail \in Nat : Tails(group) = {tail}
  <2> DEFINE f == [spec \in specs |-> spec.tail]
  <2>1. Tails(group) = {f[spec] : spec \in specs} /\ Cardinality(Tails(group)) = 1
    BY <1>9 DEF Tails, GroupAccepted
  <2> HIDE DEF f
  <2>2. IsFiniteSet({f[spec] : spec \in specs})
    <3> HIDE DEF specs
    <3> QED BY <1>4, FiniteImage
  <2>3. PICK tail : Tails(group) = {tail}
    BY <2>1, <2>2, OnlyOne
  <2>4. tail \in Nat
    BY <2>3, <1>3 DEF Tails, IsSpecification
  <2> QED BY <2>3, <2>4
<1> QED BY <1>3, <1>7, <1>8, <1>9

\* A geometry says of a group what it is, and its layers have its policy.
Describes(geometry, group) ==
  /\ IsGeometry(geometry)
  /\ geometry.width = WidthOf(group)
  /\ geometry.policy = PolicyOf(group)[1]
  /\ geometry.window = PolicyOf(group)[2]
  /\ geometry.policy = "recurrent_align" => Tails(group) = {geometry.tail}
  /\ DOMAIN group.layers = 1 .. Len(geometry.layers)
  /\ \A l \in 1 .. Len(geometry.layers) :
       /\ reuse_policy(group, group.layers[l]) = PolicyOf(group)
       /\ geometry.layers[l].name = group.layers[l].name
       /\ geometry.layers[l].bytes = group.layers[l].bytes

\* The geometry of an accepted group describes it.
LEMMA GeometryIs ==
  ASSUME NEW config \in DOMAIN Layouts, NEW g \in 1 .. Len(Layouts[config])
  PROVE  Describes(Layouts[config][g], Configs[config][g])
<1> DEFINE group == Configs[config][g]
           geometry == Layouts[config][g]
           policy == PolicyOf(group)
<1>1. /\ g \in 1 .. Len(Configs[config]) /\ geometry = Geometry(group)
      /\ IsConfiguration(Configs[config]) /\ Accepted(Configs[config])
  BY LayoutShape, RankAssumption DEF Layouts, Indices
<1>2. /\ GroupAccepted(group) /\ group.block \in Nat \ {0}
      /\ IsSequence(group.layers)
  BY <1>1 DEF Accepted, IsConfiguration, Indices
<1>3. /\ Specs(group) # {}
      /\ \A spec \in Specs(group) : /\ IsSpecification(spec)
                                    /\ reuse_policy(group, spec) = policy
      /\ policy[1] = "recurrent_align" => \E tail \in Nat : Tails(group) = {tail}
  BY <1>1, <1>2, OnePolicy, Zenon
<1>4. Len(group.layers) \in Nat /\ DOMAIN group.layers = 1 .. Len(group.layers)
  BY <1>2, SequenceIs, Zenon
<1>5. ASSUME NEW l \in 1 .. Len(group.layers)
      PROVE  group.layers[l] \in Specs(group)
  <2>1. group.layers[l] \in ToSet(group.layers)
    BY <1>2, SequenceIs, Zenon
  <2>2. group.layers # <<>>
    BY <1>4
  <2> QED BY <2>1, <2>2 DEF Specs
<1> HIDE DEF group, geometry, policy
<1>6. /\ geometry.width = group.block * (IF group.replicated THEN 1 ELSE Dcp)
      /\ geometry.policy = policy[1] /\ geometry.window = policy[2]
      /\ geometry.tail = (IF policy[1] = "recurrent_align"
                          THEN CHOOSE tail \in Tails(group) : TRUE ELSE 0)
      /\ geometry.layers = [i \in 1 .. Len(group.layers) |->
                              [name |-> group.layers[i].name,
                               bytes |-> group.layers[i].bytes]]
  BY <1>1 DEF Geometry, Indices, policy
<1>7. geometry.width = WidthOf(group) /\ geometry.width \in Nat \ {0}
  <2>1. (IF group.replicated THEN 1 ELSE Dcp) \in Nat \ {0}
    BY LayoutAssumption
  <2>2. \A x, y \in Nat \ {0} : x * y \in Nat \ {0}
    OBVIOUS
  <2> QED BY <1>2, <1>6, <2>1, <2>2 DEF WidthOf
<1>8. /\ geometry.policy \in {"full", "sliding", "recurrent_align", "circular_one"}
      /\ geometry.window \in Nat
      /\ geometry.policy = "sliding" => geometry.window > 1
  <2>1. PICK spec \in Specs(group) : reuse_policy(group, spec) = policy
                                     /\ IsSpecification(spec)
    BY <1>3
  <2>2. policy[1] # "unsupported" /\ (policy[1] = "sliding" => policy[2] > 1)
    BY <1>2 DEF GroupAccepted, policy
  <2>3. \/ policy = <<"circular_one", 0>> \/ policy = <<"sliding", spec.window>>
        \/ policy = <<"full", 0>> \/ policy = <<"recurrent_align", 0>>
        \/ policy = <<"unsupported", 0>>
    BY <2>1 DEF reuse_policy
  <2>4. policy[2] \in Nat
    BY <2>1, <2>3 DEF IsSpecification
  <2>5. policy[1] \in {"full", "sliding", "recurrent_align", "circular_one"}
    BY <2>2, <2>3
  <2> QED BY <1>6, <2>2, <2>4, <2>5
<1>9. /\ geometry.tail \in Nat
      /\ geometry.policy = "recurrent_align" => Tails(group) = {geometry.tail}
  <2>1. CASE policy[1] = "recurrent_align"
    <3>1. PICK tail \in Nat : Tails(group) = {tail}
      BY <2>1, <1>3
    <3>2. (CHOOSE t \in Tails(group) : TRUE) \in Tails(group)
      BY <3>1
    <3>3. geometry.tail = CHOOSE t \in Tails(group) : TRUE
      BY <2>1, <1>6
    <3>4. geometry.tail = tail
      BY <3>1, <3>2, <3>3, Zenon
    <3> QED BY <3>1, <3>4
  <2>2. CASE policy[1] # "recurrent_align"
    BY <2>2, <1>6
  <2> QED BY <2>1, <2>2
<1>10. Len(geometry.layers) = Len(group.layers)
  BY <1>4, <1>6
<1>11. ASSUME NEW l \in 1 .. Len(geometry.layers)
       PROVE  /\ reuse_policy(group, group.layers[l]) = policy
              /\ geometry.layers[l].name = group.layers[l].name
              /\ geometry.layers[l].bytes = group.layers[l].bytes
              /\ geometry.layers[l].bytes \in Nat \ {0}
  <2>1. l \in 1 .. Len(group.layers) /\ group.layers[l] \in Specs(group)
    BY <1>5, <1>10
  <2>2. /\ reuse_policy(group, group.layers[l]) = policy
        /\ group.layers[l].bytes \in Nat \ {0}
    BY <2>1, <1>3 DEF IsSpecification
  <2> QED BY <2>1, <2>2, <1>6
<1>14. Len(geometry.layers) = 0 => geometry.layers = <<>>
  BY <1>4, <1>6, <1>10
<1>12. IsGeometry(geometry)
  BY <1>14, <1>4, <1>7, <1>8, <1>9, <1>10, <1>11 DEF IsGeometry
<1>13. Describes(geometry, group)
  BY <1>4, <1>6, <1>7, <1>9, <1>10, <1>11, <1>12 DEF Describes, policy
<1> QED BY <1>13 DEF group, geometry

\* A layout that is not empty, of well-formed groups.
IsLayout(layout) ==
  Len(layout) \in Nat \ {0} /\ \A g \in 1 .. Len(layout) : IsGeometry(layout[g])

\* The layout of an accepted configuration is well-formed.
LEMMA LayoutIs ==
  ASSUME NEW config \in DOMAIN Layouts
  PROVE  IsLayout(Layouts[config]) /\ IsAligned(Layouts[config])
<1>1. Len(Layouts[config]) = Len(Configs[config]) /\ Len(Layouts[config]) \in Nat
  BY LayoutShape
<1>2. IsSequence(Configs[config]) /\ Configs[config] # <<>>
  BY RankAssumption DEF Layouts, Accepted, IsConfiguration
<1>3. Len(Configs[config]) # 0
  BY <1>2, SequenceIs, Zenon
<1>4. ASSUME NEW g \in 1 .. Len(Layouts[config])
      PROVE  IsGeometry(Layouts[config][g])
  <2>1. Describes(Layouts[config][g], Configs[config][g])
    BY GeometryIs
  <2> QED BY <2>1 DEF Describes
<1>5. ASSUME NEW group, IsGeometry(group)
      PROVE  AlignedWidth(group) \in Nat \ {0}
  BY <1>5 DEF IsGeometry, AlignedWidth
<1> QED BY <1>1, <1>3, <1>4, <1>5 DEF IsLayout, IsAligned

---------------------------------------------------------------------------
(* Files.                                                                  *)

\* What a group contributes to a file: one slice per layer, or nothing.
CountOf(layout, g, span, kind) ==
  IF kind = "data" THEN ChunkTokens(layout) \div layout[g].width
  ELSE selected_page_count(layout[g], span)

\* Where its pages begin among those of the prefix.
StartOf(layout, g, span, kind) ==
  IF kind = "data" THEN (span - ChunkTokens(layout)) \div layout[g].width ELSE 0

\* The slice of a layer.
SliceOf(layout, g, l, span, kind) ==
  [group |-> g, layer |-> l, start |-> StartOf(layout, g, span, kind),
   count |-> CountOf(layout, g, span, kind), page |-> layout[g].layers[l].bytes,
   bytes |-> CountOf(layout, g, span, kind) * layout[g].layers[l].bytes]

\* All slices.
Slices ==
  [group : Nat, layer : Nat, start : Nat, count : Nat, page : Nat \ {0}, bytes : Nat]

\* The sizes in a file of a layout that was discovered.
IsFile(layout, span, kind) ==
  /\ IsLayout(layout) /\ IsAligned(layout)
  /\ span \in Nat /\ kind \in {"data", "state"}
  /\ kind = "data" => ChunkTokens(layout) <= span

\* The pages that a group selects are counted.
LEMMA PageCount ==
  ASSUME NEW group, IsGeometry(group), NEW span \in Nat
  PROVE  selected_page_count(group, span) \in Nat
<1>1. span \div group.width \in Nat
  BY Quotient DEF IsGeometry
<1>2. CASE group.policy = "sliding"
  <2>1. group.window - 1 \in Nat /\ group.width \in Nat \ {0}
    BY <1>2 DEF IsGeometry
  <2>2. Ceiling(group.window - 1, group.width) \in Nat
    BY <2>1, CeilingIs
  <2> QED BY <1>1, <1>2, <2>2 DEF selected_page_count, Smaller
<1>3. CASE group.policy # "sliding"
  BY <1>1, <1>3 DEF selected_page_count
<1> QED BY <1>2, <1>3

\* The slices of a group are as SliceOf says.
LEMMA GroupSlices ==
  ASSUME NEW layout, NEW span, NEW kind, IsFile(layout, span, kind),
         NEW g \in 1 .. Len(layout), NEW s, s = GroupSegments(layout, g, span, kind)
  PROVE  /\ s \in Seq(Slices) /\ Len(s) \in Nat
         /\ CountOf(layout, g, span, kind) \in Nat
         /\ StartOf(layout, g, span, kind) \in Nat
         /\ (layout[g].policy = "full") # (kind = "data") => s = <<>>
         /\ (layout[g].policy = "full") = (kind = "data") =>
              Len(s) = Len(layout[g].layers)
         /\ \A l \in 1 .. Len(s) :
              /\ l \in 1 .. Len(layout[g].layers)
              /\ (layout[g].policy = "full") = (kind = "data")
              /\ s[l] = SliceOf(layout, g, l, span, kind)
<1> DEFINE n == Len(layout[g].layers)
           c == CountOf(layout, g, span, kind)
           a == StartOf(layout, g, span, kind)
<1>1. IsGeometry(layout[g]) /\ span \in Nat
  BY DEF IsFile, IsLayout
<1>2. /\ n \in Nat /\ layout[g].width \in Nat \ {0} /\ g \in Nat
      /\ \A l \in 1 .. n : layout[g].layers[l].bytes \in Nat \ {0}
  BY <1>1 DEF IsGeometry, IsFile, IsLayout
<1>3. ChunkTokens(layout) \in Nat
  BY ChunkIs DEF IsFile
<1>4. c \in Nat
  <2>1. ChunkTokens(layout) \div layout[g].width \in Nat
    BY <1>2, <1>3, Quotient
  <2>2. selected_page_count(layout[g], span) \in Nat
    BY <1>1, PageCount
  <2> QED BY <2>1, <2>2 DEF CountOf
<1>5. a \in Nat
  <2>1. CASE kind = "data"
    <3>1. span - ChunkTokens(layout) \in Nat
      BY <2>1, <1>1, <1>3 DEF IsFile
    <3> QED BY <3>1, <2>1, <1>2, Quotient DEF StartOf
  <2> QED BY <2>1 DEF StartOf
<1>6. CASE (layout[g].policy = "full") # (kind = "data")
  <2>1. s = <<>>
    BY <1>6 DEF GroupSegments
  <2> QED BY <2>1, <1>4, <1>5, <1>6
<1>7. CASE (layout[g].policy = "full") = (kind = "data")
  <2>1. s = [i \in 1 .. n |-> SliceOf(layout, g, i, span, kind)]
    BY <1>7 DEF GroupSegments, SliceOf, CountOf, StartOf, Indices
  <2>2. ASSUME NEW i \in 1 .. n
        PROVE  SliceOf(layout, g, i, span, kind) \in Slices
    <3>1. i \in Nat /\ c * layout[g].layers[i].bytes \in Nat
      BY <1>2, <1>4
    <3> QED BY <3>1, <1>2, <1>4, <1>5 DEF SliceOf, Slices
  <2> HIDE DEF n, c, a
  <2>3. s \in Seq(Slices) /\ Len(s) = n
    BY <2>1, <2>2, <1>2
  <2> QED BY <2>1, <2>3, <1>2, <1>4, <1>5, <1>7 DEF n, c, a
<1> QED BY <1>6, <1>7

\* The files of a prefix: one per chunk, then the state at its end if there is any.
IsFiles(names, layout, span) ==
  LET chunk == ChunkTokens(layout)
      n == span \div chunk
  IN /\ n \in Nat \ {0} /\ chunk \in Nat \ {0}
     /\ span = n * chunk
     /\ Len(names) = (IF has_boundary_state(layout) THEN n + 1 ELSE n)
     /\ \A i \in 1 .. n : /\ names[i] = <<i * chunk, "data">>
                          /\ i * chunk \in Nat /\ chunk <= i * chunk
     /\ has_boundary_state(layout) => names[n + 1] = <<span, "state">>
     /\ DOMAIN names = 1 .. Len(names)

\* FilesOf lists these files.
LEMMA FilesAre ==
  ASSUME NEW layout, IsAligned(layout), NEW span \in Nat \ {0},
         span % ChunkTokens(layout) = 0
  PROVE  IsFiles(FilesOf(layout, span), layout, span)
<1> DEFINE chunk == ChunkTokens(layout)
           n == span \div chunk
           S == Nat \X {"data", "state"}
           d == [i \in 1 .. n |-> <<i * chunk, "data">>]
           t == IF has_boundary_state(layout) THEN <<<<span, "state">>>> ELSE <<>>
           names == FilesOf(layout, span)
<1>1. chunk \in Nat \ {0}
  BY ChunkIs
<1>2. names = d \o t
  BY DEF FilesOf
<1>3. span % chunk = 0
  OBVIOUS
<1> HIDE DEF chunk, names
<1>4. span = n * chunk /\ n \in Nat
  BY <1>1, <1>3, Exact, Quotient
<1>5. n # 0
  BY <1>1, <1>4
<1> HIDE DEF n
<1>6. ASSUME NEW i \in 1 .. n
      PROVE  i * chunk \in Nat /\ chunk <= i * chunk
  <2>1. i \in Nat /\ 1 <= i /\ 1 \in Nat
    BY <1>4
  <2>2. 1 * chunk <= i * chunk /\ i * chunk \in Nat
    BY <2>1, <1>1, Multiples
  <2> QED BY <2>2, <1>1
<1>7. d \in Seq(S) /\ Len(d) = n /\ \A i \in 1 .. n : d[i] = <<i * chunk, "data">>
  BY <1>4, <1>6
<1>8. t \in Seq(S) /\ Len(t) = (IF has_boundary_state(layout) THEN 1 ELSE 0)
      /\ (has_boundary_state(layout) => t[1] = <<span, "state">>)
  OBVIOUS
<1> HIDE DEF d, t, S
<1>9. names \in Seq(S) /\ IsJoin(names, d, t)
  BY <1>2, <1>7, <1>8, Joined
<1>10. Len(names) = n + Len(t) /\ DOMAIN names = 1 .. Len(names)
  BY <1>9, <1>7 DEF IsJoin
<1>11. \A i \in 1 .. n : names[i] = <<i * chunk, "data">>
  BY <1>9, <1>7 DEF IsJoin
<1>12. has_boundary_state(layout) => names[n + 1] = <<span, "state">>
  <2> SUFFICES ASSUME has_boundary_state(layout) PROVE names[n + 1] = <<span, "state">>
    OBVIOUS
  <2>1. 1 \in 1 .. Len(t) /\ t[1] = <<span, "state">>
    BY <1>8
  <2> QED BY <2>1, <1>7, <1>9 DEF IsJoin
<1> QED BY <1>1, <1>4, <1>5, <1>6, <1>8, <1>10, <1>11, <1>12 DEF IsFiles, chunk, n, names

\* A slice of each data file, and one of a state file.
FirstSlices(layout, g, names) ==
  [i \in Indices(names) |->
     LET all == GroupSegments(layout, g, names[i][1], names[i][2])
     IN IF all = <<>> THEN <<>> ELSE <<all[1]>>]

\* The chunks of a group with all its pages follow each other without a gap.
LEMMA CoversFull ==
  ASSUME NEW layout, IsLayout(layout), IsAligned(layout), NEW span \in Nat \ {0},
         span % ChunkTokens(layout) = 0, NEW names, IsFiles(names, layout, span),
         NEW g \in 1 .. Len(layout), layout[g].policy = "full",
         layout[g].layers # <<>>, NEW slices,
         slices = FlattenSeq(FirstSlices(layout, g, names))
  PROVE  /\ slices # <<>>
         /\ slices[1].start = 0
         /\ \A i \in 1 .. Len(slices) - 1 :
              slices[i + 1].start = slices[i].start + slices[i].count
         /\ Last(slices).start + Last(slices).count =
              selected_page_count(layout[g], span)
<1> DEFINE chunk == ChunkTokens(layout)
           n == span \div chunk
           w == layout[g].width
           q == chunk \div w
           seqs == FirstSlices(layout, g, names)
           x == [i \in 1 .. n |-> SliceOf(layout, g, 1, i * chunk, "data")]
<1>1. IsGeometry(layout[g])
  BY DEF IsLayout
<1>2. w \in Nat \ {0} /\ Len(layout[g].layers) \in Nat \ {0}
  BY <1>1 DEF IsGeometry
<1>3. /\ n \in Nat \ {0} /\ chunk \in Nat \ {0} /\ span = n * chunk
      /\ Len(names) = (IF has_boundary_state(layout) THEN n + 1 ELSE n)
      /\ \A i \in 1 .. n : /\ names[i] = <<i * chunk, "data">>
                           /\ i * chunk \in Nat /\ chunk <= i * chunk
      /\ has_boundary_state(layout) => names[n + 1] = <<span, "state">>
  BY DEF IsFiles
<1>4. chunk % w = 0
  <2>1. chunk % AlignedWidth(layout[g]) = 0
    BY ChunkIs
  <2> QED BY <2>1 DEF AlignedWidth
<1> HIDE DEF chunk, n, w
<1>5. q \in Nat /\ chunk = q * w
  BY <1>2, <1>3, <1>4, Quotient, Exact
<1> HIDE DEF q
<1>6. Len(seqs) = Len(names) /\ Len(seqs) \in Nat \ {0} /\ n \in 1 .. Len(seqs)
  BY <1>3 DEF FirstSlices, Indices
<1>7. ASSUME NEW i \in 1 .. n
      PROVE  seqs[i] = <<x[i]>>
  <2> DEFINE all == GroupSegments(layout, g, i * chunk, "data")
  <2>1. IsFile(layout, i * chunk, "data")
    BY <1>3 DEF IsFile, chunk
  <2> HIDE DEF all
  <2>2. all = GroupSegments(layout, g, i * chunk, "data")
    BY DEF all
  <2>3. /\ Len(all) = Len(layout[g].layers)
        /\ \A l \in 1 .. Len(all) : all[l] = SliceOf(layout, g, l, i * chunk, "data")
    BY <2>1, <2>2, GroupSlices
  <2>4. all # <<>> /\ all[1] = x[i]
    BY <2>3, <1>2
  <2>5. names[i] = <<i * chunk, "data">> /\ i \in Indices(names)
    BY <1>3 DEF Indices
  <2>6. seqs[i] = IF all = <<>> THEN <<>> ELSE <<all[1]>>
    BY <2>5 DEF FirstSlices, all
  <2> QED BY <2>4, <2>6
<1>8. ASSUME NEW i \in n + 1 .. Len(seqs)
      PROVE  seqs[i] = <<>>
  <2>1. /\ has_boundary_state(layout) /\ i = n + 1
        /\ names[i] = <<span, "state">> /\ i \in Indices(names)
    BY <1>3, <1>6 DEF Indices
  <2>2. GroupSegments(layout, g, span, "state") = <<>>
    BY DEF GroupSegments
  <2> QED BY <2>1, <2>2 DEF FirstSlices
<1>9. ASSUME NEW i \in 1 .. n
      PROVE  x[i].start = (i - 1) * q /\ x[i].count = q
  <2>1. i - 1 \in Nat /\ (i - 1) * q \in Nat
    BY <1>3, <1>5
  <2>2. i * chunk - chunk = ((i - 1) * q) * w
    BY <1>3, <1>5, <1>2
  <2>3. (((i - 1) * q) * w) \div w = (i - 1) * q
    BY <2>1, <1>2, Exact
  <2> QED BY <2>2, <2>3 DEF SliceOf, StartOf, CountOf, chunk, w, q
<1> HIDE DEF seqs, x
<1>10. slices = FlattenSeq(seqs)
  BY DEF seqs
<1>11. Len(slices) = n /\ \A i \in 1 .. n : slices[i] = x[i]
  <2>1. Len(FlattenSeq(seqs)) = n /\ \A i \in 1 .. n : FlattenSeq(seqs)[i] = x[i]
    <3>1. n \in 1 .. Len(seqs) /\ Len(seqs) \in Nat \ {0}
      BY <1>6
    <3>2. \A i \in 1 .. n : seqs[i] = <<x[i]>>
      BY <1>7
    <3>3. \A i \in n + 1 .. Len(seqs) : seqs[i] = <<>>
      BY <1>8
    <3>4. IsSingles(seqs, x, n)
      BY <3>1, <3>2, <3>3 DEF IsSingles
    <3> QED BY <3>4, FlattenSingles
  <2> QED BY <2>1, <1>10
<1>12. slices # <<>>
  BY <1>11, <1>3
<1>13. slices[1].start = 0
  <2>1. 1 \in 1 .. n
    BY <1>3
  <2>2. slices[1].start = (1 - 1) * q
    BY <2>1, <1>9, <1>11
  <2>3. (1 - 1) * q = 0
    BY <1>5
  <2> QED BY <2>2, <2>3
<1>14. ASSUME NEW i \in 1 .. Len(slices) - 1
       PROVE  slices[i + 1].start = slices[i].start + slices[i].count
  <2>1. i \in 1 .. n /\ i + 1 \in 1 .. n
    BY <1>3, <1>11
  <2>2. /\ slices[i].start = (i - 1) * q /\ slices[i].count = q
        /\ slices[i + 1].start = ((i + 1) - 1) * q
    BY <2>1, <1>9, <1>11
  <2>3. ((i + 1) - 1) * q = (i - 1) * q + q
    BY <2>1, <1>5
  <2> QED BY <2>2, <2>3
<1>15. Last(slices).start + Last(slices).count = selected_page_count(layout[g], span)
  <2>1. n \in 1 .. n /\ Last(slices) = slices[n]
    BY <1>3, <1>11 DEF Last
  <2>2. Last(slices).start = (n - 1) * q /\ Last(slices).count = q
    BY <2>1, <1>9, <1>11
  <2>3. (n - 1) * q + q = n * q
    BY <1>3, <1>5
  <2>4. span = (n * q) * w /\ n * q \in Nat
    BY <1>2, <1>3, <1>5
  <2>5. span \div w = n * q
    BY <2>4, <1>2, Exact
  <2>6. selected_page_count(layout[g], span) = span \div w
    BY DEF selected_page_count, w
  <2> QED BY <2>2, <2>3, <2>5, <2>6
<1> QED BY <1>12, <1>13, <1>14, <1>15

\* The one slice of any other group has all that is selected.
LEMMA CoversState ==
  ASSUME NEW layout, IsLayout(layout), IsAligned(layout), NEW span \in Nat \ {0},
         span % ChunkTokens(layout) = 0, NEW names, IsFiles(names, layout, span),
         NEW g \in 1 .. Len(layout), layout[g].policy # "full",
         layout[g].layers # <<>>, NEW slices,
         slices = FlattenSeq(FirstSlices(layout, g, names))
  PROVE  /\ slices # <<>>
         /\ slices[1].start = 0
         /\ \A i \in 1 .. Len(slices) - 1 :
              slices[i + 1].start = slices[i].start + slices[i].count
         /\ Last(slices).start + Last(slices).count =
              selected_page_count(layout[g], span)
<1> DEFINE chunk == ChunkTokens(layout)
           n == span \div chunk
           seqs == FirstSlices(layout, g, names)
           x == SliceOf(layout, g, 1, span, "state")
           c == selected_page_count(layout[g], span)
<1>1. IsGeometry(layout[g]) /\ has_boundary_state(layout)
  BY DEF IsLayout, has_boundary_state, Indices
<1>2. Len(layout[g].layers) \in Nat \ {0}
  BY <1>1 DEF IsGeometry
<1>3. /\ n \in Nat \ {0} /\ chunk \in Nat \ {0} /\ Len(names) = n + 1
      /\ \A i \in 1 .. n : names[i] = <<i * chunk, "data">>
      /\ names[n + 1] = <<span, "state">>
  BY <1>1 DEF IsFiles
<1>4. c \in Nat
  BY <1>1, PageCount
<1> HIDE DEF chunk, n
<1>5. Len(seqs) = n + 1 /\ Len(seqs) \in Nat \ {0}
  BY <1>3 DEF FirstSlices, Indices
<1>6. ASSUME NEW i \in 1 .. Len(seqs) - 1
      PROVE  seqs[i] = <<>>
  <2>1. i \in Indices(names) /\ names[i] = <<i * chunk, "data">>
    BY <1>3, <1>5 DEF Indices
  <2>2. GroupSegments(layout, g, i * chunk, "data") = <<>>
    BY DEF GroupSegments
  <2> QED BY <2>1, <2>2 DEF FirstSlices
<1>7. seqs[Len(seqs)] = <<x>>
  <2> DEFINE all == GroupSegments(layout, g, span, "state")
  <2>1. IsFile(layout, span, "state")
    BY DEF IsFile
  <2>0. all = GroupSegments(layout, g, span, "state")
    OBVIOUS
  <2> HIDE DEF all
  <2>3. /\ Len(all) = Len(layout[g].layers)
        /\ \A l \in 1 .. Len(all) : all[l] = SliceOf(layout, g, l, span, "state")
    BY <2>0, <2>1, GroupSlices
  <2>4. all # <<>> /\ all[1] = x
    BY <2>3, <1>2
  <2>5. names[n + 1] = <<span, "state">> /\ n + 1 \in Indices(names)
    BY <1>3 DEF Indices
  <2>6. seqs[n + 1] = IF all = <<>> THEN <<>> ELSE <<all[1]>>
    BY <2>5 DEF FirstSlices, all
  <2> QED BY <2>4, <2>6, <1>5
<1>8. x.start = 0 /\ x.count = c
  BY DEF SliceOf, StartOf, CountOf
<1> HIDE DEF seqs, x, c
<1>9. slices = <<x>>
  BY <1>5, <1>6, <1>7, FlattenLast DEF seqs
<1> QED BY <1>4, <1>8, <1>9 DEF Last, c

\* Hence the coverage of a manifest is never refused.
LEMMA CoversAlways ==
  ASSUME NEW layout, IsLayout(layout), IsAligned(layout), NEW span \in Nat \ {0},
         span % ChunkTokens(layout) = 0
  PROVE  Covers(layout, span, FilesOf(layout, span))
<1> DEFINE names == FilesOf(layout, span)
<1>1. IsFiles(names, layout, span)
  BY FilesAre
<1> HIDE DEF names
<1> SUFFICES ASSUME NEW g \in 1 .. Len(layout), layout[g].layers # <<>>, NEW slices,
                    slices = FlattenSeq(FirstSlices(layout, g, names))
             PROVE  /\ slices # <<>>
                    /\ slices[1].start = 0
                    /\ \A i \in 1 .. Len(slices) - 1 :
                         slices[i + 1].start = slices[i].start + slices[i].count
                    /\ Last(slices).start + Last(slices).count =
                         selected_page_count(layout[g], span)
  BY Zenon DEF Covers, FirstSlices, names, Indices
<1>2. CASE layout[g].policy = "full"
  BY <1>1, <1>2, CoversFull
<1>3. CASE layout[g].policy # "full"
  BY <1>1, <1>3, CoversState
<1> QED BY <1>2, <1>3

---------------------------------------------------------------------------
(* How long files are.                                                     *)

\* The largest of finitely many numbers.
LEMMA Greatest ==
  ASSUME NEW n \in Nat \ {0}, NEW f, \A i \in 1 .. n : f[i] \in Nat,
         NEW S, S = {f[i] : i \in 1 .. n}
  PROVE  Max(S) \in Nat /\ \A i \in 1 .. n : f[i] <= Max(S)
<1> DEFINE P(m) == \E k \in 1 .. m : \A i \in 1 .. m : f[i] <= f[k]
           T == {m \in Nat : m \in 1 .. n => P(m)}
<1>1. 0 \in T
  OBVIOUS
<1>2. ASSUME NEW m \in Nat, m \in T PROVE m + 1 \in T
  <2> SUFFICES ASSUME m + 1 \in 1 .. n PROVE P(m + 1)
    OBVIOUS
  <2>1. CASE m = 0
    <3>1. 1 \in 1 .. 1 /\ \A i \in 1 .. 1 : f[i] <= f[1]
      OBVIOUS
    <3> QED BY <3>1, <2>1
  <2>2. CASE m # 0
    <3>1. m \in 1 .. n
      BY <2>2
    <3>2. PICK k \in 1 .. m : \A i \in 1 .. m : f[i] <= f[k]
      BY <3>1, <1>2
    <3>3. CASE f[m + 1] <= f[k]
      <4>1. k \in 1 .. m + 1 /\ \A i \in 1 .. m + 1 : f[i] <= f[k]
        BY <3>2, <3>3
      <4> QED BY <4>1
    <3>4. CASE ~ (f[m + 1] <= f[k])
      <4>1. f[m + 1] \in Nat /\ f[k] \in Nat /\ f[k] <= f[m + 1]
        BY <3>4
      <4>2. m + 1 \in 1 .. m + 1 /\ \A i \in 1 .. m + 1 : f[i] <= f[m + 1]
        <5>1. ASSUME NEW i \in 1 .. m + 1 PROVE f[i] <= f[m + 1]
          <6>1. CASE i = m + 1
            BY <6>1, <4>1
          <6>2. CASE i \in 1 .. m
            <7>1. f[i] <= f[k] /\ f[i] \in Nat
              BY <6>2, <3>2
            <7> QED BY <7>1, <4>1
          <6> QED BY <6>1, <6>2
        <5> QED BY <5>1
      <4> QED BY <4>2
    <3> QED BY <3>3, <3>4
  <2> QED BY <2>1, <2>2
<1> HIDE DEF P
<1>3. P(n)
  <2> HIDE DEF T
  <2>1. Nat \subseteq T
    BY <1>1, <1>2, Induction
  <2> QED BY <2>1 DEF T
<1>4. PICK k \in 1 .. n : \A i \in 1 .. n : f[i] <= f[k]
  BY <1>3 DEF P
<1>5. \E m \in S : \A y \in S : m >= y
  <2>1. f[k] \in S /\ \A y \in S : f[k] >= y
    BY <1>4
  <2> QED BY <2>1
<1>6. Max(S) \in S /\ \A y \in S : Max(S) >= y
  BY <1>5, Zenon DEF Max
<1>7. S \subseteq Nat /\ \A i \in 1 .. n : f[i] \in S
  OBVIOUS
<1>8. Max(S) \in Nat
  BY <1>6, <1>7
<1>9. ASSUME NEW i \in 1 .. n PROVE f[i] <= Max(S)
  BY <1>6, <1>7, <1>8
<1> QED BY <1>8, <1>9

\* The slices of a file are those that its groups contribute.
IsSegments(segments, layout, span, kind) ==
  /\ Len(segments) \in Nat
  /\ \A i \in 1 .. Len(segments) :
       /\ segments[i] \in Slices
       /\ \E g \in 1 .. Len(layout) : \E l \in 1 .. Len(layout[g].layers) :
            /\ (layout[g].policy = "full") = (kind = "data")
            /\ segments[i] = SliceOf(layout, g, l, span, kind)
  /\ \A g \in 1 .. Len(layout) : (layout[g].policy = "full") = (kind = "data") =>
       \A l \in 1 .. Len(layout[g].layers) :
         \E i \in 1 .. Len(segments) : segments[i] = SliceOf(layout, g, l, span, kind)

\* Segments has these slices.
LEMMA SegmentsAre ==
  ASSUME NEW layout, NEW span, NEW kind, IsFile(layout, span, kind)
  PROVE  IsSegments(Segments(layout, span, kind), layout, span, kind)
<1> DEFINE seqs == [g \in 1 .. Len(layout) |-> GroupSegments(layout, g, span, kind)]
           F == Segments(layout, span, kind)
<1>1. F = FlattenSeq(seqs)
  BY DEF Segments, Indices
<1>2. Len(layout) \in Nat \ {0}
  BY DEF IsFile, IsLayout
<1>3. Len(seqs) = Len(layout)
  BY <1>2
<1>4. \A g \in 1 .. Len(layout) : seqs[g] = GroupSegments(layout, g, span, kind)
  OBVIOUS
<1> HIDE DEF seqs, F
<1>5. \A g \in 1 .. Len(seqs) : seqs[g] \in Seq(Slices)
  BY <1>3, <1>4, GroupSlices
<1>6. /\ F \in Seq(Slices)
      /\ \A g \in 1 .. Len(seqs) : \A l \in 1 .. Len(seqs[g]) :
           \E i \in 1 .. Len(F) : F[i] = seqs[g][l]
      /\ \A i \in 1 .. Len(F) :
           \E g \in 1 .. Len(seqs) : \E l \in 1 .. Len(seqs[g]) : F[i] = seqs[g][l]
  <2>1. Len(seqs) \in Nat \ {0}
    BY <1>2, <1>3
  <2>2. AreSequences(seqs, Slices)
    BY <2>1, <1>5 DEF AreSequences
  <2>3. F \in Seq(Slices) /\ IsFlat(F, seqs)
    BY <2>2, <1>1, FlattenElements
  <2> QED BY <2>3 DEF IsFlat
<1>7. Len(F) \in Nat /\ \A i \in 1 .. Len(F) : F[i] \in Slices
  BY <1>6
<1>8. ASSUME NEW i \in 1 .. Len(F)
      PROVE  \E g \in 1 .. Len(layout) : \E l \in 1 .. Len(layout[g].layers) :
               /\ (layout[g].policy = "full") = (kind = "data")
               /\ F[i] = SliceOf(layout, g, l, span, kind)
  <2>1. PICK g \in 1 .. Len(layout) : \E l \in 1 .. Len(seqs[g]) : F[i] = seqs[g][l]
    BY <1>3, <1>6
  <2>2. PICK l \in 1 .. Len(seqs[g]) : F[i] = seqs[g][l]
    BY <2>1
  <2>3. /\ l \in 1 .. Len(layout[g].layers)
        /\ (layout[g].policy = "full") = (kind = "data")
        /\ seqs[g][l] = SliceOf(layout, g, l, span, kind)
    BY <1>4, GroupSlices
  <2> QED BY <2>2, <2>3
<1>9. ASSUME NEW g \in 1 .. Len(layout), (layout[g].policy = "full") = (kind = "data"),
             NEW l \in 1 .. Len(layout[g].layers)
      PROVE  \E i \in 1 .. Len(F) : F[i] = SliceOf(layout, g, l, span, kind)
  <2>1. /\ Len(seqs[g]) = Len(layout[g].layers)
        /\ \A k \in 1 .. Len(seqs[g]) : seqs[g][k] = SliceOf(layout, g, k, span, kind)
    BY <1>4, <1>9, GroupSlices
  <2>2. g \in 1 .. Len(seqs) /\ l \in 1 .. Len(seqs[g])
    BY <1>3, <2>1
  <2>3. \E i \in 1 .. Len(F) : F[i] = seqs[g][l]
    BY <1>6, <2>2
  <2> QED BY <2>1, <2>2, <2>3
<1> QED BY <1>7, <1>8, <1>9 DEF IsSegments, F

\* They have a length each.
LEMMA SegmentsAreParts ==
  ASSUME NEW segments, NEW layout, NEW span, NEW kind,
         IsSegments(segments, layout, span, kind)
  PROVE  IsParts(segments)
BY DEF IsSegments, IsParts, Slices

\* A file is at most as long as one with as many pages of every group.
LEMMA LengthCompare ==
  ASSUME NEW layout, NEW a, NEW b, NEW kind, IsFile(layout, a, kind),
         IsFile(layout, b, kind),
         \A g \in 1 .. Len(layout) : (layout[g].policy = "full") = (kind = "data") =>
           CountOf(layout, g, a, kind) <= CountOf(layout, g, b, kind)
  PROVE  FileLength(layout, a, kind) <= FileLength(layout, b, kind)
<1> DEFINE s == [g \in 1 .. Len(layout) |-> GroupSegments(layout, g, a, kind)]
           t == [g \in 1 .. Len(layout) |-> GroupSegments(layout, g, b, kind)]
           F == Segments(layout, a, kind)
           G == Segments(layout, b, kind)
<1>1. F = FlattenSeq(s) /\ G = FlattenSeq(t)
  BY DEF Segments, Indices
<1>2. Len(layout) \in Nat \ {0}
  BY DEF IsFile, IsLayout
<1>3. Len(s) = Len(layout) /\ Len(t) = Len(layout)
  BY <1>2
<1>4. \A g \in 1 .. Len(layout) : /\ s[g] = GroupSegments(layout, g, a, kind)
                                  /\ t[g] = GroupSegments(layout, g, b, kind)
  OBVIOUS
<1> HIDE DEF s, t, F, G
<1>5. ASSUME NEW g \in 1 .. Len(layout)
      PROVE  /\ s[g] \in Seq(Slices) /\ t[g] \in Seq(Slices) /\ Len(s[g]) = Len(t[g])
             /\ \A l \in 1 .. Len(s[g]) : s[g][l].bytes <= t[g][l].bytes
  <2>1. s[g] = GroupSegments(layout, g, a, kind) /\ t[g] = GroupSegments(layout, g, b, kind)
    BY <1>4
  <2>2. /\ s[g] \in Seq(Slices) /\ CountOf(layout, g, a, kind) \in Nat
        /\ (layout[g].policy = "full") # (kind = "data") => s[g] = <<>>
        /\ (layout[g].policy = "full") = (kind = "data") =>
             Len(s[g]) = Len(layout[g].layers)
        /\ \A l \in 1 .. Len(s[g]) : /\ l \in 1 .. Len(layout[g].layers)
                                     /\ s[g][l] = SliceOf(layout, g, l, a, kind)
    BY <2>1, GroupSlices
  <2>3. /\ t[g] \in Seq(Slices) /\ CountOf(layout, g, b, kind) \in Nat
        /\ (layout[g].policy = "full") # (kind = "data") => t[g] = <<>>
        /\ (layout[g].policy = "full") = (kind = "data") =>
             Len(t[g]) = Len(layout[g].layers)
        /\ \A l \in 1 .. Len(t[g]) : t[g][l] = SliceOf(layout, g, l, b, kind)
    BY <2>1, GroupSlices
  <2>4. CASE (layout[g].policy = "full") # (kind = "data")
    BY <2>2, <2>3, <2>4
  <2>5. CASE (layout[g].policy = "full") = (kind = "data")
    <3>1. Len(s[g]) = Len(t[g])
      BY <2>2, <2>3, <2>5
    <3>2. ASSUME NEW l \in 1 .. Len(s[g]) PROVE s[g][l].bytes <= t[g][l].bytes
      <4> DEFINE c == CountOf(layout, g, a, kind)
                 d == CountOf(layout, g, b, kind)
                 x == layout[g].layers[l].bytes
      <4>1. c \in Nat /\ d \in Nat /\ c <= d
        BY <2>2, <2>3, <2>5
      <4>2. x \in Nat \ {0}
        <5>1. IsGeometry(layout[g])
          BY DEF IsFile, IsLayout
        <5>2. l \in 1 .. Len(layout[g].layers)
          BY <2>2
        <5> QED BY <5>1, <5>2 DEF IsGeometry
      <4>3. s[g][l].bytes = c * x /\ t[g][l].bytes = d * x
        <5>1. l \in 1 .. Len(t[g])
          BY <3>1
        <5>2. /\ s[g][l] = SliceOf(layout, g, l, a, kind)
              /\ t[g][l] = SliceOf(layout, g, l, b, kind)
          BY <5>1, <2>2, <2>3, Zenon
        <5> QED BY <5>2 DEF SliceOf
      <4> HIDE DEF c, d, x
      <4>4. c * x <= d * x
        BY <4>1, <4>2, Multiples
      <4> QED BY <4>3, <4>4
    <3> QED BY <3>1, <3>2, <2>2, <2>3
  <2> QED BY <2>4, <2>5
<1>6. Len(F) = Len(G) /\ \A i \in 1 .. Len(F) : F[i].bytes <= G[i].bytes
  <2>1. /\ Len(FlattenSeq(s)) = Len(FlattenSeq(t))
        /\ \A i \in 1 .. Len(FlattenSeq(s)) :
             FlattenSeq(s)[i].bytes <= FlattenSeq(t)[i].bytes
    BY <1>2, <1>3, <1>5, FlattenAlike
  <2> QED BY <2>1, <1>1
<1>7. IsParts(F) /\ IsParts(G)
  BY SegmentsAre, SegmentsAreParts DEF F, G
<1>8. Length(F) <= Length(G)
  BY <1>6, <1>7, SumsCompare
<1> QED BY <1>8 DEF FileLength, F, G

\* The names of the files of a prefix.
LEMMA NameIs ==
  ASSUME NEW layout, IsLayout(layout), IsAligned(layout), NEW span \in Nat \ {0},
         span % ChunkTokens(layout) = 0, NEW name \in ToSet(FilesOf(layout, span))
  PROVE  /\ IsFile(layout, name[1], name[2])
         /\ \/ /\ name[2] = "data"
               /\ \E i \in 1 .. span \div ChunkTokens(layout) :
                    name = <<i * ChunkTokens(layout), "data">>
            \/ /\ has_boundary_state(layout)
               /\ name = <<span, "state">>
<1> DEFINE names == FilesOf(layout, span)
           chunk == ChunkTokens(layout)
           n == span \div chunk
<1>1. IsFiles(names, layout, span)
  BY FilesAre
<1>2. PICK i \in DOMAIN names : name = names[i]
  BY DEF ToSet
<1> HIDE DEF names
<1>3. /\ n \in Nat \ {0} /\ chunk \in Nat \ {0}
      /\ Len(names) = (IF has_boundary_state(layout) THEN n + 1 ELSE n)
      /\ \A k \in 1 .. n : /\ names[k] = <<k * chunk, "data">>
                           /\ k * chunk \in Nat /\ chunk <= k * chunk
      /\ has_boundary_state(layout) => names[n + 1] = <<span, "state">>
      /\ i \in 1 .. Len(names)
  BY <1>1, <1>2 DEF IsFiles
<1>4. CASE i \in 1 .. n
  <2>1. name = <<i * chunk, "data">> /\ i * chunk \in Nat /\ chunk <= i * chunk
    BY <1>2, <1>3, <1>4
  <2> QED BY <2>1, <1>4 DEF IsFile
<1>5. CASE i \notin 1 .. n
  <2>1. has_boundary_state(layout) /\ i = n + 1
    BY <1>3, <1>5
  <2>2. name = <<span, "state">>
    BY <2>1, <1>2, <1>3
  <2> QED BY <2>1, <2>2 DEF IsFile
<1> QED BY <1>4, <1>5

\* Every group reaches back to at most the boundary that validate_layout measures.
LEMMA ReachSuffices ==
  ASSUME NEW layout, IsLayout(layout), IsAligned(layout),
         NEW g \in 1 .. Len(layout), layout[g].policy # "full", NEW span \in Nat,
         NEW far, far = Ceiling(Reach(layout), ChunkTokens(layout)) * ChunkTokens(layout)
  PROVE  /\ far \in Nat
         /\ selected_page_count(layout[g], span) <= selected_page_count(layout[g], far)
<1> DEFINE chunk == ChunkTokens(layout)
           w == layout[g].width
           reach == Reach(layout)
           f == [h \in 1 .. Len(layout) |->
                   IF layout[h].policy = "sliding" THEN layout[h].window
                   ELSE layout[h].width]
           k == Ceiling(reach, chunk)
<1>1. Len(layout) \in Nat \ {0} /\ \A h \in 1 .. Len(layout) : IsGeometry(layout[h])
  BY DEF IsLayout
<1>2. \A h \in 1 .. Len(layout) : f[h] \in Nat
  BY <1>1 DEF IsGeometry
<1>3. reach \in Nat /\ f[g] <= reach
  <2> DEFINE S == {f[h] : h \in 1 .. Len(layout)}
  <2>1. S = {IF layout[h].policy = "sliding" THEN layout[h].window ELSE layout[h].width :
               h \in 1 .. Len(layout)}
    OBVIOUS
  <2>2. reach = Max(S)
    BY <2>1 DEF Reach, Indices
  <2>3. S = {f[h] : h \in 1 .. Len(layout)}
    OBVIOUS
  <2> HIDE DEF S, reach, f
  <2>4. Max(S) \in Nat /\ \A h \in 1 .. Len(layout) : f[h] <= Max(S)
    BY <1>1, <1>2, <2>3, Greatest
  <2> QED BY <2>2, <2>4
<1>4. chunk \in Nat \ {0} /\ w \in Nat \ {0}
  BY <1>1, ChunkIs DEF IsGeometry
<1>5. far = k * chunk
  OBVIOUS
<1> HIDE DEF reach, chunk
<1>6. k \in Nat
  BY <1>3, <1>4, CeilingIs
<1>7. reach <= k * chunk
  <2>1. Ceiling(reach, chunk) <= k
    BY <1>6
  <2> QED BY <2>1, <1>3, <1>4, <1>6, CeilingIs
<1> HIDE DEF k
<1>8. far \in Nat
  BY <1>4, <1>5, <1>6
<1>9. CASE layout[g].policy = "sliding"
  <2> DEFINE c == Ceiling(layout[g].window - 1, w)
             b == far \div w
             a == span \div w
  <2>1. layout[g].window \in Nat /\ layout[g].window > 1 /\ f[g] = layout[g].window
    BY <1>1, <1>9 DEF IsGeometry
  <2>2. layout[g].window - 1 \in Nat /\ layout[g].window - 1 <= far
    BY <2>1, <1>3, <1>5, <1>7, <1>8
  <2>3. chunk % w = 0
    <3>1. chunk % AlignedWidth(layout[g]) = 0
      BY ChunkIs DEF chunk
    <3> QED BY <3>1, <1>9 DEF AlignedWidth
  <2> HIDE DEF w
  <2>4. chunk = (chunk \div w) * w /\ chunk \div w \in Nat
    BY <2>3, <1>4, Exact, Quotient
  <2>5. far = (k * (chunk \div w)) * w /\ k * (chunk \div w) \in Nat
    BY <2>4, <1>4, <1>5, <1>6
  <2>6. b = k * (chunk \div w) /\ b \in Nat /\ far = b * w
    BY <2>5, <1>4, Exact
  <2> HIDE DEF b
  <2>7. c \in Nat /\ (c <= b <=> layout[g].window - 1 <= b * w)
    BY <2>2, <2>6, <1>4, CeilingIs
  <2>8. c <= b
    BY <2>2, <2>6, <2>7
  <2>9. a \in Nat
    BY <1>4, Quotient
  <2> HIDE DEF c, a
  <2>10. Smaller(a, c) <= Smaller(b, c)
    BY <2>6, <2>7, <2>8, <2>9 DEF Smaller
  <2> QED BY <2>10, <1>8, <1>9 DEF selected_page_count, a, b, c, w
<1>10. CASE layout[g].policy # "sliding"
  BY <1>8, <1>10 DEF selected_page_count
<1> QED BY <1>8, <1>9, <1>10

\* The header of a file has room for its blocks.
LEMMA FileFits ==
  ASSUME NEW layout, IsLayout(layout), IsAligned(layout), ValidLayout(layout),
         NEW span \in Nat \ {0}, span % ChunkTokens(layout) = 0,
         NEW name \in ToSet(FilesOf(layout, span))
  PROVE  FileLength(layout, name[1], name[2]) <= SlotBytes * MaxBlocks
<1> DEFINE chunk == ChunkTokens(layout)
           far == Ceiling(Reach(layout), chunk) * chunk
<1>1. chunk \in Nat \ {0} /\ IsFile(layout, name[1], name[2])
  BY ChunkIs, NameIs
<1>2. /\ FileLength(layout, chunk, "data") <= SlotBytes * MaxBlocks
      /\ has_boundary_state(layout) =>
           FileLength(layout, far, "state") <= SlotBytes * MaxBlocks
  BY Zenon DEF ValidLayout
<1>3. ASSUME NEW a, NEW kind, IsFile(layout, a, kind)
      PROVE  FileLength(layout, a, kind) \in Nat
  <2>1. IsParts(Segments(layout, a, kind))
    BY <1>3, SegmentsAre, SegmentsAreParts
  <2> QED BY <2>1, SumsCompare, SumsGrow DEF FileLength, IsParts
<1>0. SlotBytes * MaxBlocks \in Nat
  BY LayoutAssumption
<1> HIDE DEF chunk, far
<1>4. CASE name[2] = "data"
  <2>1. IsFile(layout, chunk, "data") /\ IsFile(layout, name[1], "data")
    BY <1>1, <1>4 DEF IsFile, chunk
  <2>2. ASSUME NEW g \in 1 .. Len(layout)
        PROVE  CountOf(layout, g, name[1], "data") <= CountOf(layout, g, chunk, "data")
    <3>1. CountOf(layout, g, name[1], "data") = CountOf(layout, g, chunk, "data")
      BY DEF CountOf
    <3>2. CountOf(layout, g, chunk, "data") \in Nat
      BY <2>1, GroupSlices
    <3> QED BY <3>1, <3>2
  <2>3. FileLength(layout, name[1], "data") <= FileLength(layout, chunk, "data")
    BY <2>1, <2>2, LengthCompare
  <2> QED BY <2>1, <2>3, <1>0, <1>2, <1>3, <1>4
<1>5. CASE name[2] # "data"
  <2>1. /\ has_boundary_state(layout) /\ name = <<span, "state">>
        /\ name[1] = span /\ name[2] = "state"
    BY <1>5, NameIs
  <2>2. PICK g \in 1 .. Len(layout) : layout[g].policy # "full"
    BY <2>1 DEF has_boundary_state, Indices
  <2>3. far \in Nat
    BY <2>2, ReachSuffices DEF far, chunk
  <2>4. IsFile(layout, far, "state") /\ IsFile(layout, span, "state")
    BY <2>3 DEF IsFile
  <2>5. ASSUME NEW h \in 1 .. Len(layout), (layout[h].policy = "full") = ("state" = "data")
        PROVE  CountOf(layout, h, span, "state") <= CountOf(layout, h, far, "state")
    <3>1. layout[h].policy # "full"
      BY <2>5
    <3>2. selected_page_count(layout[h], span) <= selected_page_count(layout[h], far)
      BY <3>1, ReachSuffices DEF far, chunk
    <3> QED BY <3>2 DEF CountOf
  <2>6. FileLength(layout, span, "state") <= FileLength(layout, far, "state")
    BY <2>4, <2>5, LengthCompare
  <2>7. FileLength(layout, far, "state") <= SlotBytes * MaxBlocks
    BY <2>1, <1>2
  <2>8. /\ FileLength(layout, span, "state") \in Nat
        /\ FileLength(layout, far, "state") \in Nat
    BY <2>4, <1>3
  <2> HIDE DEF far
  <2>9. FileLength(layout, span, "state") <= SlotBytes * MaxBlocks
    BY <2>6, <2>7, <2>8, <1>0
  <2> QED BY <2>1, <2>9
<1> QED BY <1>4, <1>5

---------------------------------------------------------------------------
(* Plans.                                                                  *)

\* A plan of a scheduler, carried out by a worker that the handshake has let in.
LEMMA PlanIs ==
  ASSUME NEW config \in DOMAIN Layouts, NEW other \in DOMAIN Layouts,
         CoordinationDigest(config) = CoordinationDigest(other),
         NEW plan \in Planned[other]
  PROVE  /\ plan \in Plan /\ plan.span \in Spans /\ plan.span \in Nat \ {0}
         /\ plan.ahead \in Nat \ {0}
         /\ plan.span % ChunkTokens(Layouts[config]) = 0
         /\ Selectable(Layouts[config], Tables(other, plan), plan.span)
         /\ Selected[config][other][plan] =
              select_physical_pages(Layouts[config], Tables(other, plan), plan.span)
         /\ Selected[config][other][plan] =
              select_physical_pages(Layouts[other], Tables(other, plan), plan.span)
         /\ Selected[config][other][plan] = Selected[other][other][plan]
<1>1. /\ plan \in Plan
      /\ plan.span % ChunkTokens(Layouts[other]) = 0
      /\ Selectable(Layouts[other], Tables(other, plan), plan.span)
  BY DEF Planned
<1>2. plan.span \in Spans /\ plan.span \in Nat \ {0} /\ plan.ahead \in Nat \ {0}
  BY <1>1, RankAssumption DEF Plan
<1>3. plan.span % ChunkTokens(Layouts[config]) = 0
  BY <1>1, HandshakeFixesPages
<1>4. /\ Selectable(Layouts[config], Tables(other, plan), plan.span)
      /\ select_physical_pages(Layouts[config], Tables(other, plan), plan.span) =
           select_physical_pages(Layouts[other], Tables(other, plan), plan.span)
  BY <1>1, SameSelection
<1>5. ASSUME NEW c \in DOMAIN Layouts, plan.span % ChunkTokens(Layouts[c]) = 0,
             Selectable(Layouts[c], Tables(other, plan), plan.span)
      PROVE  Selected[c][other][plan] =
               select_physical_pages(Layouts[c], Tables(other, plan), plan.span)
  <2>1. IsLayout(Layouts[c]) /\ IsAligned(Layouts[c])
    BY LayoutIs
  <2>2. Covers(Layouts[c], plan.span, FilesOf(Layouts[c], plan.span))
    BY <2>1, <1>2, <1>5, CoversAlways
  <2>3. Selected[c] = [o \in DOMAIN Layouts |-> [p \in Plan |->
          LET layout == Layouts[c]
              tables == Tables(o, p)
          IN IF Selectable(layout, tables, p.span)
                /\ Covers(layout, p.span, FilesOf(layout, p.span))
             THEN select_physical_pages(layout, tables, p.span) ELSE <<>>]]
    BY Zenon DEF Selected
  <2>4. Selected[c][other] = [p \in Plan |->
          LET layout == Layouts[c]
              tables == Tables(other, p)
          IN IF Selectable(layout, tables, p.span)
                /\ Covers(layout, p.span, FilesOf(layout, p.span))
             THEN select_physical_pages(layout, tables, p.span) ELSE <<>>]
    BY <2>3, Zenon
  <2> QED BY <2>2, <2>4, <1>1, <1>5, Zenon
<1> QED BY <1>1, <1>2, <1>3, <1>4, <1>5

\* For any configurations, with or without pipeline stages: once the handshake has
\* let a worker in, no plan of its scheduler makes it raise, pick other pages, or
\* write a file whose header has no room for its blocks (validate_layout measures
\* one boundary; every other one is no longer).
THEOREM PlansAlwaysFeasible == RankSpec => []PlansFeasible
<1>1. ASSUME LayoutInv
      PROVE  PlansFeasible
  <2> SUFFICES ASSUME phase = "up"
               PROVE  Feasible[worker][scheduler]
    BY DEF PlansFeasible
  <2> DEFINE layout == Layouts[worker]
  <2>1. /\ worker \in DOMAIN Layouts /\ scheduler \in DOMAIN Layouts
        /\ CoordinationDigest(worker) = CoordinationDigest(scheduler)
        /\ ValidLayout(layout)
    BY <1>1 DEF LayoutInv, Bound
  <2>2. IsLayout(layout) /\ IsAligned(layout)
    BY <2>1, LayoutIs
  <2>3. ASSUME NEW plan \in Planned[scheduler]
        PROVE  /\ plan.span % ChunkTokens(layout) = 0
               /\ Selected[worker][scheduler][plan] =
                    select_physical_pages(Layouts[scheduler], Tables(scheduler, plan), plan.span)
               /\ \A name \in NamesOf[worker][plan.span] :
                    FileLength(layout, name[1], name[2]) <= SlotBytes * MaxBlocks
    <3>1. /\ plan.span \in Spans /\ plan.span \in Nat \ {0}
          /\ plan.span % ChunkTokens(layout) = 0
          /\ Selected[worker][scheduler][plan] =
               select_physical_pages(Layouts[scheduler], Tables(scheduler, plan), plan.span)
      BY <2>1, PlanIs
    <3>2. NamesOf[worker][plan.span] = ToSet(FilesOf(layout, plan.span))
      BY <2>1, <3>1 DEF NamesOf
    <3>3. \A name \in ToSet(FilesOf(layout, plan.span)) :
            FileLength(layout, name[1], name[2]) <= SlotBytes * MaxBlocks
      <4> HIDE DEF layout
      <4> QED BY <2>1, <2>2, <3>1, FileFits
    <3> QED BY <3>1, <3>2, <3>3
  <2>4. Feasible[worker] = [other \in DOMAIN Layouts |->
          \A plan \in Planned[other] :
            /\ plan.span % ChunkTokens(layout) = 0
            /\ Selected[worker][other][plan] =
                 select_physical_pages(Layouts[other], Tables(other, plan), plan.span)
            /\ \A name \in NamesOf[worker][plan.span] :
                 FileLength(layout, name[1], name[2]) <= SlotBytes * MaxBlocks]
    BY <2>1, Zenon DEF Feasible
  <2>5. Feasible[worker][scheduler] =
          \A plan \in Planned[scheduler] :
            /\ plan.span % ChunkTokens(layout) = 0
            /\ Selected[worker][scheduler][plan] =
                 select_physical_pages(Layouts[scheduler], Tables(scheduler, plan), plan.span)
            /\ \A name \in NamesOf[worker][plan.span] :
                 FileLength(layout, name[1], name[2]) <= SlotBytes * MaxBlocks
    BY <2>1, <2>4, Zenon
  <2> QED BY <2>3, <2>5, Zenon
<1> QED BY <1>1, LayoutBegins, RankKeepsLayout, PTL DEF RankSpec

---------------------------------------------------------------------------
(* The bytes of files.                                                     *)

\* The larger of two numbers.
LEMMA MaxOfTwo ==
  ASSUME NEW a \in Nat, NEW b \in Nat
  PROVE  Max({a, b}) = IF a >= b THEN a ELSE b
<1> DEFINE S == {a, b}
           m == IF a >= b THEN a ELSE b
<1>1. m \in S /\ \A y \in S : m >= y
  OBVIOUS
<1>2. ASSUME NEW x \in S, \A y \in S : x >= y PROVE x = m
  BY <1>2
<1>3. Max(S) \in S /\ \A y \in S : Max(S) >= y
  <2> HIDE DEF S, m
  <2> QED BY <1>1, Zenon DEF Max
<1> QED BY <1>2, <1>3

\* A file has a length.
LEMMA LengthIs ==
  ASSUME NEW parts, IsParts(parts)
  PROVE  Length(parts) \in Nat
<1>1. Len(parts) \in Nat /\ Length(parts) = Sums(parts)[Len(parts)]
  BY DEF Length, Start, IsParts
<1>2. \A j \in 0 .. Len(parts) : Sums(parts)[j] \in Nat
  BY SumsGrow
<1> QED BY <1>1, <1>2

\* Every position of a file is in exactly one slice.
LEMMA SumsLocate ==
  ASSUME NEW parts, IsParts(parts), NEW p \in Nat, p < Length(parts)
  PROVE  \E i \in 1 .. Len(parts) :
           Start(parts, i) <= p /\ p < Start(parts, i) + parts[i].bytes
<1> DEFINE n == Len(parts)
           T == {j \in 0 .. n : p < Sums(parts)[j]}
<1>1. n \in Nat /\ Length(parts) = Sums(parts)[n]
  BY DEF Length, Start, IsParts
<1>2. /\ Sums(parts)[0] = 0
      /\ \A j \in 1 .. n : Sums(parts)[j] = Sums(parts)[j - 1] + parts[j].bytes
      /\ \A j \in 0 .. n : Sums(parts)[j] \in Nat
  BY SumsGrow
<1>3. T \in SUBSET Nat /\ n \in T
  BY <1>1
<1>4. PICK i \in T : \A y \in T : i <= y
  <2> HIDE DEF T
  <2> QED BY <1>3, LeastNumber
<1>5. i \in 0 .. n /\ p < Sums(parts)[i] /\ i # 0
  BY <1>2
<1>6. i \in 1 .. n /\ i - 1 \in 0 .. n /\ i - 1 \notin T
  BY <1>1, <1>4, <1>5
<1>7. Sums(parts)[i - 1] <= p
  BY <1>2, <1>6
<1>8. /\ Start(parts, i) = Sums(parts)[i - 1]
      /\ Sums(parts)[i] = Sums(parts)[i - 1] + parts[i].bytes
  BY <1>2, <1>6 DEF Start
<1> QED BY <1>5, <1>6, <1>7, <1>8

\* A position is inside a slice.
Inside(parts, i, p) == Start(parts, i) <= p /\ p < Start(parts, i) + parts[i].bytes

\* A position is inside one slice only.
LEMMA InsideOne ==
  ASSUME NEW parts, IsParts(parts), NEW i \in 1 .. Len(parts), NEW p \in Nat,
         Inside(parts, i, p)
  PROVE  /\ Start(parts, i) \in Nat /\ parts[i].bytes \in Nat
         /\ Length(parts) \in Nat /\ p < Length(parts)
         /\ \A j \in 1 .. Len(parts) : Inside(parts, j, p) => j = i
<1> DEFINE n == Len(parts)
<1>1. n \in Nat /\ Length(parts) = Sums(parts)[n]
  BY DEF Length, Start, IsParts
<1>2. /\ \A j \in 1 .. n : Sums(parts)[j] = Sums(parts)[j - 1] + parts[j].bytes
      /\ \A j \in 0 .. n : Sums(parts)[j] \in Nat
      /\ \A k, j \in 0 .. n : k <= j => Sums(parts)[k] <= Sums(parts)[j]
  BY SumsGrow
<1>3. /\ i - 1 \in 0 .. n /\ i \in 0 .. n /\ n \in 0 .. n
      /\ Start(parts, i) = Sums(parts)[i - 1]
  BY <1>1 DEF Start
<1>4. Start(parts, i) \in Nat /\ parts[i].bytes \in Nat
  BY <1>2, <1>3 DEF IsParts
<1>5. Sums(parts)[i] <= Sums(parts)[n]
  BY <1>1, <1>2, <1>3
<1>6. p < Sums(parts)[i] /\ Sums(parts)[i - 1] <= p
  BY <1>2, <1>3 DEF Inside
<1>7. p < Length(parts) /\ Length(parts) \in Nat
  BY <1>1, <1>2, <1>3, <1>5, <1>6
<1>8. ASSUME NEW j \in 1 .. n, Inside(parts, j, p) PROVE j = i
  <2>1. j - 1 \in 0 .. n /\ j \in 0 .. n /\ Start(parts, j) = Sums(parts)[j - 1]
    BY <1>1 DEF Start
  <2>2. p < Sums(parts)[j] /\ Sums(parts)[j - 1] <= p
    BY <1>2, <1>8, <2>1 DEF Inside
  <2>3. CASE j < i
    <3>1. Sums(parts)[j] <= Sums(parts)[i - 1]
      BY <1>2, <1>3, <2>1, <2>3
    <3>2. Sums(parts)[j] \in Nat /\ Sums(parts)[i - 1] \in Nat
      BY <1>2, <1>3, <2>1
    <3> QED BY ONLY <3>1, <3>2, <1>6, <2>2, p \in Nat
  <2>4. CASE i < j
    <3>1. Sums(parts)[i] <= Sums(parts)[j - 1]
      BY <1>2, <1>3, <2>1, <2>4
    <3>2. Sums(parts)[i] \in Nat /\ Sums(parts)[j - 1] \in Nat
      BY <1>2, <1>3, <2>1
    <3> QED BY ONLY <3>1, <3>2, <1>6, <2>2, p \in Nat
  <2> QED BY <2>3, <2>4
<1> QED BY <1>4, <1>7, <1>8

\* The byte ranges of the transfer blocks do not show: a position of a file is the
\* byte at the same distance from the start of its slice.
LEMMA ByteIs ==
  ASSUME NEW segments, IsParts(segments), NEW i \in 1 .. Len(segments), NEW p \in Nat,
         Inside(segments, i, p), NEW from, from = p - Start(segments, i)
  PROVE  ByteOf(segments, p) =
           <<segments[i].group, segments[i].layer,
             segments[i].start + from \div segments[i].page + 1,
             from % segments[i].page>>
<1> DEFINE start == (p \div SlotBytes) * SlotBytes
           len == BlockLength(segments, start)
           S(j) == Start(segments, j)
           B(j) == Max({S(j), start})
           E(j) == Smaller(S(j) + segments[j].bytes, start + len)
           Piece(j) == [segment |-> segments[j], offset |-> B(j) - S(j),
                        size |-> E(j) - B(j), cursor |-> B(j) - start]
           pieces == segment_byte_ranges(segments, start, len)
           Good(q) == q.cursor <= p - start /\ p - start < q.cursor + q.size
<1>1. start \in Nat /\ start <= p /\ p < start + SlotBytes
  <2>1. /\ p \div SlotBytes \in Nat /\ p % SlotBytes \in 0 .. SlotBytes - 1
        /\ p = (p \div SlotBytes) * SlotBytes + (p % SlotBytes)
    BY LayoutAssumption, Quotient
  <2>2. start \in Nat
    BY <2>1, LayoutAssumption
  <2> QED BY <2>1, <2>2, LayoutAssumption
<1> HIDE DEF start
<1>2. /\ Length(segments) \in Nat /\ p < Length(segments)
      /\ \A j \in 1 .. Len(segments) : Inside(segments, j, p) => j = i
  BY InsideOne
<1>3. len \in Nat /\ p < start + len
  BY <1>1, <1>2, LayoutAssumption DEF BlockLength, Smaller
<1> HIDE DEF len
<1>4. ASSUME NEW j \in 1 .. Len(segments)
      PROVE  /\ S(j) \in Nat /\ segments[j].bytes \in Nat /\ B(j) \in Nat /\ E(j) \in Nat
             /\ B(j) <= p <=> S(j) <= p
             /\ p < E(j) <=> p < S(j) + segments[j].bytes
  <2>1. S(j) \in Nat /\ segments[j].bytes \in Nat
    <3>1. j - 1 \in 0 .. Len(segments)
      BY DEF IsParts
    <3> QED BY <3>1, SumsGrow DEF Start, IsParts
  <2> HIDE DEF S
  <2>2. B(j) = IF S(j) >= start THEN S(j) ELSE start
    BY <2>1, <1>1, MaxOfTwo
  <2>3. B(j) \in Nat /\ (B(j) <= p <=> S(j) <= p)
    BY <2>1, <2>2, <1>1
  <2>4. E(j) \in Nat /\ (p < E(j) <=> p < S(j) + segments[j].bytes)
    BY <2>1, <1>1, <1>3 DEF Smaller
  <2> QED BY <2>1, <2>3, <2>4
<1>5. pieces = {Piece(j) : j \in {k \in 1 .. Len(segments) : B(k) < E(k)}}
  BY Zenon DEF segment_byte_ranges, Indices
<1>6. ByteOf(segments, p) =
        LET piece == CHOOSE q \in pieces : Good(q)
            where == PageByte(piece, p - start - piece.cursor)
        IN <<piece.segment.group, piece.segment.layer, where.page, where.at>>
  BY Zenon DEF ByteOf, start, len
<1>0. from = p - S(i)
  OBVIOUS
<1>7. S(i) <= p /\ p < S(i) + segments[i].bytes
  BY DEF Inside
<1>11. ASSUME NEW j \in 1 .. Len(segments), B(j) <= p, p < E(j)
       PROVE  j = i
  BY <1>2, <1>4, <1>11 DEF Inside
<1> HIDE DEF S, B, E, pieces
<1>8. B(i) <= p /\ p < E(i) /\ B(i) \in Nat /\ E(i) \in Nat /\ S(i) \in Nat
  BY <1>4, <1>7
<1>9. Piece(i) \in pieces /\ Good(Piece(i))
  <2>1. B(i) < E(i)
    BY <1>8
  <2>2. Piece(i) \in pieces
    BY <1>5, <2>1
  <2>3. Good(Piece(i))
    BY <1>1, <1>8
  <2> QED BY <2>2, <2>3
<1>10. ASSUME NEW q \in pieces, Good(q)
       PROVE  q = Piece(i)
  <2>1. PICK j \in 1 .. Len(segments) : B(j) < E(j) /\ q = Piece(j)
    BY <1>5
  <2>2. B(j) \in Nat /\ E(j) \in Nat
    BY <1>4
  <2>3. B(j) - start <= p - start /\ p - start < (B(j) - start) + (E(j) - B(j))
    BY <1>10, <2>1
  <2>4. B(j) <= p /\ p < E(j)
    BY <2>2, <2>3, <1>1
  <2>5. j = i
    BY <2>4, <1>11
  <2> QED BY <2>1, <2>5
<1> DEFINE piece == CHOOSE q \in pieces : Good(q)
<1>12. piece = Piece(i)
  <2>1. piece \in pieces /\ Good(piece)
    <3> HIDE DEF Good, Piece
    <3> QED BY <1>9, Zenon
  <2> HIDE DEF piece
  <2> QED BY <2>1, <1>10
<1> HIDE DEF piece
<1>13. /\ piece.segment = segments[i] /\ piece.offset = B(i) - S(i)
       /\ piece.cursor = B(i) - start
  BY <1>12
<1>14. piece.offset + (p - start - piece.cursor) = from
  BY <1>0, <1>1, <1>8, <1>13
<1>15. PageByte(piece, p - start - piece.cursor) =
         [page |-> segments[i].start + from \div segments[i].page + 1,
          at |-> from % segments[i].page]
  BY <1>13, <1>14 DEF PageByte
<1>16. ByteOf(segments, p) =
         <<piece.segment.group, piece.segment.layer,
           PageByte(piece, p - start - piece.cursor).page,
           PageByte(piece, p - start - piece.cursor).at>>
  BY <1>6, Zenon DEF piece
<1> QED BY <1>13, <1>15, <1>16

\* A place of a file: a byte of a page of a layer that the file has.
IsPlace(place, layout, span, kind) ==
  \E g \in 1 .. Len(layout) : \E l \in 1 .. Len(layout[g].layers) :
    \E k \in StartOf(layout, g, span, kind) + 1 ..
             StartOf(layout, g, span, kind) + CountOf(layout, g, span, kind) :
      \E at \in 0 .. layout[g].layers[l].bytes - 1 :
        /\ (layout[g].policy = "full") = (kind = "data")
        /\ place = <<g, l, k, at>>

\* Every position of a file is a place of it.
LEMMA PlacesIn ==
  ASSUME NEW layout, NEW span, NEW kind, IsFile(layout, span, kind),
         NEW segments, segments = Segments(layout, span, kind),
         NEW p \in 0 .. Length(segments) - 1
  PROVE  IsPlace(ByteOf(segments, p), layout, span, kind)
<1>1. IsSegments(segments, layout, span, kind)
  BY SegmentsAre
<1>2. IsParts(segments)
  BY <1>1, SegmentsAreParts
<1>3. Length(segments) \in Nat
  BY <1>2, SumsCompare, SumsGrow DEF IsParts
<1>4. p \in Nat /\ p < Length(segments)
  BY <1>3
<1>5. PICK i \in 1 .. Len(segments) : Inside(segments, i, p)
  BY <1>2, <1>4, SumsLocate DEF Inside
<1> DEFINE from == p - Start(segments, i)
           s == segments[i]
<1>6. ByteOf(segments, p) =
        <<s.group, s.layer, s.start + from \div s.page + 1, from % s.page>>
  BY <1>2, <1>4, <1>5, ByteIs
<1>7. Start(segments, i) \in Nat /\ s.bytes \in Nat
  BY <1>2, <1>4, <1>5, InsideOne
<1>8. from \in Nat /\ from < s.bytes
  BY <1>4, <1>5, <1>7 DEF Inside
<1>9. PICK g \in 1 .. Len(layout) : \E l \in 1 .. Len(layout[g].layers) :
            /\ (layout[g].policy = "full") = (kind = "data")
            /\ s = SliceOf(layout, g, l, span, kind)
  BY <1>1 DEF IsSegments
<1>10. PICK l \in 1 .. Len(layout[g].layers) :
            /\ (layout[g].policy = "full") = (kind = "data")
            /\ s = SliceOf(layout, g, l, span, kind)
  BY <1>9
<1> DEFINE a == StartOf(layout, g, span, kind)
           c == CountOf(layout, g, span, kind)
           z == layout[g].layers[l].bytes
<1>11. /\ s.group = g /\ s.layer = l /\ s.start = a /\ s.page = z /\ s.bytes = c * z
  BY <1>10 DEF SliceOf
<1>12. a \in Nat /\ c \in Nat
  BY GroupSlices
<1>13. z \in Nat \ {0}
  <2>1. IsGeometry(layout[g])
    BY DEF IsFile, IsLayout
  <2> QED BY <2>1 DEF IsGeometry
<1> HIDE DEF from, s, a, c, z
<1> DEFINE q == from \div z
           r == from % z
<1>14. q \in Nat /\ r \in 0 .. z - 1 /\ from = q * z + r
  BY <1>8, <1>13, Quotient
<1> HIDE DEF q, r
<1>15. q < c
  <2>1. q * z < c * z
    <3>1. q * z \in Nat /\ c * z \in Nat
      BY <1>12, <1>13, <1>14
    <3> QED BY <3>1, <1>8, <1>11, <1>13, <1>14
  <2> QED BY <2>1, <1>12, <1>13, <1>14, Multiples
<1>16. a + q + 1 \in a + 1 .. a + c
  BY <1>12, <1>14, <1>15
<1>17. ByteOf(segments, p) = <<g, l, a + q + 1, r>>
  BY <1>6, <1>11 DEF q, r
<1>18. (layout[g].policy = "full") = (kind = "data")
  BY <1>10
<1> QED BY <1>14, <1>16, <1>17, <1>18 DEF IsPlace, a, c, z

\* Every place of a file has a position.
LEMMA PlacesAll ==
  ASSUME NEW layout, NEW span, NEW kind, IsFile(layout, span, kind),
         NEW segments, segments = Segments(layout, span, kind),
         NEW place, IsPlace(place, layout, span, kind)
  PROVE  \E p \in 0 .. Length(segments) - 1 : ByteOf(segments, p) = place
<1>1. IsSegments(segments, layout, span, kind)
  BY SegmentsAre
<1>2. IsParts(segments)
  BY <1>1, SegmentsAreParts
<1>3. PICK g \in 1 .. Len(layout) : \E l \in 1 .. Len(layout[g].layers) :
        \E k \in StartOf(layout, g, span, kind) + 1 ..
                 StartOf(layout, g, span, kind) + CountOf(layout, g, span, kind) :
          \E at \in 0 .. layout[g].layers[l].bytes - 1 :
            /\ (layout[g].policy = "full") = (kind = "data")
            /\ place = <<g, l, k, at>>
  BY DEF IsPlace
<1>4. PICK l \in 1 .. Len(layout[g].layers) :
        \E k \in StartOf(layout, g, span, kind) + 1 ..
                 StartOf(layout, g, span, kind) + CountOf(layout, g, span, kind) :
          \E at \in 0 .. layout[g].layers[l].bytes - 1 :
            /\ (layout[g].policy = "full") = (kind = "data")
            /\ place = <<g, l, k, at>>
  BY <1>3
<1> DEFINE a == StartOf(layout, g, span, kind)
           c == CountOf(layout, g, span, kind)
           z == layout[g].layers[l].bytes
<1>5. PICK k \in a + 1 .. a + c, at \in 0 .. z - 1 :
        /\ (layout[g].policy = "full") = (kind = "data")
        /\ place = <<g, l, k, at>>
  BY <1>4
<1>6. PICK i \in 1 .. Len(segments) : segments[i] = SliceOf(layout, g, l, span, kind)
  BY <1>1, <1>5 DEF IsSegments
<1> DEFINE s == segments[i]
<1>7. /\ s.group = g /\ s.layer = l /\ s.start = a /\ s.page = z /\ s.bytes = c * z
  BY <1>6 DEF SliceOf
<1>8. a \in Nat /\ c \in Nat
  BY GroupSlices
<1>9. z \in Nat \ {0}
  <2>1. IsGeometry(layout[g])
    BY DEF IsFile, IsLayout
  <2> QED BY <2>1 DEF IsGeometry
<1>10. Start(segments, i) \in Nat
  <2>1. i - 1 \in 0 .. Len(segments)
    BY <1>2 DEF IsParts
  <2> QED BY <2>1, <1>2, SumsGrow DEF Start
<1> HIDE DEF s, a, c, z
<1> DEFINE q == k - a - 1
           from == q * z + at
           p == Start(segments, i) + from
<1>11. q \in Nat /\ q < c /\ k = a + q + 1
  BY <1>5, <1>8
<1>20. at \in Nat /\ at < z
  BY <1>5, <1>9
<1> HIDE DEF q
<1>12. q * z \in Nat /\ q * z + z <= c * z
  BY <1>8, <1>9, <1>11, Multiples
<1>13. from \in Nat /\ from < s.bytes
  <2>1. c * z \in Nat
    BY <1>8, <1>9
  <2> QED BY <2>1, <1>7, <1>9, <1>12, <1>20
<1>14. from \div z = q /\ from % z = at
  <2>1. q \in Nat /\ z \in Nat \ {0} /\ at \in 0 .. z - 1
    BY <1>9, <1>11
  <2>2. (q * z + at) \div z = q /\ (q * z + at) % z = at
    BY <2>1, QuotientOf, Zenon
  <2> QED BY <2>2
<1> HIDE DEF q, from
<1>15. p \in Nat /\ Inside(segments, i, p) /\ p - Start(segments, i) = from
  <2>1. s.bytes \in Nat
    BY <1>2 DEF IsParts, s
  <2>2. /\ p \in Nat /\ p - Start(segments, i) = from /\ Start(segments, i) <= p
        /\ p < Start(segments, i) + s.bytes
    BY <2>1, <1>10, <1>13
  <2> QED BY <2>2 DEF Inside, s
<1> HIDE DEF p
<1>16. ByteOf(segments, p) =
         <<s.group, s.layer, s.start + from \div s.page + 1, from % s.page>>
  BY <1>2, <1>15, ByteIs DEF s
<1>17. ByteOf(segments, p) = <<g, l, a + q + 1, at>>
  BY <1>7, <1>14, <1>16
<1>18. ByteOf(segments, p) = place
  BY <1>5, <1>11, <1>17
<1>19. p \in 0 .. Length(segments) - 1
  <2>1. Length(segments) \in Nat /\ p < Length(segments)
    BY <1>2, <1>15, InsideOne
  <2> QED BY <2>1, <1>15
<1> QED BY <1>18, <1>19

---------------------------------------------------------------------------
(* The pages of a plan.                                                    *)

\* The page that stands at k among those that a group selects at a boundary.
PageAt(group, span, ahead, k) ==
  CASE group.policy = "full" -> k
    [] group.policy = "sliding" ->
         (span \div group.width - selected_page_count(group, span)) + k
    [] group.policy = "recurrent_align" -> Ceiling(span + ahead, group.width)
    [] OTHER -> 1

\* A group of vLLM has the pages of a geometry.
Tabled(group, vgroup) ==
  /\ IsGeometry(group)
  /\ WidthOf(vgroup) = group.width
  /\ PolicyOf(vgroup)[1] = group.policy /\ PolicyOf(vgroup)[2] = group.window
  /\ group.policy = "recurrent_align" => Tails(vgroup) = {group.tail}

\* Pages that the selection accepts.
AreSelected(pages, group, table, span) ==
  /\ pages = Slice(group, table, span)
  /\ Len(pages) = selected_page_count(group, span)
  /\ 0 \notin ToSet(pages)

\* An element of a part of a sequence.
LEMMA SubSeqAt ==
  ASSUME NEW s \in Seq(Nat), NEW m \in Nat, NEW n \in Nat, 1 <= m, n <= Len(s),
         NEW k \in 1 .. (n + 1) - m
  PROVE  SubSeq(s, m, n)[k] = s[(m + k) - 1] /\ k \in DOMAIN SubSeq(s, m, n)
<1>1. m \in 1 .. Len(s) + 1 /\ n \in m - 1 .. Len(s)
  BY LenProperties
<1>2. /\ Len(SubSeq(s, m, n)) = (n - m) + 1
      /\ \A i \in 1 .. (n - m) + 1 : SubSeq(s, m, n)[i] = s[(m + i) - 1]
      /\ SubSeq(s, m, n) \in Seq(Nat)
  BY <1>1
<1> QED BY <1>2

\* Behind the boundary of a window, and in the table of all pages.
LEMMA SliceOfAll ==
  ASSUME NEW group, NEW vgroup, Tabled(group, vgroup), NEW span \in Nat \ {0},
         NEW ahead \in Nat \ {0}, NEW pages,
         AreSelected(pages, group, BlockTable(vgroup, span, ahead), span),
         group.policy \in {"full", "sliding"},
         NEW k \in 1 .. selected_page_count(group, span)
  PROVE  pages[k] = (span \div group.width - selected_page_count(group, span)) + k
<1> DEFINE w == group.width
           b == span \div w
           n == Ceiling(span + ahead, w)
           c == selected_page_count(group, span)
           table == BlockTable(vgroup, span, ahead)
<1>1. w \in Nat \ {0} /\ b \in Nat /\ c \in Nat /\ n \in Nat
  <2>1. IsGeometry(group) /\ w \in Nat \ {0}
    BY DEF Tabled, IsGeometry
  <2>2. b \in Nat
    BY <2>1, Quotient
  <2>3. span + ahead \in Nat
    OBVIOUS
  <2>4. n \in Nat
    BY <2>1, <2>3, CeilingIs
  <2>5. c \in Nat
    BY <2>1, PageCount
  <2> QED BY <2>1, <2>2, <2>4, <2>5
<1>2. c <= b
  <2>1. CASE group.policy = "full"
    BY <2>1, <1>1 DEF selected_page_count
  <2>2. CASE group.policy = "sliding"
    <3>1. group.window - 1 \in Nat
      BY <2>2 DEF Tabled, IsGeometry
    <3>2. Ceiling(group.window - 1, w) \in Nat
      BY <3>1, <1>1, CeilingIs
    <3> QED BY <2>2, <3>2, <1>1 DEF selected_page_count, Smaller
  <2> QED BY <2>1, <2>2
<1>3. /\ table \in Seq(Nat) /\ Len(table) = n
      /\ \A i \in 1 .. n : table[i] \in {0, i}
  <2> DEFINE policy == PolicyOf(vgroup)
             P(i) == i * w + policy[2] - 1 <= span
  <2>0. WidthOf(vgroup) = w /\ policy[1] = group.policy
    BY DEF Tabled
  <2> HIDE DEF n, w, P
  <2>1. CASE group.policy = "full"
    <3>1. table = [i \in 1 .. n |-> i]
      BY <2>0, <2>1 DEF BlockTable, n
    <3> HIDE DEF table
    <3> QED BY <3>1, <1>1
  <2>2. CASE group.policy = "sliding"
    <3>1. table = [i \in 1 .. n |-> IF P(i) THEN 0 ELSE i]
      BY <2>0, <2>2 DEF BlockTable, n, P
    <3> HIDE DEF table
    <3> QED BY <3>1, <1>1
  <2> QED BY <2>1, <2>2
<1>4. pages = IF Len(table) < b THEN <<>> ELSE SubSeq(table, (b - c) + 1, b)
  BY DEF AreSelected, Slice
<1>5. Len(pages) = c /\ 0 \notin {pages[i] : i \in DOMAIN pages}
  BY DEF AreSelected, ToSet
<1> HIDE DEF w, b, n, c, table
<1>6. k \in 1 .. c /\ c # 0 /\ k \in Nat
  BY <1>1 DEF c
<1>7. ~ (n < b) /\ pages = SubSeq(table, (b - c) + 1, b)
  BY <1>3, <1>4, <1>5, <1>6
<1>8. pages[k] = table[(((b - c) + 1) + k) - 1] /\ k \in DOMAIN pages
  <2>1. /\ (b - c) + 1 \in Nat /\ 1 <= (b - c) + 1 /\ b <= Len(table)
        /\ k \in 1 .. (b + 1) - ((b - c) + 1)
    BY <1>1, <1>2, <1>3, <1>6, <1>7
  <2> QED BY <2>1, <1>1, <1>3, <1>7, SubSeqAt
<1>9. (((b - c) + 1) + k) - 1 = (b - c) + k /\ (b - c) + k \in 1 .. n
  BY <1>1, <1>2, <1>6, <1>7
<1>10. pages[k] \in {0, (b - c) + k} /\ pages[k] # 0
  BY <1>3, <1>5, <1>8, <1>9
<1> QED BY <1>10 DEF b, c, w

\* The pages of any group.
LEMMA SlicePages ==
  ASSUME NEW group, NEW vgroup, Tabled(group, vgroup), NEW span \in Nat \ {0},
         NEW ahead \in Nat \ {0}, NEW pages,
         AreSelected(pages, group, BlockTable(vgroup, span, ahead), span),
         NEW k \in 1 .. selected_page_count(group, span)
  PROVE  pages[k] = PageAt(group, span, ahead, k)
<1> DEFINE w == group.width
           n == Ceiling(span + ahead, w)
           table == BlockTable(vgroup, span, ahead)
<1>1. /\ group.policy \in {"full", "sliding", "recurrent_align", "circular_one"}
      /\ w \in Nat \ {0} /\ group.tail \in Nat
  BY DEF Tabled, IsGeometry
<1>2. CASE group.policy = "full"
  <2>1. pages[k] = (span \div w - selected_page_count(group, span)) + k
    BY <1>2, SliceOfAll
  <2>2. selected_page_count(group, span) = span \div w /\ span \div w \in Nat
    BY <1>1, <1>2, Quotient DEF selected_page_count
  <2>3. pages[k] = k
    BY <2>1, <2>2
  <2> QED BY <2>3, <1>2 DEF PageAt
<1>3. CASE group.policy = "sliding"
  <2>1. pages[k] = (span \div w - selected_page_count(group, span)) + k
    BY <1>3, SliceOfAll
  <2> QED BY <2>1, <1>3 DEF PageAt
<1>4. CASE group.policy = "recurrent_align"
  <2>1. /\ WidthOf(vgroup) = w /\ PolicyOf(vgroup)[1] = "recurrent_align"
        /\ Tails(vgroup) = {group.tail}
    BY <1>4 DEF Tabled
  <2>2. Max({group.tail}) = group.tail
    <3>1. group.tail >= group.tail
      BY <1>1
    <3> QED BY <3>1, Zenon DEF Max
  <2>3. n \in Nat /\ n # 0
    <3>1. span + ahead \in Nat /\ span + ahead > 0
      OBVIOUS
    <3>2. n \in Nat /\ (n <= 0 <=> span + ahead <= 0 * w)
      BY <3>1, <1>1, CeilingIs
    <3> QED BY <3>1, <3>2, <1>1
  <2>4. selected_page_count(group, span) = 1 /\ k = 1
    BY <1>4 DEF selected_page_count
  <2> DEFINE t == group.tail
  <2> HIDE DEF n, t
  <2>5. table = [i \in 1 .. n + t |-> IF i < n THEN 0 ELSE i]
    BY <2>1, <2>2 DEF BlockTable, n, t
  <2> HIDE DEF table
  <2>6. Len(table) - t = n /\ table[n] = n
    BY <2>3, <2>5, <1>1 DEF t
  <2>7. pages = IF Len(table) - t > span \div w THEN <<table[Len(table) - t]>> ELSE <<>>
    BY <1>4 DEF AreSelected, Slice, table, t
  <2>8. pages = <<n>>
    <3>1. Len(pages) = 1
      BY <2>4 DEF AreSelected
    <3> QED BY <3>1, <2>6, <2>7
  <2>9. pages[k] = n
    BY <2>4, <2>8
  <2> QED BY <2>9, <1>4 DEF PageAt, n
<1>5. CASE group.policy = "circular_one"
  <2>1. table = <<1>>
    BY <1>5 DEF Tabled, BlockTable
  <2>2. pages = <<1>>
    BY <1>5, <2>1 DEF AreSelected, Slice
  <2>3. selected_page_count(group, span) = 1 /\ k = 1
    BY <1>5 DEF selected_page_count
  <2>4. pages[k] = 1
    BY <2>2, <2>3
  <2> QED BY <2>4, <1>5 DEF PageAt
<1> QED BY <1>1, <1>2, <1>3, <1>4, <1>5

\* The byte that belongs at a place of a file.
ByteIn(group, l, span, k, at) ==
  <<group.layers[l].name,
    CASE group.policy = "full" -> <<"tokens", (k - 1) * group.width>>
      [] group.policy = "sliding" ->
           <<"tokens",
             (((span \div group.width - selected_page_count(group, span)) + k) - 1)
               * group.width>>
      [] OTHER -> <<"state", span>>,
    group.layers[l].bytes, at>>

\* The same, for a file by its name.
FileByte(layout, name, place) ==
  ByteIn(layout[place[1]], place[2], name[1], place[3], place[4])

\* The byte that is right for a page.
RightOf(group, l, span, page, at) ==
  <<group.layers[l].name,
    IF group.policy \in {"full", "sliding"}
    THEN <<"tokens", (page - 1) * group.width>> ELSE <<"state", span>>,
    group.layers[l].bytes, at>>

\* What is right for a page, by the geometry.
LEMMA RightIs ==
  ASSUME NEW group, NEW vgroup, Describes(group, vgroup),
         NEW l \in 1 .. Len(group.layers), NEW span, NEW page, NEW at
  PROVE  RightByte(vgroup, l, span, page, at) = RightOf(group, l, span, page, at)
<1>1. /\ reuse_policy(vgroup, vgroup.layers[l])[1] = group.policy
      /\ group.width = WidthOf(vgroup)
      /\ group.layers[l].name = vgroup.layers[l].name
      /\ group.layers[l].bytes = vgroup.layers[l].bytes
  BY DEF Describes
<1> QED BY <1>1 DEF RightByte, RightOf

\* The pages that a worker picks for a plan of its scheduler.
LEMMA SelectedPage ==
  ASSUME NEW config \in DOMAIN Layouts, NEW other \in DOMAIN Layouts,
         CoordinationDigest(config) = CoordinationDigest(other),
         NEW plan \in Planned[other], NEW g \in 1 .. Len(Layouts[config]),
         NEW k \in 1 .. selected_page_count(Layouts[config][g], plan.span)
  PROVE  Selected[config][other][plan][g][k] =
           PageAt(Layouts[config][g], plan.span, plan.ahead, k)
<1> DEFINE layout == Layouts[config]
           group == layout[g]
           vgroup == Configs[other][g]
           tables == Tables(other, plan)
           pages == Selected[config][other][plan][g]
<1>1. /\ plan.span \in Nat \ {0} /\ plan.ahead \in Nat \ {0}
      /\ Selectable(layout, tables, plan.span)
      /\ Selected[config][other][plan] = select_physical_pages(layout, tables, plan.span)
  BY PlanIs
<1>2. g \in Indices(layout) /\ g \in 1 .. Len(Layouts[other])
      /\ SamePages(group, Layouts[other][g])
  BY HandshakeFixesPages DEF Indices
<1>3. Describes(Layouts[other][g], vgroup)
  BY <1>2, GeometryIs
<1>4. IsGeometry(group)
  BY LayoutIs DEF IsLayout
<1>5. Tabled(group, vgroup)
  BY <1>2, <1>3, <1>4 DEF Tabled, Describes, SamePages
<1>6. tables[g] = BlockTable(vgroup, plan.span, plan.ahead)
  <2>1. IsSequence(Configs[other]) /\ Len(Layouts[other]) = Len(Configs[other])
    BY RankAssumption, LayoutShape DEF Layouts, IsConfiguration
  <2>2. DOMAIN Configs[other] = 1 .. Len(Configs[other])
    BY <2>1, SequenceIs
  <2>3. g \in DOMAIN Configs[other]
    BY <1>2, <2>1, <2>2
  <2> QED BY <2>3 DEF Tables
<1>7. AreSelected(pages, group, tables[g], plan.span)
  <2>1. pages = Slice(group, tables[g], plan.span)
    BY <1>1, <1>2 DEF select_physical_pages
  <2>2. /\ Len(Slice(group, tables[g], plan.span)) = selected_page_count(group, plan.span)
        /\ 0 \notin ToSet(Slice(group, tables[g], plan.span))
    BY <1>1, <1>2, Zenon DEF Selectable
  <2> QED BY <2>1, <2>2 DEF AreSelected
<1> HIDE DEF group, vgroup, tables, pages
<1>8. k \in 1 .. selected_page_count(group, plan.span)
  BY DEF group
<1>9. pages[k] = PageAt(group, plan.span, plan.ahead, k)
  BY <1>1, <1>5, <1>6, <1>7, <1>8, SlicePages
<1> QED BY <1>9 DEF pages, group

\* A place of a file of a prefix is on a page that the prefix selects.
LEMMA PlaceBounds ==
  ASSUME NEW layout, IsLayout(layout), IsAligned(layout), NEW span \in Nat \ {0},
         span % ChunkTokens(layout) = 0, NEW name \in ToSet(FilesOf(layout, span)),
         NEW place, IsPlace(place, layout, name[1], name[2])
  PROVE  \E g \in 1 .. Len(layout) : \E l \in 1 .. Len(layout[g].layers) :
           \E k \in 1 .. selected_page_count(layout[g], span) :
             \E at \in 0 .. layout[g].layers[l].bytes - 1 :
               /\ place = <<g, l, k, at>>
               /\ layout[g].policy # "full" => name[1] = span
<1> DEFINE a(g) == StartOf(layout, g, name[1], name[2])
           c(g) == CountOf(layout, g, name[1], name[2])
           chunk == ChunkTokens(layout)
           n == span \div chunk
<1>1. PICK g \in 1 .. Len(layout) : \E l \in 1 .. Len(layout[g].layers) :
        \E k \in a(g) + 1 .. a(g) + c(g) :
          \E at \in 0 .. layout[g].layers[l].bytes - 1 :
            /\ (layout[g].policy = "full") = (name[2] = "data")
            /\ place = <<g, l, k, at>>
  BY DEF IsPlace
<1>2. PICK l \in 1 .. Len(layout[g].layers) : \E k \in a(g) + 1 .. a(g) + c(g) :
          \E at \in 0 .. layout[g].layers[l].bytes - 1 :
            /\ (layout[g].policy = "full") = (name[2] = "data")
            /\ place = <<g, l, k, at>>
  BY <1>1
<1>3. PICK k \in a(g) + 1 .. a(g) + c(g), at \in 0 .. layout[g].layers[l].bytes - 1 :
            /\ (layout[g].policy = "full") = (name[2] = "data")
            /\ place = <<g, l, k, at>>
  BY <1>2
<1>4. IsFile(layout, name[1], name[2])
  BY NameIs
<1>5. a(g) \in Nat /\ c(g) \in Nat
  BY <1>4, GroupSlices
<1>6. IsGeometry(layout[g])
  BY DEF IsLayout
<1>7. CASE layout[g].policy = "full"
  <2> DEFINE w == layout[g].width
             q == chunk \div w
  <2>1. w \in Nat \ {0} /\ chunk \in Nat \ {0} /\ n \in Nat /\ span = n * chunk
    <3>1. w \in Nat \ {0}
      BY <1>6 DEF IsGeometry
    <3>2. chunk \in Nat \ {0}
      BY ChunkIs
    <3>3. span % chunk = 0
      OBVIOUS
    <3> HIDE DEF chunk, w
    <3>4. n \in Nat /\ span = n * chunk
      BY <3>2, <3>3, Quotient, Exact
    <3> QED BY <3>1, <3>2, <3>4
  <2>2. chunk % w = 0
    <3>1. chunk % AlignedWidth(layout[g]) = 0
      BY ChunkIs
    <3> QED BY <3>1, <1>7 DEF AlignedWidth
  <2>3. PICK i \in 1 .. n : name = <<i * chunk, "data">>
    BY <1>3, <1>7, NameIs
  <2>4. a(g) = (i * chunk - chunk) \div w /\ c(g) = q
    BY <2>3 DEF StartOf, CountOf
  <2> HIDE DEF a, c, n, chunk, w
  <2>5. q \in Nat /\ chunk = q * w
    <3>1. q \in Nat
      BY <2>1, Quotient
    <3> QED BY <3>1, <2>1, <2>2, Exact
  <2> HIDE DEF q
  <2>6. i - 1 \in Nat /\ i \in Nat /\ i <= n /\ (i - 1) * q \in Nat
    BY <2>1, <2>5
  <2>7. i * chunk - chunk = ((i - 1) * q) * w
    <3>1. i * (q * w) - q * w = ((i - 1) * q) * w
      BY <2>1, <2>5, <2>6
    <3> QED BY <3>1, <2>5, Zenon
  <2>8. a(g) = (i - 1) * q
    <3>1. (((i - 1) * q) * w) \div w = (i - 1) * q
      BY <2>1, <2>6, Exact
    <3> QED BY <3>1, <2>4, <2>7, Zenon
  <2>9. i * q <= n * q /\ n * q \in Nat /\ i * q = (i - 1) * q + q
    <3>1. CASE q = 0
      BY <3>1, <2>1, <2>6
    <3>2. CASE q # 0
      <4>1. i * q <= n * q
        BY <3>2, <2>1, <2>5, <2>6, Multiples
      <4> QED BY <4>1, <2>1, <2>5, <2>6
    <3> QED BY <3>1, <3>2
  <2>10. span = (n * q) * w
    <3>1. n * (q * w) = (n * q) * w
      BY <2>1, <2>5
    <3> QED BY <3>1, <2>1, <2>5, Zenon
  <2>11. span \div w = n * q
    BY <2>1, <2>9, <2>10, Exact
  <2>12. selected_page_count(layout[g], span) = n * q
    BY <2>11, <1>7 DEF selected_page_count, w
  <2>13. k \in 1 .. n * q
    <3>1. k \in Nat /\ 1 <= k /\ k <= a(g) + c(g)
      BY <1>3, <1>5
    <3>2. a(g) + c(g) = i * q
      BY <2>4, <2>8, <2>9, Zenon
    <3>3. i * q \in Nat
      BY <2>5, <2>6
    <3> QED BY <3>1, <3>2, <3>3, <2>9
  <2> QED BY <1>3, <1>7, <2>12, <2>13
<1>8. CASE layout[g].policy # "full"
  <2>1. name = <<span, "state">>
    BY <1>3, <1>8, NameIs
  <2>2. name[1] = span /\ name[2] = "state"
    BY <2>1
  <2>3. a(g) = 0 /\ c(g) = selected_page_count(layout[g], span)
    BY <2>2 DEF StartOf, CountOf
  <2>4. k \in 1 .. selected_page_count(layout[g], span)
    BY <2>3, <1>3, <1>5
  <2> QED BY <1>3, <2>2, <2>4
<1> QED BY <1>7, <1>8

\* What a request has in its pages is what belongs in the files, whatever tables it
\* comes from.
LEMMA Matches ==
  ASSUME NEW config \in DOMAIN Layouts, NEW other \in DOMAIN Layouts,
         CoordinationDigest(config) = CoordinationDigest(other),
         NEW plan \in Planned[other], NEW name \in NamesOf[config][plan.span],
         NEW place, IsPlace(place, Layouts[config], name[1], name[2])
  PROVE  RightByte(Configs[config][place[1]], place[2], plan.span,
                   Selected[config][other][plan][place[1]][place[3]], place[4]) =
           FileByte(Layouts[config], name, place)
<1> DEFINE layout == Layouts[config]
           span == plan.span
<1>1. /\ span \in Spans /\ span \in Nat \ {0} /\ plan.ahead \in Nat \ {0}
      /\ span % ChunkTokens(layout) = 0
  BY PlanIs
<1>2. IsLayout(layout) /\ IsAligned(layout)
  BY LayoutIs
<1>3. name \in ToSet(FilesOf(layout, span))
  BY <1>1 DEF NamesOf
<1>4. \E g \in 1 .. Len(layout) : \E l \in 1 .. Len(layout[g].layers) :
        \E k \in 1 .. selected_page_count(layout[g], span) :
          \E at \in 0 .. layout[g].layers[l].bytes - 1 :
            /\ place = <<g, l, k, at>>
            /\ layout[g].policy # "full" => name[1] = span
  <2> HIDE DEF layout, span
  <2>1. IsPlace(place, layout, name[1], name[2])
    BY DEF layout
  <2> QED BY <2>1, <1>1, <1>2, <1>3, PlaceBounds
<1>5. PICK g \in 1 .. Len(layout) : \E l \in 1 .. Len(layout[g].layers) :
        \E k \in 1 .. selected_page_count(layout[g], span) :
          \E at \in 0 .. layout[g].layers[l].bytes - 1 :
            /\ place = <<g, l, k, at>>
            /\ layout[g].policy # "full" => name[1] = span
  BY <1>4
<1>15. PICK l \in 1 .. Len(layout[g].layers) :
        \E k \in 1 .. selected_page_count(layout[g], span) :
          \E at \in 0 .. layout[g].layers[l].bytes - 1 :
            /\ place = <<g, l, k, at>>
            /\ layout[g].policy # "full" => name[1] = span
  BY <1>5
<1>6. PICK k \in 1 .. selected_page_count(layout[g], span),
           at \in 0 .. layout[g].layers[l].bytes - 1 :
            /\ place = <<g, l, k, at>>
            /\ layout[g].policy # "full" => name[1] = span
  BY <1>15
<1> DEFINE group == layout[g]
           page == Selected[config][other][plan][g][k]
<1>7. page = PageAt(group, span, plan.ahead, k)
  BY SelectedPage
<1>8. Describes(group, Configs[config][g])
  BY GeometryIs
<1>9. IsGeometry(group)
  BY <1>2 DEF IsLayout
<1>10. RightByte(Configs[config][g], l, span, page, at) = RightOf(group, l, span, page, at)
  <2>1. l \in 1 .. Len(group.layers)
    OBVIOUS
  <2> HIDE DEF page, group, span, layout
  <2> QED BY <2>1, <1>8, RightIs
<1> HIDE DEF page, group, span
<1>11. (IF group.policy \in {"full", "sliding"}
        THEN <<"tokens", (page - 1) * group.width>> ELSE <<"state", span>>) =
       CASE group.policy = "full" -> <<"tokens", (k - 1) * group.width>>
         [] group.policy = "sliding" ->
              <<"tokens", (((name[1] \div group.width
                               - selected_page_count(group, name[1])) + k) - 1)
                             * group.width>>
         [] OTHER -> <<"state", name[1]>>
  <2>1. CASE group.policy = "full"
    <3>1. page = k
      BY <2>1, <1>7 DEF PageAt
    <3> QED BY <2>1, <3>1
  <2>2. CASE group.policy = "sliding"
    <3>1. page = (span \div group.width - selected_page_count(group, span)) + k
      BY <2>2, <1>7 DEF PageAt
    <3>2. name[1] = span
      BY <2>2, <1>6 DEF group
    <3> QED BY <2>2, <3>1, <3>2
  <2>3. CASE group.policy \notin {"full", "sliding"}
    <3>2. name[1] = span
      BY <2>3, <1>6 DEF group
    <3> QED BY <2>3, <3>2
  <2> QED BY <2>1, <2>2, <2>3
<1>12. RightByte(Configs[config][g], l, span, page, at) = ByteIn(group, l, name[1], k, at)
  BY <1>10, <1>11 DEF ByteIn, RightOf
<1>13. place[1] = g /\ place[2] = l /\ place[3] = k /\ place[4] = at
  BY <1>6
<1>14. FileByte(layout, name, place) = ByteIn(group, l, name[1], k, at)
  BY <1>13 DEF FileByte, group
<1> QED BY <1>12, <1>13, <1>14 DEF page, span

\* The places of a file, by position.
LEMMA PlacesAre ==
  ASSUME NEW config \in DOMAIN Layouts, NEW span \in Spans,
         span % ChunkTokens(Layouts[config]) = 0, NEW name \in NamesOf[config][span]
  PROVE  /\ name \in FileNames
         /\ IsFile(Layouts[config], name[1], name[2])
         /\ \A x \in PlacesOf[config][name] :
              IsPlace(x[2], Layouts[config], name[1], name[2])
         /\ \A x, y \in PlacesOf[config][name] : x[1] = y[1] => x = y
         /\ \A place : IsPlace(place, Layouts[config], name[1], name[2]) =>
              \E x \in PlacesOf[config][name] : x[2] = place
         /\ IsFiniteSet(PlacesOf[config][name])
<1> DEFINE layout == Layouts[config]
           segments == Segments(layout, name[1], name[2])
           places == PlacesOf[config][name]
           n == Length(segments)
           f == [p \in 0 .. n - 1 |-> <<p, ByteOf(segments, p)>>]
<1>1. name \in FileNames
  BY DEF FileNames
<1>2. IsLayout(layout) /\ IsAligned(layout)
  BY LayoutIs
<1>3. span \in Nat \ {0} /\ name \in ToSet(FilesOf(layout, span))
  BY RankAssumption DEF NamesOf
<1>4. IsFile(layout, name[1], name[2])
  <2>1. span % ChunkTokens(layout) = 0
    OBVIOUS
  <2> HIDE DEF layout
  <2> QED BY <2>1, <1>2, <1>3, NameIs
<1>5. places = {<<p, ByteOf(segments, p)>> : p \in 0 .. n - 1}
  <2>1. PlacesOf[config] = [m \in FileNames |->
          LET s == Segments(Layouts[config], m[1], m[2]) IN
          {<<p, ByteOf(s, p)>> : p \in 0 .. Length(s) - 1}]
    BY Zenon DEF PlacesOf
  <2> QED BY <2>1, <1>1, Zenon
<1> HIDE DEF segments, places, layout
<1>6. ASSUME NEW x \in places
      PROVE  IsPlace(x[2], layout, name[1], name[2])
  <2>1. PICK p \in 0 .. n - 1 : x = <<p, ByteOf(segments, p)>>
    BY <1>5
  <2>2. IsPlace(ByteOf(segments, p), layout, name[1], name[2])
    BY <1>4, PlacesIn DEF segments
  <2>3. x[2] = ByteOf(segments, p)
    BY <2>1
  <2> QED BY <2>2, <2>3
<1>7. ASSUME NEW x \in places, NEW y \in places, x[1] = y[1]
      PROVE  x = y
  BY <1>5, <1>7
<1>8. ASSUME NEW place, IsPlace(place, layout, name[1], name[2])
      PROVE  \E x \in places : x[2] = place
  <2>1. PICK p \in 0 .. n - 1 : ByteOf(segments, p) = place
    BY <1>4, <1>8, PlacesAll DEF segments
  <2>2. <<p, place>> \in places /\ <<p, place>>[2] = place
    BY <2>1, <1>5
  <2> QED BY <2>2
<1>9. IsFiniteSet(places)
  <2>1. n \in Nat
    <3>1. IsParts(segments)
      BY <1>4, SegmentsAre, SegmentsAreParts DEF segments
    <3> QED BY <3>1, LengthIs
  <2>2. IsFiniteSet(0 .. n - 1)
    BY <2>1, FS_Interval
  <2>3. places = {f[p] : p \in 0 .. n - 1}
    BY <1>5
  <2> HIDE DEF f, n
  <2> QED BY <2>2, <2>3, FiniteImage
<1> QED BY <1>1, <1>4, <1>6, <1>7, <1>8, <1>9 DEF layout, places

---------------------------------------------------------------------------
(* Saves.                                                                  *)

\* Every byte of a file is the one that belongs there: of the tokens, or of the
\* state, that the name of the file says.
FilesRight ==
  \A name \in FileNames : files[name] # <<>> =>
    \A x \in PlacesOf[binding][name] :
      files[name][x[1]] = FileByte(Layouts[binding], name, x[2])

\* Places depend on the layout alone.
LEMMA SamePlaces ==
  ASSUME NEW config \in DOMAIN Layouts, NEW other \in DOMAIN Layouts,
         Layouts[config] = Layouts[other], NEW name \in FileNames
  PROVE  PlacesOf[config][name] = PlacesOf[other][name]
BY DEF PlacesOf

\* A worker that carries a plan.
Carrying(plan) ==
  /\ worker \in DOMAIN Layouts /\ scheduler \in DOMAIN Layouts
  /\ binding \in DOMAIN Layouts
  /\ Layouts[binding] = Layouts[worker]
  /\ CoordinationDigest(worker) = CoordinationDigest(scheduler)
  /\ plan \in Planned[scheduler]
  /\ plan.span \in Spans
  /\ plan.span % ChunkTokens(Layouts[worker]) = 0

\* It has a plan that it can carry out, for the layout of the directory.
LEMMA CarriesIs ==
  ASSUME LayoutInv, NEW plan \in Plan, Carries(plan)
  PROVE  Carrying(plan)
<1>1. phase = "up" /\ plan \in Planned[scheduler]
  BY DEF Carries
<1>2. /\ worker \in DOMAIN Layouts /\ scheduler \in DOMAIN Layouts
      /\ binding \in DOMAIN Layouts
      /\ Layouts[binding] = Layouts[worker]
      /\ CoordinationDigest(worker) = CoordinationDigest(scheduler)
  BY <1>1 DEF LayoutInv, Bound, FilesFit, digest
<1>3. plan.span \in Spans /\ plan.span % ChunkTokens(Layouts[worker]) = 0
  BY <1>1, <1>2, PlanIs
<1> QED BY <1>1, <1>2, <1>3 DEF Carrying

\* A save writes what belongs there.
LEMMA SaveRight ==
  ASSUME LayoutInv, FilesRight, NEW plan \in Plan, Save(plan)
  PROVE  FilesRight'
<1> DEFINE byte(place) ==
             RightByte(Configs[worker][place[1]], place[2], plan.span,
                       Selected[worker][scheduler][plan][place[1]][place[3]], place[4])
<1>1. Carries(plan) /\ binding' = binding
  BY Zenon DEF Save
<1>2. Carrying(plan)
  BY <1>1, CarriesIs
<1>3. files' = [name \in FileNames |->
        IF name \in NamesOf[worker][plan.span] /\ files[name] = <<>>
        THEN [p \in {x[1] : x \in PlacesOf[worker][name]} |->
                byte((CHOOSE x \in PlacesOf[worker][name] : x[1] = p)[2])]
        ELSE files[name]]
  BY Zenon DEF Save
<1> SUFFICES ASSUME NEW name \in FileNames, files'[name] # <<>>,
                    NEW x \in PlacesOf[binding][name]
             PROVE  files'[name][x[1]] = FileByte(Layouts[binding], name, x[2])
  BY <1>1 DEF FilesRight
<1>4. CASE name \in NamesOf[worker][plan.span] /\ files[name] = <<>>
  <2> DEFINE places == PlacesOf[worker][name]
             y == CHOOSE z \in places : z[1] = x[1]
  <2>1. places = PlacesOf[binding][name]
    BY <1>2, SamePlaces DEF Carrying
  <2>2. files'[name] = [p \in {z[1] : z \in places} |->
                          byte((CHOOSE z \in places : z[1] = p)[2])]
    BY <1>3, <1>4, Zenon
  <2>3. x \in places
    BY <2>1
  <2>4. /\ \A u, v \in places : u[1] = v[1] => u = v
        /\ \A u \in places : IsPlace(u[2], Layouts[worker], name[1], name[2])
    BY <1>2, <1>4, PlacesAre DEF Carrying
  <2> HIDE DEF places, byte
  <2>5. y \in places /\ y[1] = x[1]
    BY <2>3, Zenon
  <2>6. y = x
    BY <2>3, <2>4, <2>5
  <2>7. files'[name][x[1]] = byte(y[2])
    BY <2>2, <2>3
  <2>8. IsPlace(x[2], Layouts[worker], name[1], name[2])
    BY <2>3, <2>4
  <2>9. byte(x[2]) = FileByte(Layouts[worker], name, x[2])
    BY <1>2, <1>4, <2>8, Matches DEF Carrying, byte
  <2>10. Layouts[binding] = Layouts[worker]
    BY <1>2 DEF Carrying
  <2> QED BY <2>6, <2>7, <2>9, <2>10
<1>5. CASE ~(name \in NamesOf[worker][plan.span] /\ files[name] = <<>>)
  <2>1. files'[name] = files[name]
    BY <1>3, <1>5
  <2> QED BY <2>1 DEF FilesRight
<1> QED BY <1>4, <1>5

\* A directory that gets its binding has no files yet.
LEMMA BootRight ==
  ASSUME LayoutInv, FilesRight, NEW config, NEW other, Boot(config, other)
  PROVE  FilesRight'
<1>1. files' = files /\ (binding = NoConfig \/ binding' = binding)
  BY DEF Boot
<1>2. CASE binding = NoConfig
  <2>1. \A name \in FileNames : files[name] = <<>>
    BY <1>2 DEF LayoutInv, FilesFit
  <2> QED BY <1>1, <2>1 DEF FilesRight
<1>3. CASE binding' = binding
  BY <1>1, <1>3 DEF FilesRight
<1> QED BY <1>1, <1>2, <1>3

\* Tuples that their first four elements determine.
LEMMA Determined ==
  ASSUME NEW B, IsFiniteSet(B),
         \A b \in B : \E s, t, u, v, z : b = <<s, t, u, v, z>>,
         \A b, c \in B : b[1] = c[1] /\ b[2] = c[2] /\ b[3] = c[3] /\ b[4] = c[4] => b = c
  PROVE  Cardinality({SubSeq(b, 1, 4) : b \in B}) = Cardinality(B)
<1> DEFINE h == [b \in B |-> SubSeq(b, 1, 4)]
           T == {SubSeq(b, 1, 4) : b \in B}
<1>1. ASSUME NEW b \in B, NEW i \in 1 .. 4
      PROVE  SubSeq(b, 1, 4)[i] = b[i]
  <2>1. PICK s, t, u, v, z : b = <<s, t, u, v, z>>
    OBVIOUS
  <2> DEFINE S == {s, t, u, v, z}
  <2>2. \A j \in 1 .. 4 : b[j] \in S
    BY <2>1
  <2> HIDE DEF S
  <2>3. \A j \in 1 .. 4 - 1 + 1 : SubSeq(b, 1, 4)[j] = b[1 + j - 1]
    BY <2>2, SubSeqProperties
  <2> QED BY <2>3
<1>2. ASSUME NEW b \in B, NEW c \in B, h[b] = h[c]
      PROVE  b = c
  <2>1. SubSeq(b, 1, 4) = SubSeq(c, 1, 4)
    BY <1>2
  <2>2. \A i \in 1 .. 4 : b[i] = c[i]
    BY <2>1, <1>1
  <2>3. b[1] = c[1] /\ b[2] = c[2] /\ b[3] = c[3] /\ b[4] = c[4]
    BY <2>2
  <2> QED BY <2>3
<1>3. h \in Surjection(B, T) /\ h \in Injection(B, T)
  <2>1. h \in [B -> T] /\ \A t \in T : \E b \in B : h[b] = t
    OBVIOUS
  <2> HIDE DEF h, T
  <2> QED BY <2>1, <1>2 DEF Injection, Surjection, IsInjective
<1> HIDE DEF h, T
<1>4. Cardinality(T) = Cardinality(B)
  BY <1>3, FS_Surjection
<1> QED BY <1>4 DEF T

---------------------------------------------------------------------------
(* Restores.                                                               *)

\* The pages that a layer needs, by the geometry of its group.
NeededBy(group, span, ahead) ==
  CASE group.policy = "circular_one" -> {1}
    [] group.policy = "recurrent_align" -> {Ceiling(span + ahead, group.width)}
    [] group.policy = "sliding" ->
         {i \in 1 .. span \div group.width :
            \E token \in (i - 1) * group.width .. i * group.width - 1 :
              token + group.window > span}
    [] OTHER -> 1 .. span \div group.width

\* It is the same set.
LEMMA NeededIs ==
  ASSUME NEW group, NEW vgroup, Describes(group, vgroup),
         NEW l \in 1 .. Len(group.layers), NEW span, NEW ahead
  PROVE  Needed(vgroup, vgroup.layers[l], span, ahead) = NeededBy(group, span, ahead)
<1> DEFINE spec == vgroup.layers[l]
           policy == reuse_policy(vgroup, spec)
<1>1. /\ policy[1] = group.policy /\ policy[2] = group.window
      /\ group.width = WidthOf(vgroup)
  BY DEF Describes
<1>2. policy[1] = "sliding" => policy[2] = spec.window
  BY DEF reuse_policy
<1> HIDE DEF policy, spec
<1>3. Needed(vgroup, spec, span, ahead) =
        CASE policy[1] = "circular_one" -> {1}
          [] policy[1] = "recurrent_align" -> {Ceiling(span + ahead, WidthOf(vgroup))}
          [] policy[1] = "sliding" ->
               {i \in 1 .. span \div WidthOf(vgroup) :
                  \E token \in (i - 1) * WidthOf(vgroup) .. i * WidthOf(vgroup) - 1 :
                    token + spec.window > span}
          [] OTHER -> 1 .. span \div WidthOf(vgroup)
  BY Zenon DEF Needed, policy
<1>4. CASE group.policy = "sliding"
  <2>1. spec.window = group.window
    BY <1>1, <1>2, <1>4
  <2>2. Needed(vgroup, spec, span, ahead) =
           {i \in 1 .. span \div group.width :
              \E token \in (i - 1) * group.width .. i * group.width - 1 :
                token + group.window > span}
    BY <1>1, <1>3, <1>4, <2>1
  <2> QED BY <2>2, <1>4 DEF NeededBy, spec
<1>5. CASE group.policy # "sliding"
  BY <1>1, <1>3, <1>5 DEF NeededBy, spec
<1> QED BY <1>4, <1>5

\* A page of a group with all its pages is in the file of its chunk.
LEMMA StoredFull ==
  ASSUME NEW layout, IsLayout(layout), IsAligned(layout), NEW span \in Nat \ {0},
         span % ChunkTokens(layout) = 0, NEW g \in 1 .. Len(layout),
         layout[g].policy = "full", NEW l \in 1 .. Len(layout[g].layers),
         NEW page \in 1 .. span \div layout[g].width,
         NEW at \in 0 .. layout[g].layers[l].bytes - 1
  PROVE  \E name \in ToSet(FilesOf(layout, span)) :
           IsPlace(<<g, l, page, at>>, layout, name[1], name[2])
<1> DEFINE chunk == ChunkTokens(layout)
           n == span \div chunk
           w == layout[g].width
           q == chunk \div w
           names == FilesOf(layout, span)
<1>1. IsGeometry(layout[g])
  BY DEF IsLayout
<1>2. w \in Nat \ {0}
  BY <1>1 DEF IsGeometry
<1>3. chunk % w = 0
  <2>1. chunk % AlignedWidth(layout[g]) = 0
    BY ChunkIs
  <2> QED BY <2>1 DEF AlignedWidth
<1>4. /\ n \in Nat \ {0} /\ chunk \in Nat \ {0} /\ span = n * chunk
      /\ Len(names) = (IF has_boundary_state(layout) THEN n + 1 ELSE n)
      /\ \A i \in 1 .. n : names[i] = <<i * chunk, "data">>
      /\ DOMAIN names = 1 .. Len(names)
  BY FilesAre DEF IsFiles
<1>5. page \in 1 .. span \div w
  OBVIOUS
<1> HIDE DEF chunk, n, w, names
<1>6. q \in Nat /\ chunk = q * w
  <2>1. q \in Nat
    BY <1>2, <1>4, Quotient
  <2> QED BY <2>1, <1>2, <1>3, <1>4, Exact
<1> HIDE DEF q
<1>7. q # 0
  BY <1>2, <1>4, <1>6
<1>8. span \div w = n * q
  <2>1. n * (q * w) = (n * q) * w /\ n * q \in Nat
    BY <1>2, <1>4, <1>6
  <2>2. ((n * q) * w) \div w = n * q
    BY <2>1, <1>2, Exact
  <2> QED BY <2>1, <2>2, <1>4, <1>6, Zenon
<1> DEFINE j == (page - 1) \div q
           r == (page - 1) % q
<1>9. page - 1 \in Nat /\ page \in Nat /\ page <= n * q /\ n * q \in Nat
  BY <1>4, <1>5, <1>6, <1>8
<1>10. j \in Nat /\ r \in 0 .. q - 1 /\ page - 1 = j * q + r
  BY <1>6, <1>7, <1>9, Quotient
<1> HIDE DEF j, r
<1>11. j < n
  <2>1. j * q \in Nat
    BY <1>6, <1>10
  <2>2. j * q < n * q
    BY <2>1, <1>6, <1>9, <1>10
  <2> QED BY <2>2, <1>4, <1>6, <1>7, <1>10, Multiples
<1>12. j + 1 \in 1 .. n
  BY <1>4, <1>10, <1>11
<1> DEFINE name == <<(j + 1) * chunk, "data">>
<1>13. name \in ToSet(names)
  <2>1. names[j + 1] = name /\ j + 1 \in DOMAIN names
    BY <1>4, <1>12
  <2> QED BY <2>1 DEF ToSet
<1>14. StartOf(layout, g, name[1], name[2]) = j * q
  <2>1. (j + 1) * (q * w) - q * w = (j * q) * w /\ j * q \in Nat
    BY <1>2, <1>6, <1>10
  <2>2. ((j * q) * w) \div w = j * q
    BY <2>1, <1>2, Exact
  <2>3. (name[1] - chunk) \div w = j * q
    <3>1. name[1] = (j + 1) * chunk
      OBVIOUS
    <3> HIDE DEF name
    <3> QED BY <3>1, <2>1, <2>2, <1>6, Zenon
  <2>4. name[2] = "data"
    OBVIOUS
  <2> HIDE DEF name
  <2> QED BY <2>3, <2>4 DEF StartOf, chunk, w
<1>15. CountOf(layout, g, name[1], name[2]) = q
  BY DEF CountOf, chunk, w, q
<1>16. page \in j * q + 1 .. j * q + q
  <2>1. j * q \in Nat
    BY <1>6, <1>10
  <2> QED BY <2>1, <1>6, <1>9, <1>10
<1>17. (layout[g].policy = "full") = (name[2] = "data")
  OBVIOUS
<1> HIDE DEF name
<1>18. IsPlace(<<g, l, page, at>>, layout, name[1], name[2])
  BY <1>14, <1>15, <1>16, <1>17 DEF IsPlace
<1> QED BY <1>13, <1>18 DEF names

\* A window reaches no page before those that are selected.
LEMMA StoredSliding ==
  ASSUME NEW group, IsGeometry(group), group.policy = "sliding", NEW span \in Nat,
         span % group.width = 0, NEW ahead, NEW page \in NeededBy(group, span, ahead)
  PROVE  \E k \in 1 .. selected_page_count(group, span) :
           page = PageAt(group, span, ahead, k)
<1> DEFINE w == group.width
           b == span \div w
           v == group.window
           c == Ceiling(v - 1, w)
           m == selected_page_count(group, span)
<1>1. w \in Nat \ {0} /\ v \in Nat /\ v > 1 /\ v - 1 \in Nat
  BY DEF IsGeometry
<1>2. b \in Nat /\ span = b * w
  BY <1>1, Quotient, Exact
<1>3. m = Smaller(b, c)
  BY DEF selected_page_count
<1>4. PICK token \in (page - 1) * w .. page * w - 1 : token + v > span
  BY DEF NeededBy
<1>5. page \in 1 .. b
  BY DEF NeededBy
<1>6. \A k : PageAt(group, span, ahead, k) = (b - m) + k
  BY DEF PageAt
<1> HIDE DEF w, b, v
<1>7. c \in Nat /\ \A i \in Nat : c <= i <=> v - 1 <= i * w
  BY <1>1, CeilingIs
<1> HIDE DEF c, m
<1>8. b - page \in Nat /\ page \in Nat
  BY <1>2, <1>5
<1>9. ~ (v - 1 <= (b - page) * w)
  <2>1. page * w \in Nat /\ (page - 1) * w \in Nat /\ b * w \in Nat
    BY <1>1, <1>2, <1>5
  <2>2. (b - page) * w = b * w - page * w
    BY <1>1, <1>2, <1>8
  <2>3. token <= page * w - 1 /\ token + v > b * w /\ token \in Int
    BY <1>2, <1>4, <2>1
  <2>4. v - 1 > b * w - page * w
    BY <2>1, <2>3, <1>1
  <2> QED BY <2>1, <2>2, <2>4, <1>1
<1>10. ~ (c <= b - page)
  BY <1>7, <1>8, <1>9
<1>11. m \in Nat /\ page - (b - m) \in 1 .. m /\ (b - m) + (page - (b - m)) = page
  BY <1>2, <1>3, <1>5, <1>7, <1>8, <1>10 DEF Smaller
<1> QED BY <1>6, <1>11 DEF m

\* A group without all its pages has those that it selects in the state file.
LEMMA StoredState ==
  ASSUME NEW layout, IsLayout(layout), IsAligned(layout), NEW span \in Nat \ {0},
         span % ChunkTokens(layout) = 0, NEW g \in 1 .. Len(layout),
         layout[g].policy # "full", NEW l \in 1 .. Len(layout[g].layers),
         NEW k \in 1 .. selected_page_count(layout[g], span),
         NEW at \in 0 .. layout[g].layers[l].bytes - 1
  PROVE  \E name \in ToSet(FilesOf(layout, span)) :
           IsPlace(<<g, l, k, at>>, layout, name[1], name[2])
<1> DEFINE names == FilesOf(layout, span)
           n == span \div ChunkTokens(layout)
           name == <<span, "state">>
<1>1. has_boundary_state(layout)
  BY DEF has_boundary_state, Indices, IsLayout
<1>2. /\ n \in Nat \ {0} /\ Len(names) = n + 1 /\ names[n + 1] = name
      /\ DOMAIN names = 1 .. Len(names)
  BY <1>1, FilesAre DEF IsFiles
<1>3. name \in ToSet(names)
  <2>1. n + 1 \in DOMAIN names
    BY <1>2
  <2> QED BY <2>1, <1>2 DEF ToSet
<1>4. /\ StartOf(layout, g, name[1], name[2]) = 0
      /\ CountOf(layout, g, name[1], name[2]) = selected_page_count(layout[g], span)
      /\ (layout[g].policy = "full") = (name[2] = "data")
  BY DEF StartOf, CountOf
<1> HIDE DEF name
<1>5. k \in 0 + 1 .. 0 + selected_page_count(layout[g], span)
  <2>1. selected_page_count(layout[g], span) \in Nat
    BY PageCount DEF IsLayout
  <2> QED BY <2>1
<1>6. IsPlace(<<g, l, k, at>>, layout, name[1], name[2])
  BY <1>4, <1>5 DEF IsPlace
<1> QED BY <1>3, <1>6

\* A byte that a layer needs.
IsWanted(layout, span, ahead, g, l, page, at) ==
  /\ IsLayout(layout) /\ IsAligned(layout)
  /\ span \in Nat \ {0} /\ span % ChunkTokens(layout) = 0 /\ ahead \in Nat \ {0}
  /\ g \in 1 .. Len(layout) /\ l \in 1 .. Len(layout[g].layers)
  /\ page \in NeededBy(layout[g], span, ahead)
  /\ at \in 0 .. layout[g].layers[l].bytes - 1

\* Each of them is in a file of the prefix.
LEMMA Stored ==
  ASSUME NEW layout, NEW span, NEW ahead, NEW g, NEW l, NEW page, NEW at,
         IsWanted(layout, span, ahead, g, l, page, at)
  PROVE  \E k \in 1 .. selected_page_count(layout[g], span) :
           /\ page = PageAt(layout[g], span, ahead, k)
           /\ \E name \in ToSet(FilesOf(layout, span)) :
                IsPlace(<<g, l, k, at>>, layout, name[1], name[2])
<1> USE DEF IsWanted
<1> DEFINE group == layout[g]
<1>1. /\ IsGeometry(group)
      /\ group.policy \in {"full", "sliding", "recurrent_align", "circular_one"}
  BY DEF IsLayout, IsGeometry
<1>2. CASE group.policy = "full"
  <2>1. page \in 1 .. span \div group.width
    BY <1>2 DEF NeededBy
  <2>2. selected_page_count(group, span) = span \div group.width
    BY <1>2 DEF selected_page_count
  <2>3. page = PageAt(group, span, ahead, page)
    BY <1>2 DEF PageAt
  <2>4. \E name \in ToSet(FilesOf(layout, span)) :
          IsPlace(<<g, l, page, at>>, layout, name[1], name[2])
    BY <1>2, <2>1, StoredFull
  <2> QED BY <2>1, <2>2, <2>3, <2>4
<1>3. ASSUME group.policy # "full"
      PROVE  \E k \in 1 .. selected_page_count(group, span) :
               page = PageAt(group, span, ahead, k)
  <2>1. CASE group.policy = "sliding"
    <3>1. span % group.width = 0
      <4> DEFINE chunk == ChunkTokens(layout)
                 w == group.width
      <4>1. chunk % AlignedWidth(layout[g]) = 0 /\ chunk \in Nat \ {0}
        BY ChunkIs
      <4>2. chunk % w = 0 /\ w \in Nat \ {0} /\ span % chunk = 0
        BY <4>1, <1>1, <2>1 DEF AlignedWidth, IsGeometry
      <4> HIDE DEF chunk, w
      <4> DEFINE q == chunk \div w
                 n == span \div chunk
      <4>3. chunk = q * w /\ q \in Nat
        BY <4>1, <4>2, Exact, Quotient
      <4>4. span = n * chunk /\ n \in Nat
        BY <4>1, <4>2, Exact, Quotient
      <4> HIDE DEF q, n
      <4>5. n * (q * w) = (n * q) * w /\ n * q \in Nat
        BY <4>2, <4>3, <4>4
      <4>6. ((n * q) * w) % w = 0
        BY <4>2, <4>5, Exact
      <4>7. span % w = 0
        BY <4>3, <4>4, <4>5, <4>6, Zenon
      <4> QED BY <4>7 DEF w
    <3> QED BY <3>1, <1>1, <2>1, StoredSliding
  <2>2. CASE group.policy \in {"recurrent_align", "circular_one"}
    <3>1. selected_page_count(group, span) = 1 /\ 1 \in 1 .. 1
      BY <2>2 DEF selected_page_count
    <3>2. page = PageAt(group, span, ahead, 1)
      BY <2>2 DEF PageAt, NeededBy
    <3> QED BY <3>1, <3>2
  <2> QED BY <1>1, <1>3, <2>1, <2>2
<1>4. CASE group.policy # "full"
  <2>1. PICK k \in 1 .. selected_page_count(group, span) :
          page = PageAt(group, span, ahead, k)
    BY <1>3, <1>4
  <2>2. \E name \in ToSet(FilesOf(layout, span)) :
          IsPlace(<<g, l, k, at>>, layout, name[1], name[2])
    BY <1>4, StoredState
  <2> QED BY <2>1, <2>2
<1> QED BY <1>2, <1>4

\* What a restore puts into the GPU: the bytes of the places of the files.
PutAt(plan, name, x) ==
  <<x[2][1], x[2][2], Selected[worker][scheduler][plan][x[2][1]][x[2][3]], x[2][4],
    files[name][x[1]]>>

\* All of them.
Loaded(plan) ==
  UNION {{PutAt(plan, name, x) : x \in PlacesOf[worker][name]} :
           name \in NamesOf[worker][plan.span]}

\* A restore puts all these bytes, and finds all the files.
LEMMA LoadedIs ==
  ASSUME LayoutInv, NEW plan \in Plan, Load(plan)
  PROVE  /\ restored' = [plan |-> plan, bytes |-> Loaded(plan)]
         /\ \A name \in NamesOf[worker][plan.span] : files[name] # <<>>
         /\ Carrying(plan)
         /\ worker' = worker
<1>1. Carries(plan) /\ \A name \in NamesOf[worker][plan.span] : files[name] # <<>>
  BY Zenon DEF Load
<1>2. Carrying(plan)
  BY <1>1, CarriesIs
<1>3. UNCHANGED rankVars
  BY Zenon DEF Load
<1>4. ASSUME NEW name \in NamesOf[worker][plan.span]
      PROVE  {y \in PlacesOf[worker][name] : y[1] \in DOMAIN files[name]} =
               PlacesOf[worker][name]
  <2>1. name \in FileNames
    BY <1>2, PlacesAre DEF Carrying
  <2>2. DOMAIN files[name] = Positions(binding, name)
    BY <1>1, <2>1 DEF LayoutInv, FilesFit
  <2>3. Positions(binding, name) = Positions(worker, name)
    BY <1>2, <2>1, SamePositions DEF Carrying
  <2> QED BY <2>2, <2>3 DEF Positions
<1>5. restored' =
        [plan |-> plan,
         bytes |-> UNION {
           {PutAt(plan, name, x) :
              x \in {y \in PlacesOf[worker][name] : y[1] \in DOMAIN files[name]}} :
           name \in NamesOf[worker][plan.span]}]
  BY Zenon DEF Load, PutAt
<1>6. UNION {
        {PutAt(plan, name, x) :
           x \in {y \in PlacesOf[worker][name] : y[1] \in DOMAIN files[name]}} :
        name \in NamesOf[worker][plan.span]} = Loaded(plan)
  <2>1. {{PutAt(plan, name, x) :
           x \in {y \in PlacesOf[worker][name] : y[1] \in DOMAIN files[name]}} :
          name \in NamesOf[worker][plan.span]} =
        {{PutAt(plan, name, x) : x \in PlacesOf[worker][name]} :
           name \in NamesOf[worker][plan.span]}
    BY <1>4, Zenon
  <2> QED BY <2>1 DEF Loaded
<1> QED BY <1>1, <1>2, <1>3, <1>5, <1>6, Zenon DEF rankVars

\* Each of them is right for the page where it is put.
LEMMA PutRight ==
  ASSUME FilesRight, NEW plan, Carrying(plan),
         NEW name \in NamesOf[worker][plan.span], files[name] # <<>>,
         NEW x \in PlacesOf[worker][name]
  PROVE  LET b == PutAt(plan, name, x) IN
         b[5] = RightByte(Configs[worker][b[1]], b[2], plan.span, b[3], b[4])
<1> DEFINE layout == Layouts[worker]
           place == x[2]
           selected == Selected[worker][scheduler][plan]
<1>1. name \in FileNames /\ IsPlace(place, layout, name[1], name[2])
  BY PlacesAre DEF Carrying
<1>2. x \in PlacesOf[binding][name]
  BY <1>1, SamePlaces DEF Carrying
<1>3. files[name][x[1]] = FileByte(Layouts[binding], name, place)
  BY <1>1, <1>2 DEF FilesRight
<1>4. files[name][x[1]] = FileByte(layout, name, place)
  BY <1>3 DEF Carrying
<1>5. RightByte(Configs[worker][place[1]], place[2], plan.span,
                selected[place[1]][place[3]], place[4]) = FileByte(layout, name, place)
  BY <1>1, Matches DEF Carrying
<1> DEFINE b == PutAt(plan, name, x)
<1>6. /\ b[1] = place[1] /\ b[2] = place[2] /\ b[3] = selected[place[1]][place[3]]
      /\ b[4] = place[4] /\ b[5] = files[name][x[1]]
  BY DEF PutAt
<1> HIDE DEF b, place, selected
<1>7. b[5] = RightByte(Configs[worker][b[1]], b[2], plan.span, b[3], b[4])
  BY <1>4, <1>5, <1>6, Zenon
<1> QED BY <1>7 DEF b

\* Hence no byte is put twice with different contents.
LEMMA LoadedOnce ==
  ASSUME FilesRight, NEW plan, Carrying(plan),
         \A name \in NamesOf[worker][plan.span] : files[name] # <<>>
  PROVE  Cardinality({SubSeq(b, 1, 4) : b \in Loaded(plan)}) = Cardinality(Loaded(plan))
<1> DEFINE names == NamesOf[worker][plan.span]
           Of(name) == {PutAt(plan, name, x) : x \in PlacesOf[worker][name]}
           f == [name \in names |-> Of(name)]
           B == Loaded(plan)
<1>1. ASSUME NEW b \in B
      PROVE  \E name \in names : \E x \in PlacesOf[worker][name] : b = PutAt(plan, name, x)
  BY DEF Loaded
<1>2. ASSUME NEW b \in B
      PROVE  \E s, t, u, v, z : b = <<s, t, u, v, z>>
  BY <1>1 DEF PutAt
<1>3. ASSUME NEW b \in B
      PROVE  b[5] = RightByte(Configs[worker][b[1]], b[2], plan.span, b[3], b[4])
  <2>1. PICK name \in names : \E x \in PlacesOf[worker][name] : b = PutAt(plan, name, x)
    BY <1>1
  <2>2. PICK x \in PlacesOf[worker][name] : b = PutAt(plan, name, x)
    BY <2>1
  <2>3. LET d == PutAt(plan, name, x) IN
        d[5] = RightByte(Configs[worker][d[1]], d[2], plan.span, d[3], d[4])
    BY PutRight
  <2> QED BY <2>2, <2>3, Zenon
<1>4. ASSUME NEW b \in B, NEW c \in B,
             b[1] = c[1] /\ b[2] = c[2] /\ b[3] = c[3] /\ b[4] = c[4]
      PROVE  b = c
  <2>1. b[5] = c[5]
    <3>1. b[5] = RightByte(Configs[worker][b[1]], b[2], plan.span, b[3], b[4])
      BY <1>3
    <3>2. c[5] = RightByte(Configs[worker][c[1]], c[2], plan.span, c[3], c[4])
      BY <1>3
    <3> QED BY <3>1, <3>2, <1>4, Zenon
  <2>2. PICK s, t, u, v, z : b = <<s, t, u, v, z>>
    BY <1>2
  <2>3. PICK s2, t2, u2, v2, z2 : c = <<s2, t2, u2, v2, z2>>
    BY <1>2
  <2> HIDE DEF B
  <2>4. s = s2 /\ t = t2 /\ u = u2 /\ v = v2 /\ z = z2
    BY <1>4, <2>1, <2>2, <2>3
  <2> QED BY <2>2, <2>3, <2>4
<1>5. IsFiniteSet(B)
  <2>1. ASSUME NEW name \in names
        PROVE  IsFiniteSet(Of(name))
    <3> DEFINE places == PlacesOf[worker][name]
               h == [x \in places |-> PutAt(plan, name, x)]
    <3>1. IsFiniteSet(places)
      BY PlacesAre DEF Carrying
    <3>2. Of(name) = {h[x] : x \in places}
      OBVIOUS
    <3> HIDE DEF h, places, Of
    <3> QED BY <3>1, <3>2, FiniteImage
  <2>2. IsFiniteSet(names)
    <3> DEFINE s == FilesOf(Layouts[worker], plan.span)
    <3>1. names = ToSet(s)
      BY DEF NamesOf, Carrying
    <3>2. /\ plan.span \in Nat \ {0} /\ IsAligned(Layouts[worker])
          /\ plan.span % ChunkTokens(Layouts[worker]) = 0
      BY RankAssumption, LayoutIs DEF Carrying
    <3>3. IsFiles(s, Layouts[worker], plan.span)
      BY <3>2, FilesAre
    <3>4. Len(s) \in Nat /\ DOMAIN s = 1 .. Len(s)
      BY <3>3 DEF IsFiles
    <3>5. names = {s[i] : i \in 1 .. Len(s)}
      BY <3>1, <3>4 DEF ToSet
    <3> HIDE DEF s, names
    <3>6. IsFiniteSet(1 .. Len(s))
      BY <3>4, FS_Interval
    <3> QED BY <3>5, <3>6, FiniteImage
  <2>3. B = UNION {f[name] : name \in names}
    <3>1. {f[name] : name \in names} = {Of(name) : name \in names}
      <4>1. \A name \in names : f[name] = Of(name)
        OBVIOUS
      <4> HIDE DEF f, Of, names
      <4> QED BY <4>1
    <3>2. B = UNION {Of(name) : name \in names}
      BY DEF Loaded
    <3> QED BY <3>1, <3>2, Zenon
  <2>4. \A name \in names : f[name] = Of(name)
    OBVIOUS
  <2> HIDE DEF f, B, names, Of
  <2>5. IsFiniteSet({f[name] : name \in names})
    BY <2>2, FiniteImage
  <2>6. \A T \in {f[name] : name \in names} : IsFiniteSet(T)
    BY <2>1, <2>4
  <2> DEFINE F == {f[name] : name \in names}
  <2> HIDE DEF F
  <2>7. IsFiniteSet(UNION F)
    BY <2>5, <2>6, FS_UNION DEF F
  <2> QED BY <2>3, <2>7 DEF F
<1> HIDE DEF B
<1>6. Cardinality({SubSeq(b, 1, 4) : b \in B}) = Cardinality(B)
  BY <1>2, <1>4, <1>5, Determined
<1> QED BY <1>6 DEF B

\* And every byte that a layer reads is put.
LEMMA LoadedAll ==
  ASSUME FilesRight, NEW plan, Carrying(plan),
         \A name \in NamesOf[worker][plan.span] : files[name] # <<>>
  PROVE  RightBytes[worker][plan] \subseteq Loaded(plan)
<1> DEFINE layout == Layouts[worker]
           span == plan.span
           RB(g, l, page, at) ==
             <<g, l, page, at, RightByte(Configs[worker][g], l, span, page, at)>>
<1>1. /\ worker \in DOMAIN Layouts /\ scheduler \in DOMAIN Layouts
      /\ CoordinationDigest(worker) = CoordinationDigest(scheduler)
      /\ plan \in Planned[scheduler]
  BY DEF Carrying
<1>2. /\ plan \in Plan /\ span \in Spans /\ span \in Nat \ {0} /\ plan.ahead \in Nat \ {0}
      /\ span % ChunkTokens(layout) = 0
  BY <1>1, PlanIs
<1>3. IsLayout(layout) /\ IsAligned(layout)
  BY <1>1, LayoutIs
<1>4. RightBytes[worker][plan] =
        UNION {UNION {ReadBytes(worker, plan, g, l) :
                        l \in DOMAIN Configs[worker][g].layers} :
                 g \in DOMAIN Configs[worker]}
  <2>1. RightBytes[worker] = [p \in Plan |->
          UNION {UNION {ReadBytes(worker, p, g, l) :
                          l \in DOMAIN Configs[worker][g].layers} :
                   g \in DOMAIN Configs[worker]}]
    BY <1>1, Zenon DEF RightBytes
  <2> QED BY <2>1, <1>2, Zenon
<1> SUFFICES ASSUME NEW g \in DOMAIN Configs[worker],
                    NEW l \in DOMAIN Configs[worker][g].layers,
                    NEW page \in Needed(Configs[worker][g], Configs[worker][g].layers[l],
                                        span, plan.ahead),
                    NEW at \in 0 .. Configs[worker][g].layers[l].bytes - 1
             PROVE  RB(g, l, page, at) \in Loaded(plan)
  <2> SUFFICES ASSUME NEW g \in DOMAIN Configs[worker],
                      NEW l \in DOMAIN Configs[worker][g].layers,
                      NEW b \in ReadBytes(worker, plan, g, l)
               PROVE  b \in Loaded(plan)
    BY <1>4
  <2>1. \E page \in Needed(Configs[worker][g], Configs[worker][g].layers[l],
                            span, plan.ahead) :
          \E at \in 0 .. Configs[worker][g].layers[l].bytes - 1 :
            b = RB(g, l, page, at)
    BY DEF ReadBytes
  <2> QED BY <2>1
<1>5. g \in 1 .. Len(layout)
  <2>1. IsSequence(Configs[worker]) /\ Len(layout) = Len(Configs[worker])
    BY <1>1, RankAssumption, LayoutShape DEF Layouts, IsConfiguration
  <2>2. DOMAIN Configs[worker] = 1 .. Len(Configs[worker])
    BY <2>1, SequenceIs
  <2> QED BY <2>1, <2>2
<1> DEFINE group == layout[g]
<1>6. Describes(group, Configs[worker][g])
  BY <1>1, <1>5, GeometryIs
<1>7. /\ l \in 1 .. Len(group.layers)
      /\ group.layers[l].bytes = Configs[worker][g].layers[l].bytes
  BY <1>6 DEF Describes
<1>8. page \in NeededBy(group, span, plan.ahead)
  <2> HIDE DEF group, span
  <2>1. Needed(Configs[worker][g], Configs[worker][g].layers[l], span, plan.ahead) =
          NeededBy(group, span, plan.ahead)
    BY <1>6, <1>7, NeededIs
  <2> QED BY <2>1
<1>9. at \in 0 .. group.layers[l].bytes - 1
  BY <1>7
<1>10. PICK k \in 1 .. selected_page_count(group, span) :
         /\ page = PageAt(group, span, plan.ahead, k)
         /\ \E name \in ToSet(FilesOf(layout, span)) :
              IsPlace(<<g, l, k, at>>, layout, name[1], name[2])
  <2>1. /\ l \in 1 .. Len(layout[g].layers) /\ at \in 0 .. layout[g].layers[l].bytes - 1
        /\ page \in NeededBy(layout[g], span, plan.ahead)
    BY <1>7, <1>8, <1>9
  <2>2. /\ span \in Nat \ {0} /\ plan.ahead \in Nat \ {0}
        /\ span % ChunkTokens(layout) = 0
    BY <1>2
  <2> HIDE DEF layout, span
  <2>3. \E k \in 1 .. selected_page_count(layout[g], span) :
           /\ page = PageAt(layout[g], span, plan.ahead, k)
           /\ \E name \in ToSet(FilesOf(layout, span)) :
                IsPlace(<<g, l, k, at>>, layout, name[1], name[2])
    <3>1. IsWanted(layout, span, plan.ahead, g, l, page, at)
      BY <2>1, <2>2, <1>3, <1>5 DEF IsWanted
    <3> QED BY <3>1, Stored
  <2> QED BY <2>3
<1>11. PICK name \in ToSet(FilesOf(layout, span)) :
         IsPlace(<<g, l, k, at>>, layout, name[1], name[2])
  BY <1>10
<1>12. name \in NamesOf[worker][span]
  BY <1>1, <1>2, <1>11 DEF NamesOf
<1>13. PICK x \in PlacesOf[worker][name] : x[2] = <<g, l, k, at>>
  <2>1. \A place : IsPlace(place, layout, name[1], name[2]) =>
          \E x \in PlacesOf[worker][name] : x[2] = place
    BY <1>12, PlacesAre DEF Carrying
  <2> HIDE DEF layout
  <2> QED BY <2>1, <1>11, Zenon
<1>14. Selected[worker][scheduler][plan][g][k] = page
  BY <1>1, <1>5, <1>10, SelectedPage
<1> DEFINE b == PutAt(plan, name, x)
<1>15. /\ b[1] = g /\ b[2] = l /\ b[3] = page /\ b[4] = at
       /\ b = <<b[1], b[2], b[3], b[4], b[5]>>
  <2>1. /\ b[1] = x[2][1] /\ b[2] = x[2][2] /\ b[4] = x[2][4]
        /\ b[3] = Selected[worker][scheduler][plan][x[2][1]][x[2][3]]
        /\ b = <<b[1], b[2], b[3], b[4], b[5]>>
    BY DEF PutAt
  <2>2. x[2][1] = g /\ x[2][2] = l /\ x[2][3] = k /\ x[2][4] = at
    BY <1>13
  <2> HIDE DEF b
  <2> QED BY <2>1, <2>2, <1>14, Zenon
<1>16. b[5] = RightByte(Configs[worker][b[1]], b[2], span, b[3], b[4])
  BY <1>12, PutRight
<1>17. b \in Loaded(plan)
  BY <1>12 DEF Loaded
<1> HIDE DEF b
<1>18. b = RB(g, l, page, at)
  BY <1>15, <1>16, Zenon
<1> QED BY <1>17, <1>18

\* The inductive invariant: what a restore puts is right because the files are, and
\* those are because layouts of one directory are one layout.
RestoreInv == LayoutInv /\ FilesRight /\ RestoredRight

\* The initial states satisfy it.
LEMMA RestoreBegins == RankInit => RestoreInv
<1> SUFFICES ASSUME RankInit PROVE RestoreInv
  OBVIOUS
<1>1. LayoutInv
  BY LayoutBegins
<1>2. FilesRight
  BY DEF RankInit, FilesRight
<1>3. RestoredRight
  BY DEF RankInit, RestoredRight
<1> QED BY <1>1, <1>2, <1>3 DEF RestoreInv

\* A step that touches neither the binding nor the files keeps them right.
LEMMA DirectoryKept ==
  ASSUME FilesRight, UNCHANGED <<binding, files>>
  PROVE  FilesRight'
BY DEF FilesRight

\* A step that is not a restore has nothing to be right about.
LEMMA NothingRestored ==
  ASSUME restored' = Nothing
  PROVE  RestoredRight'
BY DEF RestoredRight

\* A restore is right.
LEMMA LoadRestores ==
  ASSUME LayoutInv, FilesRight, NEW plan \in Plan, Load(plan)
  PROVE  FilesRight' /\ RestoredRight'
<1>1. /\ restored' = [plan |-> plan, bytes |-> Loaded(plan)]
      /\ \A name \in NamesOf[worker][plan.span] : files[name] # <<>>
      /\ Carrying(plan)
      /\ worker' = worker
  BY LoadedIs
<1>2. FilesRight'
  <2>1. UNCHANGED <<binding, files>>
    BY Zenon DEF Load, rankVars
  <2> QED BY <2>1, DirectoryKept
<1>3. /\ RightBytes[worker][plan] \subseteq Loaded(plan)
      /\ Cardinality({SubSeq(b, 1, 4) : b \in Loaded(plan)}) = Cardinality(Loaded(plan))
  BY <1>1, LoadedAll, LoadedOnce
<1>4. restored'.plan = plan /\ restored'.bytes = Loaded(plan)
  BY <1>1
<1>5. RestoredRight'
  BY <1>1, <1>3, <1>4, Zenon DEF RestoredRight
<1> QED BY <1>2, <1>5

\* Every step keeps it.
LEMMA RankRestores == RestoreInv /\ [RankNext]_allVars => RestoreInv'
<1> SUFFICES ASSUME LayoutInv, FilesRight, RestoredRight, [RankNext]_allVars
             PROVE  RestoreInv'
  BY DEF RestoreInv
<1>1. LayoutInv'
  BY RankKeepsLayout
<1> USE DEF rankVars
<1>2. CASE \E config, other \in DOMAIN Configs : Boot(config, other)
  <2>1. PICK config, other \in DOMAIN Configs : Boot(config, other)
    BY <1>2
  <2>2. FilesRight'
    BY <2>1, BootRight
  <2>3. restored' = Nothing
    BY <2>1 DEF Boot
  <2> QED BY <1>1, <2>2, <2>3, NothingRestored DEF RestoreInv
<1>3. CASE \/ Reserve \/ ReserveSync \/ Reserved \/ BootFails \/ Handshake
           \/ HandshakeFails \/ RestoreFails \/ CountFailure \/ Exit \/ Killed \/ PowerGoes
  <2>1. restored' = Nothing /\ UNCHANGED <<binding, files>>
    BY <1>3 DEF Reserve, ReserveSync, Reserved, BootFails, Handshake, HandshakeFails,
                RestoreFails, CountFailure, Exit, Killed, PowerGoes
  <2> QED BY <1>1, <2>1, DirectoryKept, NothingRestored DEF RestoreInv
<1>4. CASE \/ CountQuarantine \/ CountingStep \/ CountingSync \/ ExportTotals \/ Tampering
  <2>1. restored' = Nothing /\ UNCHANGED <<binding, files>>
    BY <1>4 DEF CountQuarantine, CountingStep, CountingSync, ExportTotals, Tampering
  <2> QED BY <1>1, <2>1, DirectoryKept, NothingRestored DEF RestoreInv
<1>5. ASSUME NEW plan \in Plan, Save(plan)
      PROVE  RestoreInv'
  <2>1. FilesRight'
    BY <1>5, SaveRight
  <2>2. restored' = Nothing
    BY <1>5, Zenon DEF Save
  <2> QED BY <1>1, <2>1, <2>2, NothingRestored DEF RestoreInv
<1>6. ASSUME NEW plan \in Plan, Load(plan)
      PROVE  RestoreInv'
  BY <1>1, <1>6, LoadRestores DEF RestoreInv
<1>7. CASE UNCHANGED allVars
  <2>1. UNCHANGED <<binding, files, restored, worker>>
    BY <1>7 DEF allVars
  <2>2. RestoredRight'
    BY <2>1 DEF RestoredRight
  <2> QED BY <1>1, <2>1, <2>2, DirectoryKept DEF RestoreInv
<1> QED BY <1>2, <1>3, <1>4, <1>5, <1>6, <1>7 DEF RankNext

\* For any configurations, tables, boundaries, slot sizes and history of processes: a
\* restore puts into every page that a layer of the worker reads the bytes that
\* belong there, and no byte twice.  The files may be from another process with
\* another configuration, or from a request with other tables.
THEOREM RestoredAlwaysRight == RankSpec => []RestoredRight
<1>1. RestoreInv => RestoredRight
  BY DEF RestoreInv
<1> QED BY <1>1, RestoreBegins, RankRestores, PTL DEF RankSpec
=============================================================================
