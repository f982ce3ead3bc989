------------------------- MODULE MaintenanceThread -----------------------
(***************************************************************************)
(* A worker's maintenance: the scrub thread (maintenance.py), the drain of *)
(* its results by vLLM's thread before every report, capacity maintenance  *)
(* and shutdown (vllm/connector.py).  The thread asks for a rescan of the  *)
(* inventory by advancing an epoch; vLLM's thread answers by scanning the  *)
(* files and acknowledging the epoch that it had read.  What the thread    *)
(* does to single files is in TokenStore, how it goes round in ScrubCycle. *)
(***************************************************************************)
EXTENDS Integers, FiniteSets

CONSTANTS
  Chunks,
  MaxEvents       \* results and failures of maintenance

ASSUME MaintenanceAssumption == IsFiniteSet(Chunks) /\ MaxEvents \in Nat

VARIABLES
  disk,           \* disk[k]: what a scan finds of k; "marked" is not offered
  held,           \* the reporter's catalog
  lock,           \* vLLM's thread holds the namespace lock over a step
  epoch,          \* _inventory_rescan_epoch
  acknowledged,   \* _inventory_rescan_acknowledged
  forced,         \* _inventory_force_withdrawal_epoch
  withdrawn,      \* _inventory_withdrawn_epoch, the connector's
  main,           \* where vLLM's thread is
  rescan,         \* rescan_epoch, read at the start of the drain
  scan,           \* offers
  thread,         \* where the scrub thread is
  found,          \* the step has quarantined or released something
  stop,           \* _stop
  store,          \* the store and the mover
  finalizer,      \* the thread that closes them after a timeout
  owed,           \* history: failures since which no empty image was reported
  released,       \* history: chunks that the scrub released and nobody announced
  events

epochs == <<epoch, acknowledged, forced>>
vars == <<disk, held, lock, epochs, withdrawn, main, rescan, scan, thread, found, stop,
          store, finalizer, owed, released, events>>

Offered == {k \in Chunks : disk[k] = "offered"}

\* register_kv_caches has filled the reporter and starts the thread.
Init ==
  /\ disk \in [Chunks -> {"absent", "offered", "marked"}]
  /\ held = Offered
  /\ lock = FALSE
  /\ epoch = 0 /\ acknowledged = 0 /\ forced = 0 /\ withdrawn = 0
  /\ main = "idle" /\ rescan = 0 /\ scan = {}
  /\ thread = "starting" /\ found = FALSE /\ stop = FALSE
  /\ store = "open" /\ finalizer = "none"
  /\ owed = {} /\ released = {} /\ events = 0

\* The reporter's catalog changes, and with it which released chunks wait.
Holds(chunks) ==
  /\ held' = chunks
  /\ released' = released \ chunks

\* Chunks are condemned or evicted: the hook withdraws them.
Withdraws(chunks) ==
  /\ held' = held \ chunks
  /\ released' = released \ chunks

Happens == events < MaxEvents /\ events' = events + 1

--------------------------------------------------------------------------
(* Epochs.                                                                 *)

\* require_inventory_rescan; owed remembers the failure.
require_inventory_rescan(force_withdrawal) ==
  /\ epoch' = epoch + 1
  /\ forced' = IF force_withdrawal THEN epoch + 1 ELSE forced
  /\ owed' = IF force_withdrawal THEN owed \cup {epoch + 1} ELSE owed
  /\ UNCHANGED acknowledged

pending_inventory_rescan_epoch == IF epoch <= acknowledged THEN 0 ELSE epoch

inventory_rescan_requires_withdrawal(read) == acknowledged < forced /\ forced <= read

\* Mutant: everything that was asked for meanwhile is acknowledged too.
acknowledge_newest(read) == acknowledged' = epoch

acknowledge_inventory_rescan(read) ==
  acknowledged' = IF acknowledged < read THEN read ELSE acknowledged

--------------------------------------------------------------------------
(* The scrub thread.                                                       *)

\* _run reads the state, or fails.
StartThread ==
  /\ thread = "starting"
  /\ thread' = "poll"
  /\ UNCHANGED <<disk, held, lock, epochs, withdrawn, main, rescan, scan, found, stop,
                 store, finalizer, owed, released, events>>

\* The loop: a step begins, or the thread ends.
BeginStep ==
  /\ thread = "poll"
  /\ thread' = IF stop THEN "done" ELSE "step"
  /\ found' = FALSE
  /\ UNCHANGED <<disk, held, lock, epochs, withdrawn, main, rescan, scan, stop,
                 store, finalizer, owed, released, events>>

\* The step quarantines a bad chunk, which the hook withdraws from the reporter.
Quarantine(k) ==
  /\ thread = "step" /\ ~lock
  /\ disk[k] # "absent"
  /\ Happens
  /\ disk' = [disk EXCEPT ![k] = "absent"]
  /\ Withdraws({k})
  /\ found' = TRUE
  /\ UNCHANGED <<lock, epochs, withdrawn, main, rescan, scan, thread, stop, store,
                 finalizer, owed>>

\* The step authenticates a marked chunk and removes the marker.
Release(k) ==
  /\ thread = "step" /\ ~lock
  /\ disk[k] = "marked"
  /\ Happens
  /\ disk' = [disk EXCEPT ![k] = "offered"]
  /\ released' = released \cup ({k} \ held)
  /\ found' = TRUE
  /\ UNCHANGED <<held, lock, epochs, withdrawn, main, rescan, scan, thread, stop, store,
                 finalizer, owed>>

\* A quarantine fails: the hook has run; the marker is there or not, and the
\* file was renamed or not.
QuarantineFails(k) ==
  /\ thread = "step" /\ ~lock
  /\ disk[k] # "absent"
  /\ Happens
  /\ \E left \in {disk[k], "marked", "absent"} : disk' = [disk EXCEPT ![k] = left]
  /\ Withdraws({k})
  /\ thread' = "failed"
  /\ UNCHANGED <<lock, epochs, withdrawn, main, rescan, scan, found, stop, store,
                 finalizer, owed>>

\* Anything else fails, the first look at the state included.
StepFails ==
  /\ thread \in {"starting", "step"}
  /\ Happens
  /\ thread' = "failed"
  /\ UNCHANGED <<disk, held, lock, epochs, withdrawn, main, rescan, scan, found, stop,
                 store, finalizer, owed, released>>

\* The exception handler of _run.
Recover ==
  /\ thread = "failed"
  /\ require_inventory_rescan(TRUE)
  /\ thread' = "poll"
  /\ UNCHANGED <<disk, held, lock, withdrawn, main, rescan, scan, found, stop, store,
                 finalizer, released, events>>

EndStep ==
  /\ thread = "step"
  /\ thread' = "accumulate"
  /\ UNCHANGED <<disk, held, lock, epochs, withdrawn, main, rescan, scan, found, stop,
                 store, finalizer, owed, released, events>>

\* Mutant: the results of the step are not passed on.
accumulate_metrics_only == UNCHANGED <<epochs, owed>>

\* _accumulate: a rescan is required if the step has found something.
accumulate ==
  IF found THEN require_inventory_rescan(FALSE) ELSE UNCHANGED <<epochs, owed>>

Accumulate ==
  /\ thread = "accumulate"
  /\ accumulate
  /\ thread' = "poll"
  /\ UNCHANGED <<disk, held, lock, withdrawn, main, rescan, scan, found, stop, store,
                 finalizer, released, events>>

\* _pace_payload notices the stop: the thread ends in the middle of its step.
Cancel ==
  /\ thread = "step" /\ stop
  /\ thread' = "done"
  /\ UNCHANGED <<disk, held, lock, epochs, withdrawn, main, rescan, scan, found, stop,
                 store, finalizer, owed, released, events>>

ThreadNext ==
  \/ StartThread \/ BeginStep \/ StepFails \/ Recover \/ EndStep \/ Accumulate \/ Cancel
  \/ \E k \in Chunks : Quarantine(k) \/ Release(k) \/ QuarantineFails(k)

--------------------------------------------------------------------------
(* vLLM's thread: the drain and the report.                                *)

\* get_kv_connector_stats begins: is there a rescan to do?
BeginDrain ==
  /\ main = "idle"
  /\ rescan' = pending_inventory_rescan_epoch
  /\ main' = IF rescan' = 0 THEN "report" ELSE "decide"
  /\ UNCHANGED <<disk, held, lock, epochs, withdrawn, scan, thread, found, stop, store,
                 finalizer, owed, released, events>>

\* Mutant: it is not remembered that everything was withdrawn.
decide_again ==
  /\ main = "decide"
  /\ IF inventory_rescan_requires_withdrawal(rescan)
     THEN Holds({}) /\ main' = "report"
     ELSE main' = "scan" /\ UNCHANGED <<held, released>>
  /\ UNCHANGED <<disk, lock, epochs, withdrawn, rescan, scan, thread, found, stop, store,
                 finalizer, owed, events>>

\* Withdraw everything first, or scan.
Decide ==
  /\ main = "decide"
  /\ IF inventory_rescan_requires_withdrawal(rescan) /\ withdrawn < rescan
     THEN /\ Holds({})
          /\ withdrawn' = rescan
          /\ main' = "report"
     ELSE /\ main' = "scan"
          /\ UNCHANGED <<held, released, withdrawn>>
  /\ UNCHANGED <<disk, lock, epochs, rescan, scan, thread, found, stop, store,
                 finalizer, owed, events>>

\* Mutant: the lock is not held until the catalog is replaced.
scan_unlocked ==
  /\ main = "scan" /\ ~lock
  /\ lock' = lock
  /\ scan' = Offered
  /\ main' = "replace"
  /\ UNCHANGED <<disk, held, epochs, withdrawn, rescan, thread, found, stop, store,
                 finalizer, owed, released, events>>

Scan ==
  /\ main = "scan" /\ ~lock
  /\ lock' = TRUE
  /\ scan' = Offered
  /\ main' = "replace"
  /\ UNCHANGED <<disk, held, epochs, withdrawn, rescan, thread, found, stop, store,
                 finalizer, owed, released, events>>

Replace ==
  /\ main = "replace"
  /\ Holds(scan)
  /\ acknowledge_inventory_rescan(rescan)
  /\ lock' = FALSE
  /\ scan' = {}
  /\ main' = "report"
  /\ UNCHANGED <<disk, epoch, forced, withdrawn, rescan, thread, found, stop, store,
                 finalizer, owed, events>>

\* The scan fails: nothing is offered, and the epoch stays pending.
ScanFails ==
  /\ main = "scan" /\ ~lock
  /\ Happens
  /\ Holds({})
  /\ withdrawn' = rescan
  /\ main' = "report"
  /\ UNCHANGED <<disk, lock, epochs, rescan, scan, thread, found, stop, store,
                 finalizer, owed>>

\* The rest of get_kv_connector_stats: markers withdraw, and the catalog is sent.
Report ==
  /\ main = "report" /\ ~lock
  /\ Holds({k \in held : disk[k] # "marked"})
  /\ owed' = IF held' = {} THEN {} ELSE owed
  /\ main' = "idle"
  /\ UNCHANGED <<disk, lock, epochs, withdrawn, rescan, scan, thread, found, stop, store,
                 finalizer, events>>

--------------------------------------------------------------------------
(* vLLM's thread: stores and capacity.                                     *)

\* A chunk of a store plan is published, or found to be there; it is announced
\* unless a later one fails.
CommitPlan(k, announced) ==
  /\ main = "idle" /\ ~lock
  /\ disk' = [disk EXCEPT ![k] = "offered"]
  /\ IF announced THEN Holds(held \cup {k}) ELSE UNCHANGED <<held, released>>
  /\ UNCHANGED <<lock, epochs, withdrawn, main, rescan, scan, thread, found, stop, store,
                 finalizer, owed, events>>

\* _maintain_capacity evicts, and then scans under the lock once more.
EvictBatch(chunks) ==
  /\ main = "idle" /\ ~lock
  /\ chunks # {} /\ \A k \in chunks : disk[k] # "absent"
  /\ Happens
  /\ disk' = [k \in Chunks |-> IF k \in chunks THEN "absent" ELSE disk[k]]
  /\ Withdraws(chunks)
  /\ main' = "evicted"
  /\ UNCHANGED <<lock, epochs, withdrawn, rescan, scan, thread, found, stop, store,
                 finalizer, owed>>

ReplaceEvicted ==
  /\ main = "evicted" /\ ~lock
  /\ Holds(Offered)
  /\ main' = "idle"
  /\ UNCHANGED <<disk, lock, epochs, withdrawn, rescan, scan, thread, found, stop, store,
                 finalizer, owed, events>>

\* Either half fails: nothing is offered, and a rescan is forced.
CapacityFails ==
  /\ main \in {"idle", "evicted"} /\ ~lock
  /\ Happens
  /\ Holds({})
  /\ require_inventory_rescan(TRUE)
  /\ main' = "idle"
  /\ UNCHANGED <<disk, lock, withdrawn, rescan, scan, thread, found, stop, store,
                 finalizer>>

--------------------------------------------------------------------------
(* Shutdown.                                                               *)

\* shutdown calls close, which stops the thread and joins it.
Shutdown ==
  /\ main = "idle"
  /\ stop' = TRUE
  /\ main' = "join"
  /\ UNCHANGED <<disk, held, lock, epochs, withdrawn, rescan, scan, thread, found, store,
                 finalizer, owed, released, events>>

\* The thread has ended: the mover and the store are closed.
Joined ==
  /\ main = "join" /\ thread = "done"
  /\ store' = "closed"
  /\ main' = "shut"
  /\ UNCHANGED <<disk, held, lock, epochs, withdrawn, rescan, scan, thread, found, stop,
                 finalizer, owed, released, events>>

\* Mutant: the store is closed after the timeout.
join_times_out_closing ==
  /\ main = "join" /\ thread # "done"
  /\ store' = "closed"
  /\ finalizer' = "none"
  /\ main' = "shut"
  /\ UNCHANGED <<disk, held, lock, epochs, withdrawn, rescan, scan, thread, found, stop,
                 owed, released, events>>

\* The join times out: the finalizer gets the mover and the store.
JoinTimesOut ==
  /\ main = "join" /\ thread # "done"
  /\ finalizer' = "waiting"
  /\ main' = "shut"
  /\ UNCHANGED <<disk, held, lock, epochs, withdrawn, rescan, scan, thread, found, stop,
                 store, owed, released, events>>

\* Mutant: the finalizer gives up with the first timeout.
finalize_once ==
  /\ finalizer = "waiting"
  /\ store' = IF thread = "done" THEN "closed" ELSE store
  /\ finalizer' = "done"
  /\ UNCHANGED <<disk, held, lock, epochs, withdrawn, main, rescan, scan, thread, found,
                 stop, owed, released, events>>

\* _finish_deferred_scrub_shutdown, which joins until the thread has ended.
Finalize ==
  /\ finalizer = "waiting" /\ thread = "done"
  /\ store' = "closed"
  /\ finalizer' = "done"
  /\ UNCHANGED <<disk, held, lock, epochs, withdrawn, main, rescan, scan, thread, found,
                 stop, owed, released, events>>

Drain == BeginDrain \/ Decide \/ Scan \/ Replace \/ ScanFails \/ Report

Capacity ==
  \/ \E k \in Chunks, announced \in BOOLEAN : CommitPlan(k, announced)
  \/ \E chunks \in SUBSET Chunks : EvictBatch(chunks)
  \/ ReplaceEvicted
  \/ CapacityFails

Ending == Joined \/ JoinTimesOut

Next == ThreadNext \/ Drain \/ Capacity \/ Shutdown \/ Ending \/ Finalize

Spec == Init /\ [][Next]_vars

\* vLLM asks for statistics in every step, and a join ends by its timeout; the
\* thread and the finalizer run as long as the process.
Fairness ==
  /\ WF_vars(Drain) /\ WF_vars(ReplaceEvicted) /\ WF_vars(Ending)
  /\ WF_vars(ThreadNext) /\ WF_vars(Finalize)

FairSpec == Spec /\ Fairness

--------------------------------------------------------------------------
\* Every variable keeps its type, and no epoch is ahead of the last one required.
TypeOK ==
  /\ disk \in [Chunks -> {"absent", "offered", "marked"}]
  /\ held \subseteq Chunks /\ scan \subseteq Chunks
  /\ epoch \in Nat
  /\ acknowledged \in 0..epoch /\ forced \in 0..epoch
  /\ withdrawn \in 0..epoch /\ rescan \in 0..epoch
  /\ main \in {"idle", "decide", "scan", "replace", "report", "evicted", "join", "shut"}
  /\ thread \in {"starting", "poll", "step", "accumulate", "failed", "done"}
  /\ lock \in BOOLEAN /\ found \in BOOLEAN /\ stop \in BOOLEAN
  /\ store \in {"open", "closed"}
  /\ finalizer \in {"none", "waiting", "done"}
  /\ owed \subseteq 1..epoch
  /\ released \subseteq Chunks
  /\ events \in 0..MaxEvents

\* Failures of maintenance are not acknowledged before an empty image was
\* reported, however their epochs, the drain and further results interleave: as
\* long as one of them waits for that report, a withdrawal is pending.  A failure
\* that comes between the drain's two calls takes the place of the one before.
FailuresWithdraw == owed # {} => acknowledged < forced

\* The reporter never offers a chunk whose file is gone: no scan is older than
\* a quarantine or an eviction that it would undo.
NoStaleSnapshot == \A k \in held : disk[k] # "absent"

\* A chunk whose marker the scrub has removed is announced, or a rescan is on
\* its way: required, or about to be by the thread.
ReleasedReturns ==
  \A k \in released :
    disk[k] = "offered" =>
      \/ acknowledged < epoch
      \/ found /\ thread \in {"step", "accumulate"}
      \/ thread = "failed"
      \/ stop

\* The thread works on an open store, shutdown or not.
OpenWhileScrubbed == thread # "done" => store = "open"

\* Every rescan that is required is done, unless the worker is shut down.
RescansHappen == acknowledged < epoch ~> (acknowledged = epoch \/ stop)

\* Shutdown returns and the store is closed in the end.
ShutdownEnds == stop ~> (main = "shut" /\ store = "closed")
==========================================================================
