--------------------------- MODULE TokenStore ----------------------------
(***************************************************************************)
(* The chunk files and withdrawal markers of one rank (token_files.py,     *)
(* rank_store.py) together with what its worker offers (the held catalog   *)
(* of the reporter), at the grain of the system calls that a crash can     *)
(* separate.                                                               *)
(*                                                                         *)
(* All operations hold the namespace lock, so at most one is in progress.  *)
(* Three actors take the lock: the worker's main thread (commits, restore  *)
(* views, eviction, reports), its scrub thread, and a maintenance process  *)
(* that has neither the reporter nor the inventory lease.  The payload of  *)
(* a chunk is damaged in a way that only a full authentication finds.      *)
(***************************************************************************)
EXTENDS Integers, FiniteSets

CONSTANTS
  Chunks,        \* keys, compared as the digests are
  BatchLimit,    \* REPORT_BATCH_SIZE: markers acknowledged per report
  Maintenance,   \* whether a separate maintenance process runs
  MaxDamages,    \* payloads damaged
  MaxErrors,     \* system calls that fail
  MaxCrashes,    \* processes that die
  MaxPowerLosses

ASSUME StoreAssumption ==
  /\ Chunks \subseteq Nat \ {0}
  /\ IsFiniteSet(Chunks)
  /\ BatchLimit \in Nat \ {0}
  /\ Maintenance \in BOOLEAN
  /\ {MaxDamages, MaxErrors, MaxCrashes, MaxPowerLosses} \subseteq Nat

VARIABLES
  file,       \* file[k]: what the name of chunk k leads to
  disk,       \* disk[k]: what it may lead to after a power loss
  marker,     \* marker[k]: whether chunk k has a withdrawal marker
  receipts,   \* receipts[k]: whether it may have one after a power loss
  worker,     \* "down", "starting", "up", or "scanning" after evictions
  offers,     \* the scan of a starting worker
  held,       \* the keys of the reporter's held catalog
  pins,       \* the keys of the open restore view
  cursor,     \* _inventory_marker_cursor, 0 for None
  op,         \* the operation that holds the lock
  budget      \* damages, errors, crashes and power losses so far

vars == <<file, disk, marker, receipts, worker, offers, held, pins, cursor,
          op, budget>>

\* A condemned chunk has been found damaged and its marker is durable.
FileState == {"absent", "good", "damaged", "condemned"}
MarkerState == {"clear", "set"}

\* by is "worker" for an operation that calls the reporter's withdraw hook;
\* outcome remembers an error, queue and next the markers a report
\* still has to acknowledge and the cursor it will leave.
Kinds == {"none", "withdraw", "quarantine", "publish", "evict", "release",
          "report"}

Steps == {"idle", "mkdir", "sync_mark", "remove", "link", "sync_shard", "retire",
          "rmdir", "sync_clear", "ack"}

Op == [kind : Kinds, key : Chunks \cup {0}, step : Steps,
       by : {"worker", "maintenance", "startup"}, outcome : {"ok", "failed"},
       queue : SUBSET Chunks, next : Chunks \cup {0}]

NoOp == [kind |-> "none", key |-> 0, step |-> "idle", by |-> "worker",
         outcome |-> "ok", queue |-> {}, next |-> 0]

Begin(kind, k, step, by) ==
  [NoOp EXCEPT !.kind = kind, !.key = k, !.step = step, !.by = by]

Init ==
  /\ file = [k \in Chunks |-> "absent"]
  /\ disk = [k \in Chunks |-> {"absent"}]
  /\ marker = [k \in Chunks |-> "clear"]
  /\ receipts = [k \in Chunks |-> {"clear"}]
  /\ worker = "down"
  /\ offers = {}
  /\ held = {}
  /\ pins = {}
  /\ cursor = 0
  /\ op = NoOp
  /\ budget = [damages |-> 0, errors |-> 0, crashes |-> 0, losses |-> 0]

storage == <<file, disk, marker, receipts>>
memory == <<worker, offers, held, pins, cursor>>

Unlocked == op.kind = "none"

\* The main thread is between operations: no restore view is open.
MainIdle == worker = "up" /\ pins = {} /\ Unlocked

\* scan_offers: every file whose header is intact and that is not withdrawn.
Offered == {k \in Chunks : file[k] # "absent" /\ marker[k] = "clear"}

\* _pins.busy
Busy(k) == k \in pins

--------------------------------------------------------------------------
(* Operations taking the lock.                                             *)

\* Mutant: a pinned chunk is removed too.
quarantine_bad_pinned(k, by) == Begin("quarantine", k, "mkdir", by)

\* _quarantine_bad: a pinned chunk is only marked.
quarantine_bad(k, by) ==
  Begin(IF Busy(k) THEN "withdraw" ELSE "quarantine", k, "mkdir", by)

\* valid_chunk of a commit finds the chunk intact, and the commit goes on to
\* announce it or fails on another chunk.
Confirm(k) ==
  /\ MainIdle
  /\ file[k] = "good"
  /\ marker[k] = "clear"
  /\ held' = held \cup {k}
  /\ UNCHANGED <<storage, worker, offers, pins, cursor, op, budget>>

\* valid_chunk or _chain meets a chunk that is damaged or withdrawn; the
\* marker is looked up first, so a withdrawn chunk may be absent.
Reject(k) ==
  /\ MainIdle
  /\ marker[k] = "set" \/ file[k] \in {"damaged", "condemned"}
  /\ op' = quarantine_bad(k, "worker")
  /\ UNCHANGED <<storage, memory, budget>>

\* An intact chunk cannot be read, by a commit, a lookup, a restore or a
\* scrub: it is treated as a damaged one.
ReadFails(k, by) ==
  /\ Unlocked
  /\ IF by = "worker" THEN worker \in {"up", "scanning"} ELSE Maintenance
  /\ Busy(k) => by = "worker"
  /\ file[k] = "good"
  /\ budget.errors < MaxErrors
  /\ budget' = [budget EXCEPT !.errors = @ + 1]
  /\ op' = quarantine_bad(k, by)
  /\ UNCHANGED <<storage, memory>>

\* commit_chunk, commit_stream: the key is absent, its payload is complete in
\* a temporary file.
Publish(k) ==
  /\ MainIdle
  /\ file[k] = "absent"
  /\ op' = Begin("publish", k, "link", "worker")
  /\ UNCHANGED <<storage, memory, budget>>

\* evict, of a capacity batch after a commit or before the startup scan (when
\* there is no reporter yet).
Evict(k, by) ==
  /\ IF by = "worker" THEN MainIdle ELSE worker = "down" /\ Unlocked
  /\ ~Busy(k)
  /\ file[k] # "absent"
  /\ op' = Begin("evict", k, "mkdir", by)
  /\ UNCHANGED <<storage, memory, budget>>

\* restore_view pins a chain that lookup found; the view is closed without
\* the lock.
OpenView(S) ==
  /\ MainIdle
  /\ S # {}
  /\ S \subseteq Offered
  /\ pins' = S
  /\ UNCHANGED <<storage, worker, offers, held, cursor, op, budget>>

CloseView ==
  /\ pins # {}
  /\ op.kind # "withdraw"
  /\ pins' = {}
  /\ UNCHANGED <<storage, worker, offers, held, cursor, op, budget>>

\* stream_objects reads a pinned chunk and finds it damaged or withdrawn.
StreamFails(k) ==
  /\ Unlocked
  /\ Busy(k)
  /\ marker[k] = "set" \/ file[k] # "good"
  /\ op' = quarantine_bad(k, "worker")
  /\ UNCHANGED <<storage, memory, budget>>

\* One key of a scrub step: deferred while pinned, authenticated whether or
\* not it is withdrawn, released or quarantined.
Scrub(k, by) ==
  /\ Unlocked
  /\ IF by = "worker" THEN worker \in {"up", "scanning"} ELSE Maintenance
  /\ ~Busy(k)
  /\ \/ /\ file[k] = "good"
        /\ marker[k] = "set"
        /\ op' = Begin("release", k, "rmdir", by)
     \/ /\ file[k] \in {"damaged", "condemned"}
        /\ op' = quarantine_bad(k, by)
  /\ UNCHANGED <<storage, memory, budget>>

\* _maintain_capacity, after its evictions, and _drain_scrub_maintenance, when
\* a rescan is due, replace the catalog by a scan; a failed scan, and a rescan
\* that has to withdraw first, replace it by nothing.
Rescan ==
  /\ worker \in {"up", "scanning"}
  /\ pins = {}
  /\ Unlocked
  /\ held' \in {Offered, {}}
  /\ worker' = "up"
  /\ UNCHANGED <<storage, offers, pins, cursor, op, budget>>

\* inventory_withdrawal_marker_batch: the first markers after the cursor,
\* from the beginning if there is none.
MarkerPage(after) ==
  LET marked == {k \in Chunks : marker[k] = "set"}
      following == {k \in marked : k > after}
      pool == IF following = {} THEN marked ELSE following
  IN {k \in pool : Cardinality({j \in pool : j < k}) < BatchLimit}

\* Mutant: the cursor stays at the beginning.
next_cursor_stays(page) == {0}

\* The last key of a full page is the next cursor (the only element of the
\* set); after a short page the cursor wraps.
NextCursor(page) ==
  IF Cardinality(page) = BatchLimit
  THEN {k \in page : \A j \in page : j <= k} ELSE {0}

\* Mutant: only the page to be acknowledged is withdrawn.
begin_report_of_page(image) ==
  LET page == MarkerPage(cursor)
  IN /\ held' = image \ page
     /\ \E next \in NextCursor(page) :
          op' = [Begin("report", 0, "ack", "worker") EXCEPT
                   !.queue = page, !.next = next]

\* A report withdraws every marked key from image and is built; then it
\* acknowledges a page of markers.
BeginReport(image) ==
  LET page == MarkerPage(cursor)
  IN /\ held' = {k \in image : marker[k] = "clear"}
     /\ \E next \in NextCursor(page) :
          op' = [Begin("report", 0, "ack", "worker") EXCEPT
                   !.queue = page, !.next = next]

\* get_kv_connector_stats
Report ==
  /\ MainIdle
  /\ BeginReport(held)
  /\ UNCHANGED <<storage, worker, offers, pins, cursor, budget>>

\* register_kv_caches: the catalog is scanned in one critical section and
\* becomes the startup inventory in another.
StartScan ==
  /\ worker = "down"
  /\ Unlocked
  /\ worker' = "starting"
  /\ offers' = Offered
  /\ cursor' = 0
  /\ UNCHANGED <<storage, held, pins, op, budget>>

StartReport ==
  /\ worker = "starting"
  /\ Unlocked
  /\ BeginReport(offers)
  /\ offers' = {}
  /\ UNCHANGED <<storage, worker, pins, cursor, budget>>

--------------------------------------------------------------------------
(* Steps of the operation in progress.                                     *)

At(step) == op.step = step

\* The operation continues at step, or returns and leaves image held.
GoOn(step) ==
  /\ op' = [op EXCEPT !.step = step]
  /\ UNCHANGED <<worker, offers, held, pins>>

Return(image) ==
  /\ op' = NoOp
  /\ held' = image
  /\ UNCHANGED <<worker, offers, pins>>

\* The worker process ends; its memory and its pins are gone.
Exit ==
  /\ worker' = "down"
  /\ offers' = {}
  /\ held' = {}
  /\ pins' = {}

\* The withdraw hook of the process that runs the operation.
Withdrawn == IF op.by = "worker" THEN held \ {op.key} ELSE held

\* The operation raises.  A restore that fails after admission and a startup
\* that fails end the process, a failed capacity batch withdraws everything.
Raise ==
  IF op.kind = "withdraw" \/ (op.kind = "report" /\ worker = "starting")
  THEN op' = NoOp /\ Exit
  ELSE Return(IF op.kind = "evict" THEN {} ELSE held)

\* A system call fails.
Fail ==
  /\ budget.errors < MaxErrors
  /\ budget' = [budget EXCEPT !.errors = @ + 1]

\* The chunk that the name k leads to is called new instead of old.
Relabel(k, old, new) ==
  /\ file' = [file EXCEPT ![k] = IF @ = old THEN new ELSE @]
  /\ disk' = [disk EXCEPT ![k] = {IF x = old /\ file[k] = old THEN new
                                  ELSE x : x \in @}]

\* _mark_inventory_withdrawn: mkdir, then fsync of the marker directory.
MarkDirectory ==
  LET k == op.key
  IN /\ At("mkdir")
     /\ marker' = [marker EXCEPT ![k] = "set"]
     /\ receipts' = [receipts EXCEPT ![k] = @ \cup {"set"}]
     /\ GoOn("sync_mark")
     /\ UNCHANGED <<file, disk, cursor, budget>>

\* The marker is durable; the reporter is told.  A commit that had to
\* withdraw what it published and a failed restore end here.
SyncMark ==
  LET k == op.key
  IN /\ At("sync_mark")
     /\ receipts' = [receipts EXCEPT ![k] = {"set"}]
     /\ IF op.kind \in {"withdraw", "quarantine"}
        THEN Relabel(k, "damaged", "condemned") ELSE UNCHANGED <<file, disk>>
     /\ CASE op.kind = "withdraw" -> op' = NoOp /\ Exit
          [] op.kind = "publish" -> Return(Withdrawn)
          [] OTHER -> /\ op' = [op EXCEPT !.step = "remove"]
                      /\ held' = Withdrawn
                      /\ UNCHANGED <<worker, offers, pins>>
     /\ UNCHANGED <<marker, cursor, budget>>

\* Only _quarantine_manifest goes on: it remembers the error.
MarkFails ==
  /\ At("mkdir") \/ At("sync_mark")
  /\ Fail
  /\ IF op.kind = "quarantine"
     THEN /\ op' = [op EXCEPT !.step = "remove", !.outcome = "failed"]
          /\ held' = Withdrawn
          /\ UNCHANGED <<worker, offers, pins>>
     ELSE Raise
  /\ UNCHANGED <<storage, cursor>>

\* os.replace into the quarantine directory, or unlink.  A quarantine that
\* finds no file returns, and the marker stays.
Remove ==
  LET k == op.key
  IN /\ At("remove")
     /\ IF file[k] = "absent" THEN Return(held) ELSE GoOn("sync_shard")
     /\ file' = [file EXCEPT ![k] = "absent"]
     /\ disk' = [disk EXCEPT ![k] = @ \cup {"absent"}]
     /\ UNCHANGED <<marker, receipts, cursor, budget>>

\* os.link of the complete temporary file.
Link ==
  LET k == op.key
  IN /\ At("link")
     /\ file' = [file EXCEPT ![k] = "good"]
     /\ disk' = [disk EXCEPT ![k] = @ \cup {"good"}]
     /\ GoOn("sync_shard")
     /\ UNCHANGED <<marker, receipts, cursor, budget>>

NameFails ==
  /\ At("remove") \/ At("link")
  /\ Fail
  /\ Raise
  /\ UNCHANGED <<storage, cursor>>

\* The names of the shard are durable.  An eviction leaves the marker, and so
\* does a quarantine with a remembered error or without the hook; after an
\* eviction the worker scans its files.
SyncShard ==
  LET k == op.key
  IN /\ At("sync_shard")
     /\ disk' = [disk EXCEPT ![k] = {file[k]}]
     /\ CASE op.kind = "evict" ->
               /\ op' = NoOp
               /\ worker' = IF op.by = "worker" THEN "scanning" ELSE worker
               /\ UNCHANGED <<offers, held, pins>>
          [] op.kind = "quarantine" /\ (op.outcome = "failed" \/ op.by # "worker") ->
               Return(held)
          [] op.kind = "publish" -> GoOn("retire")
          [] OTHER -> GoOn("rmdir")
     /\ UNCHANGED <<file, marker, receipts, cursor, budget>>

\* The shard, or the quarantine directory after it, is not synced.  A commit
\* withdraws what it published.
SyncShardFails ==
  LET k == op.key
  IN /\ At("sync_shard")
     /\ Fail
     /\ \/ UNCHANGED disk
        \/ /\ op.kind = "quarantine"
           /\ disk' = [disk EXCEPT ![k] = {file[k]}]
     /\ IF op.kind = "publish" THEN GoOn("mkdir") ELSE Raise
     /\ UNCHANGED <<file, marker, receipts, cursor>>

\* The temporary name is removed and its directory synced.
Retire ==
  /\ At("retire")
  /\ GoOn("rmdir")
  /\ UNCHANGED <<storage, cursor, budget>>

RetireFails ==
  /\ At("retire")
  /\ Fail
  /\ GoOn("mkdir")
  /\ UNCHANGED <<storage, cursor>>

\* What follows the removal of a marker: a published chunk is announced,
\* unless the rest of the commit fails; a report goes on.
Cleared ==
  CASE op.kind = "publish" -> \/ Return(held \cup {op.key})
                              \/ Return(held)
    [] op.kind = "report" -> GoOn("ack")
    [] OTHER -> Return(held)

\* _clear_inventory_withdrawal: rmdir, then fsync of the marker directory.
ClearDirectory ==
  LET k == op.key
  IN /\ At("rmdir")
     /\ IF marker[k] = "set"
        THEN /\ marker' = [marker EXCEPT ![k] = "clear"]
             /\ receipts' = [receipts EXCEPT ![k] = @ \cup {"clear"}]
             /\ GoOn("sync_clear")
        ELSE Cleared /\ UNCHANGED <<marker, receipts>>
     /\ UNCHANGED <<file, disk, cursor, budget>>

SyncClear ==
  /\ At("sync_clear")
  /\ receipts' = [receipts EXCEPT ![op.key] = {"clear"}]
  /\ Cleared
  /\ UNCHANGED <<file, disk, marker, cursor, budget>>

\* A commit withdraws what it published, and the scrub takes the error for
\* one of the chunk.
ClearFails ==
  /\ (At("rmdir") /\ marker[op.key] = "set") \/ At("sync_clear")
  /\ Fail
  /\ CASE op.kind = "publish" -> GoOn("mkdir")
       [] op.kind = "release" -> /\ op' = quarantine_bad(op.key, op.by)
                                 /\ UNCHANGED <<worker, offers, held, pins>>
       [] OTHER -> Raise
  /\ UNCHANGED <<storage, cursor>>

\* Mutant: the marker goes before the absence of the file is durable.
acknowledge_without_sync ==
  /\ At("ack")
  /\ \E k \in op.queue :
       op' = [op EXCEPT !.queue = @ \ {k}, !.key = k,
                        !.step = IF file[k] = "absent" THEN "rmdir" ELSE "ack"]
  /\ UNCHANGED <<storage, memory, budget>>

\* acknowledge_absent_inventory_withdrawals: the next key of the page.
Acknowledge ==
  /\ At("ack")
  /\ \E k \in op.queue :
       /\ \A j \in op.queue : k <= j
       /\ op' = [op EXCEPT !.queue = @ \ {k}, !.key = k,
                           !.step = IF file[k] = "absent"
                                    THEN "sync_shard" ELSE "ack"]
  /\ UNCHANGED <<storage, memory, budget>>

\* The report leaves; a starting worker sets its withdraw hook.
Send ==
  /\ At("ack")
  /\ op.queue = {}
  /\ cursor' = op.next
  /\ worker' = "up"
  /\ op' = NoOp
  /\ UNCHANGED <<storage, offers, held, pins, budget>>

--------------------------------------------------------------------------
(* The environment.                                                        *)

Damage(k) ==
  /\ file[k] = "good"
  /\ budget.damages < MaxDamages
  /\ budget' = [budget EXCEPT !.damages = @ + 1]
  /\ Relabel(k, "good", "damaged")
  /\ UNCHANGED <<marker, receipts, memory, op>>

\* A process dies; the names stay as the system has them.
Crash ==
  /\ worker # "down"
  /\ budget.crashes < MaxCrashes
  /\ budget' = [budget EXCEPT !.crashes = @ + 1]
  /\ Exit
  /\ op' = IF op.by = "worker" THEN NoOp ELSE op
  /\ UNCHANGED <<storage, cursor>>

MaintenanceCrash ==
  /\ op.by # "worker"
  /\ budget.crashes < MaxCrashes
  /\ budget' = [budget EXCEPT !.crashes = @ + 1]
  /\ op' = NoOp
  /\ UNCHANGED <<storage, memory>>

\* Every name is what it was at some moment since it was last synced.
PowerLoss ==
  /\ budget.losses < MaxPowerLosses
  /\ budget' = [budget EXCEPT !.losses = @ + 1]
  /\ file' \in {f \in [Chunks -> FileState] : \A k \in Chunks : f[k] \in disk[k]}
  /\ marker' \in {f \in [Chunks -> MarkerState] : \A k \in Chunks : f[k] \in receipts[k]}
  /\ disk' = [k \in Chunks |-> {file'[k]}]
  /\ receipts' = [k \in Chunks |-> {marker'[k]}]
  /\ Exit
  /\ op' = NoOp
  /\ UNCHANGED cursor

--------------------------------------------------------------------------
Lock ==
  \/ \E k \in Chunks : Confirm(k)
  \/ \E k \in Chunks : Reject(k)
  \/ \E k \in Chunks : Publish(k)
  \/ \E k \in Chunks : Evict(k, "worker")
  \/ \E k \in Chunks : Evict(k, "startup")
  \/ \E S \in SUBSET Chunks : OpenView(S)
  \/ CloseView
  \/ \E k \in Chunks : StreamFails(k)
  \/ \E k \in Chunks : Scrub(k, "worker")
  \/ \E k \in Chunks : Scrub(k, "maintenance")
  \/ Rescan
  \/ Report
  \/ StartScan
  \/ StartReport

Step ==
  \/ MarkDirectory
  \/ SyncMark
  \/ Remove
  \/ Link
  \/ SyncShard
  \/ Retire
  \/ ClearDirectory
  \/ SyncClear
  \/ Acknowledge
  \/ Send

Fault ==
  \/ \E k \in Chunks : ReadFails(k, "worker")
  \/ \E k \in Chunks : ReadFails(k, "maintenance")
  \/ MarkFails
  \/ NameFails
  \/ SyncShardFails
  \/ RetireFails
  \/ ClearFails
  \/ \E k \in Chunks : Damage(k)
  \/ Crash
  \/ MaintenanceCrash
  \/ PowerLoss

Next == Lock \/ Step \/ Fault

Spec == Init /\ [][Next]_vars

\* vLLM asks a running worker for a report in every step, restores end, and an
\* operation that holds the lock goes on.  The lock is free between operations
\* (the scrub thread pauses), so that the report gets it.
Fairness ==
  /\ WF_vars(Step)
  /\ WF_vars(CloseView)
  /\ SF_vars(StartScan)
  /\ SF_vars(StartReport)
  /\ SF_vars(Rescan)
  /\ SF_vars(Report)

FairSpec == Spec /\ Fairness

--------------------------------------------------------------------------
\* Every variable keeps its type, and what a name leads to now is among what
\* it may lead to after a power loss.
TypeOK ==
  /\ file \in [Chunks -> FileState]
  /\ disk \in [Chunks -> SUBSET FileState]
  /\ marker \in [Chunks -> MarkerState]
  /\ receipts \in [Chunks -> SUBSET MarkerState]
  /\ \A k \in Chunks : file[k] \in disk[k] /\ marker[k] \in receipts[k]
  /\ worker \in {"down", "starting", "up", "scanning"}
  /\ offers \subseteq Chunks
  /\ held \subseteq Chunks
  /\ pins \subseteq Chunks
  /\ cursor \in Chunks \cup {0}
  /\ op \in Op
  /\ budget \in [damages : Nat, errors : Nat, crashes : Nat, losses : Nat]

\* Every chunk in a report has a live file that is not withdrawn, although
\* files are removed by other threads and processes and a startup scan is
\* stale when it is used.
ReportedExists ==
  op.kind = "report" => \A k \in held : file[k] # "absent" /\ marker[k] = "clear"

\* ReportedExists for a worker alone, and beside a maintenance process as long
\* as no system call has failed.
ReportedUnlessFailed == (Maintenance => budget.errors = 0) => ReportedExists

\* A chunk that was found damaged, and durably marked, cannot come back
\* without its marker: until every name that leads to it is durably gone, the
\* marker stays and is durable.
Fenced ==
  \A k \in Chunks : "condemned" \in disk[k] => receipts[k] = {"set"}

\* Of all the operations, whatever fails in between, only the release of a
\* marker by a scrub that authenticated the present file can take the fence
\* away: publication, quarantine, eviction and acknowledgement sync the names
\* of the shard before they clear the marker.
OnlyReleaseUnfences == [][Fenced => (Fenced' \/ op.kind = "release")]_vars

\* A chunk once found damaged is never again in the store without its marker
\* ("a complete re-hash ... is sufficient to release its provenance-free
\* tombstone", TokenFileScrubber.step).
StaysWithdrawn == \A k \in Chunks : file[k] = "condemned" => marker[k] = "set"

\* No operation of any process removes the file of a chunk that a restore has
\* pinned.
PinnedStays ==
  [][\A k \in pins \cap pins' : file'[k] # "absent"]_vars

\* The marker of a chunk whose file is gone is retired, however many markers
\* of live files there are before it.
MarkersRetired ==
  \A k \in Chunks :
    (marker[k] = "set" /\ file[k] = "absent")
      ~> (marker[k] = "clear" \/ file[k] # "absent")
==========================================================================
