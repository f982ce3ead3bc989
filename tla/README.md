# SpoolCache: TLA+ models, model checking and proofs

SpoolCache keeps the KV cache of vLLM prompts on local disks: every GPU rank
writes immutable, checksummed token-chunk files and reads them back when a
later prompt starts with the same tokens.  A restore needs *every* rank to have
the chunk, so the ranks report what they hold to the scheduler, which keeps a
catalog and offers only what all of them hold.  A wrong answer from the catalog
is not a slow cache but a dead worker: a restore that was admitted and then
cannot be served ends the process (`fail_stop.py`).  The project therefore
starts with that catalog, goes on to the files and withdrawal markers that the
reports speak of, to the threads that maintain them, and to the path on which
the bytes travel between files and GPU pages.

## The system's parts

| Part (source under `src/spoolcache/`) | State | Operations | Interacts with | What makes it correct |
|---|---|---|---|---|
| Inventory reporter, `quorum.py` `InventoryReporter` | held catalog, last advertised catalog, dirty flag, sequence, retained deltas, checkpoint cursor | `replace`, `add`, `remove`, `startup`, `next_report` | store (mutations), step output (reports) | every change is announced or leads to a gap; the pages of one cycle are one image |
| Quorum catalog, `quorum.py` `QuorumCatalog` | per rank: process, history, sequence, image, half-assembled checkpoint, withdrawn/conflict flags; inverse index, LRU, cached count | `apply_startup`, `apply_report`, `longest`, `quorum_count`, `has_quorum` | reports in, scheduler queries out | indexes agree, bounded, a rank in doubt is in no quorum, never an entry the worker had withdrawn |
| Connector glue, `vllm/connector.py` | worker: store, reporter, rescan epoch; scheduler: requests, plans, budgets | vLLM connector callbacks | everything | a plan names a prefix every rank has; requests do not leak budget |
| Rank store, `rank_store.py` | directory tree, withdrawal markers, quarantine, epoch files, locks | mark/clear marker, quarantine, `marker_batch`, acknowledge, epoch reservation | token files, reporter hook | a file found bad is never offered again, whatever crashes; epochs grow |
| Token files, `token_files.py`, `manifest.py` | chunk files, temporaries, pins, restore credits | commit, validate, scan, restore view, evict, capacity batch, recover | rank store, mover | publication is atomic and durable before it is announced; a pinned file stays |
| Pins and buffers, `leases.py`, `buffers.py` | OFD locks, restore credits, the store's slot | acquire, busy, release | token files, mover | no deadlock with the namespace lock |
| Scrub and maintenance, `token_scrub.py`, `maintenance.py` | persisted cursor, target, phase; rescan epochs; thread | `step`, `start_cycle`, `request`, rescan epochs, `close` | store, connector | every file is reached; a rescan is never lost; an error withdraws first |
| Request planning, `vllm/connector.py`, `prefix.py`, `admission.py`, `config.py` | tracked requests, pending loads, restore budget | connector scheduler callbacks, admission | catalog | budgets return; spans are aligned |
| Page mover, `gpu.py`, `token_mover.py` | pinned slots, CUDA stream and events | restore, commit, close | buffers, store | a slot is not reused or unmapped before its copy is done; a restore is whole or fatal; a commit announces all or nothing |
| HMA layout, `hma.py`, with `manifest.py` | none (pure) | acceptance, digests, page selection, coverage | mover, connector, `token-format.json` | every byte that a layer reads comes back to its place |
| Event journal, `event_journal.py` | totals in memory and in a file | `increment`, load, export | fail-stop, quarantine hook, metrics | no counted event is lost or counted twice |
| Topology, `topology.py` | none | rank numbering | connector | |
| Identity, compatibility, telemetry, configuration, CLI | digests, counters | | | no decision of the protocol reads them |

`PROJECT.json` lists the same parts with their status, and under `hazards` the
places where this code is hard to test.

## Modules

| Module | Stands for |
|---|---|
| `InventoryImages` | data: an inventory (entry id -> span, 0 for absent), deltas, patching |
| `InventoryReporter` | class `InventoryReporter` as operators on one record |
| `QuorumCatalog` | class `QuorumCatalog` as operators on one record, and its methods as actions |
| `CatalogEnvironment` | the catalog under arbitrary packets |
| `MCCatalog` | packets for model checking the above |
| `InventoryProtocol` | workers, transport and catalog together |
| `CatalogProofs` | what each catalog method does to each field, and the theorems about the catalog (TLAPS) |
| `ProtocolProofs` | the inductive invariant and the theorems about workers, transport and catalog together (TLAPS) |
| `TokenStore` | chunk files, withdrawal markers, pins and held catalog of one rank |
| `TokenStoreProofs` | its inductive invariants and theorems (TLAPS) |
| `GenerationEpoch` | the reservation of a worker's epoch in the rank's state directory |
| `ScrubCycle` | the deep scrub's cursor, cycles and targeted requests |
| `ScrubProofs` | its inductive invariant and theorems (TLAPS) |
| `MaintenanceThread` | scrub thread, drain of its results, capacity maintenance, shutdown |
| `MaintenanceProofs` | its inductive invariant and theorems (TLAPS) |
| `TransferService` | abstract: what the data path promises to vLLM and the scheduler |
| `TransferPath` | mover, pinned slots, CUDA stream, restore views, store's slot, lock: implements `TransferService` |
| `TransferProofs` | its inductive invariant, its theorems, the refinement (TLAPS) |
| `PageLayout` | page geometry, digests, page selection and byte ranges, as operators |
| `EventJournal` | the event journal, call by call |
| `RankState` | the life of a rank's directory: composes `GenerationEpoch`, `EventJournal` and `PageLayout` |
| `MCRank` | its configurations for model checking |
| `RankProofs` | the theorems about epochs, alone and in the life of a rank, about counted events, agreeing layouts, feasible plans and restored bytes (TLAPS) |
| `RequestPlanning` | the connector in the scheduler: restores and stores of requests, and the pages they use |
| `MCPlanning` | its requests for model checking |
| `PlanningProofs` | its inductive invariant and theorems (TLAPS) |

**Catalog.** A method of the class is an operator from the record to the set of
records it may leave; the private methods (`_withdraw_rank`, `_replace_rank`,
`_enforce_bound`, `_adopt_generation`, ...) are separate operators called in the
order of the source.  The only nondeterminism is which entries of one batch of
touches are least recent: the recency `OrderedDict` is a total preorder
("touched no later than") because the iteration order of a dict is abstracted.
A message is a record with two flags, `identified` (the generation identity
validates) and `wellformed` (no other field has a wrong type or range), because
the code treats the two kinds of malformed packet differently.  A page that
lists one key twice is not modelled; two pages that list the same key are.

**Reporter.** `next_report` is `advance(noticed(w))` with the report made of
`CurrentPage(noticed(w))` and `CurrentDelta(noticed(w))`.  The insertion order
of the held dict is abstracted (any entry may be the oldest).  The checkpoint
cycle is kept modulo `CycleModulus`: the scheduler only compares it together
with the sequence, and pages of one sequence come from the same items.

**Protocol.** Each rank runs a sequence of processes with their own reporter.
Reports of one process travel in order (vLLM hands over a worker's step outputs
in order) and may be lost or garbled; packets and startup inventories of a dead
process may arrive after its successor's, and a startup inventory any number of
times.  An epoch normally exceeds all earlier ones; `MaxRollbacks` restarts may
break that, as after the loss of the epoch file.  `seen`, `images` and `heard`
are history variables: what the worker held when it sent the last packet
applied, what it advertised at each sequence, which processes were heard.

**Token store.** Every operation of `rank_store.py` and `token_files.py` holds
the namespace lock, so the state has one operation in progress, `op`, with its
key and the system call it is about to make; a crash, an error or a power loss
may come between any two calls.  `file[k]` is what the name of chunk `k` leads
to and `disk[k]` everything it may lead to after a power loss: a change of the
name adds to the set, the fsync of the shard directory reduces it to one
element.  `marker` and `receipts` are the same for withdrawal markers.  A file
is "damaged" when only a full authentication finds out, and "condemned" once
that has happened and the marker is durable.  `by` says whose reporter hook the
operation calls: the worker's main and scrub threads have it; a maintenance
process and a worker that evicts before its startup scan do not.

| Action | Code |
|---|---|
| `Confirm`, `Reject` | `valid_chunk` in a commit, `_chain` in a lookup |
| `Publish`, `Link`, `SyncShard`, `Retire`, `ClearDirectory`, `SyncClear` | `_publish_chunk` and the announcement in `_commit_store_plans` |
| `Reject`/`Scrub`/`ReadFails`, `MarkDirectory`, `SyncMark`, `Remove`, `SyncShard`, ... | `_quarantine_bad`, `_quarantine_manifest` |
| `Evict` | `evict` in a capacity batch (`_maintain_capacity`, `_prepare_worker_catalog`) |
| `OpenView`, `StreamFails`, `CloseView` | `restore_view`, `stream_objects` |
| `Scrub` | one key of `TokenFileScrubber.step`, in the worker or in another process |
| `Report`, `StartReport`, `Acknowledge`, `Send` | `get_kv_connector_stats`, `register_kv_caches`, `acknowledge_absent_inventory_withdrawals` |
| `Rescan` | the scans that replace the reporter's catalog |
| `MarkFails`, `NameFails`, `SyncShardFails`, `RetireFails`, `ClearFails` | the error paths of the same calls |

Simplifications: a commit handles its keys under one lock, the model key by
key (the keys do not interact and the lock keeps others out, so announcing each
at its own end is the same); the parent relation of chains is dropped and a view
pins any set of keys; damage spares the header (a damaged header is not even
offered); at most one restore view is open (the main thread restores one entry
at a time); temporary files are not tracked; keys are numbers in the order of
their digests.

**Epochs.** `reserve_inventory_generation_epoch` in the same style: `state` and
`sentry` are the two files, `states` and `sentries` what they may be after a
power loss, one sync of their common directory settles both.  The clock is any
member of `Clocks` at every reading.  The initial states include roots of the
older implementation, which advertised the raw clock.  `LoseState` deletes the
state file for good.  Losing state and sentry together, or restoring an old
copy of the state, cannot be told from a new or an older root; the scheduler's
conflict rule (run `restart`) is there for them.

**Scrub cycle.** `TokenFileScrubber.step` lists keys under the namespace lock,
releases it, and takes it again for each key (`BeginStep`, `Examine`,
`EndStep`, `EndCycle`); whoever shares the persisted state, the worker's thread
(`Poll`, `StartCycle`: the loop of `maintenance.py`), another maintenance
process, or `request`, comes in between.  A step that finds the state other than
the one it last saved breaks off (`Known`).  The payload budget, the pacing and
cancellation are the choice to end a step after any key.  The time of the last
completed cycle is dropped: it changes only together with the phase.  Power
losses and `repair_invalid_state` (an unreadable state starts afresh) are not
modelled here.  `present`, `visited` and `examined` are history variables.

**Maintenance.** Three threads of one worker: the scrub thread (`ThreadNext`:
`_run` of `maintenance.py`), vLLM's thread (`BeginDrain` ... `Report`:
`get_kv_connector_stats` with `_drain_scrub_maintenance`; `CommitPlan`,
`EvictBatch`, `ReplaceEvicted`, `CapacityFails`: stores and `_maintain_capacity`;
`Shutdown`, `Joined`, `JoinTimesOut`), and the finalizer of a shutdown that timed
out.  Calls under `_metrics_lock` are single steps; the namespace lock is held
from `Scan` to `Replace`, and the thread's work on one chunk is one step under it.
`owed` and `released` are history variables.  What a failed quarantine leaves
behind is any combination that `TokenStore` shows; pacing is the choice to
end a step at any time.  A `close` of the scheduler, mover or store that raises,
after which the code gives up, is not modelled.

**Request planning.** A step of vLLM is a sequence of scheduling actions, then
`BuildMeta` (`build_connector_meta` with `_track_new_requests`,
`_track_cached_requests` and `admit_store_plans`), then `Execute`: the workers
restore, store, and run the forward pass, in the order of `start_load_kv`.
`Admit` is the pair `get_num_new_matched_tokens` (`Selected`, `Matched`) and
`update_state_after_alloc`; `AllocationFails` is the first alone, when vLLM has
too few pages and asks again in a later step.  A resumed request may find pages
of generated tokens in vLLM's own cache; more computed tokens than the prompt has
make the lookup raise, which ends the engine (`LookupRaises`, `EngineFails`), and
a new one starts over.  `content` says what each GPU
page holds, so that a property can compare what a store reads with what it
claims to be.  `layout` distinguishes models of full attention, those with a
boundary state (`window`, `recurrent`), and those whose state exists only at the
current boundary (`recurrent`, `_store_requires_exact_boundary`).

vLLM is external and modelled from what the connector is called with: it gives
out pages that no request has, finds prefixes in pages that hold them entirely
after an earlier step, never schedules a request twice in a step, does not
preempt a request it has scheduled in the step, and does not reuse a request
identifier.  Simplifications: one page holds one chunk, alignment and minimum
span are one chunk; a store reads every chunk of its span (`commit_keys` skips
those that the rank has); a restore succeeds (a failing one stops the worker); the
input order that breaks ties between store plans of equal length is a choice;
a malformed prompt, salt or multimodal identity has the effect of
`skip_read` or `skip_write`.

**Transfer path.** The threads that meet at one rank's files and buffers.
vLLM's thread drives the mover: a restore (`BeginRestore` ... `LeaveView` or
`Exit`) or a commit (`BeginCommit` ... `Announce` or `Skip`), never both, and
the shutdown.  Readers use `stream_objects` with the store's own slot; scrubbers
authenticate one file under the lock.  The GPU (`Gpu`, external) executes the
stream in order, at its own pace.  The steps are those at which another thread
or a failure can make a difference: getting a slot (`Borrow`, with the wait for
its event), opening the view (credit, lock, lookup, pins), opening each file,
submitting the copy of a block (`Place`), recording the event (`RecordUse`),
quarantining what did not authenticate (`Reject`), draining the stream, leaving
the view; for a commit, taking the lock for all keys, checking each key of a
batch through the store's slot, capturing, writing block by block, publishing,
announcing.  The `*Fails` actions are the places where a call raises; in
`_capture_packed` they come before the first and between two submissions.
If a read and then `record_use` fail (`RecordUseFails`), a small file is still
quarantined, since its batch remembers the key; of a large one the second exception
hides the first, and it is not.
A slot records what the code records (`pending`, `record_failed`) and what it
holds; `stream` the copies that the GPU has not finished.  `file[k]` may be
"wrong": authentic, but with the bytes of something else, as a slot reused too
early would produce.

`Service` maps this to `TransferService`: a job with a prefix, the pages vLLM
can see, the files and the offered keys.  While a restore is going on vLLM sees
no page; afterwards it sees what was placed, which must be the whole prefix
unless the worker died.  The abstract `Publish` demands the right bytes and
`FinishCommit` offers all keys or none that was not offered.

Simplifications: a file's blocks are numbered units, one slot holds a block or
several one-block files (the byte arithmetic is in `PageLayout`); sync and power
losses are `TokenStore`'s; damage hits the last block of a file; a scrubber
of another process would contend only for the lock, and is not distinguished.

**Page layout.** `hma.py` as operators on what vLLM reports: which groups are
accepted and with which policy (`GroupAccepted`, `reuse_policy`), the geometry,
the three digests (each is the tuple of what it hashes), the page selection of a
boundary (`Slice`: all pages, a window, the running state behind its
placeholders and before its speculative tail, one scratch page), the segments of
the data and state files (`manifest.py`), and the byte ranges of a transfer
block (`segment_byte_ranges`, `PageByte`, `ByteOf`).  A byte is the record of
what it belongs to: layer, tokens or state, size of the page, offset.

**Event journal and rank state.** `EventJournal` is the file and the memory of
the counters; `counted` and `mishaps` are history variables (increments that
returned, increments that did not).  `RankState` lets process after process come
up on one directory, with any accepted configuration for the worker and any for
its scheduler: `Boot` (`register_kv_caches` up to the journal: discovery,
`validate_layout`, the directory named after the logical digest, the binding
`token-format.json` to the exact digest), the reservation of an epoch as in
`GenerationEpoch`, the handshake, then stores, restores, fatal restores with
their counted event, quarantines, exports.  `Save` writes the bytes the pages
hold at the boundary; `Load` puts a file's bytes where the present layout says;
`Tables`, `Needed` and `RightByte` are vLLM's side: which block tables it hands
over, which pages a layer reads, what is right there.  Journal and epoch are in
one directory, so a sync by either settles both.  Files and binding are synced
before anybody relies on them (`TokenStore` has the order), so a power loss
keeps them here.  A save and a load are single steps: what may happen inside
them is `TransferPath`.  The clean-up of an interrupted increment's temporary
file is the flag `temporary`.

## Runs

| Run | Question | Bounds |
|---|---|---|
| `catalog` | do indexes, bound, cache, pending pages and takeover rule survive any packets? | 2 ranks, 3 entries, capacity 2, history of 1 process, a set of valid, malformed, stale, conflicting packets |
| `loss` | can a lost, late or garbled report leave a withdrawn entry listed, or re-admit a rank with part of an image; does the rolling checkpoint repair every gap? | 1 rank, 3 entries, batch 1 (so that an image has 3 pages and 2 removals are a gap), 2 faults, 2 changes, 2 reports in flight |
| `restart` | can a dead process' packets be mistaken for the living one's? | 2 processes, 2 epochs, 1 rollback, 1 fault, spans that differ between the processes |
| `quorum` | is a quorum always something every rank held? | 2 ranks, 2 entries, 2 spans, capacity 1 (so that ranks push each other out) |
| `store` | who can take the fence off a condemned file; does a report ever name a file that is gone or marked, with a maintenance process beside the worker; do pinned files stay; is every marker of an absent file retired? | 2 chunks, pages of 1 marker, 1 damage, 1 error, 1 crash, 1 power loss (the theorems are for any number) |
| `transfer` | is a pinned slot ever reused or unmapped under the GPU; can lock, slots and credits block each other; is a restore whole or fatal, and a commit all or nothing? | prefix of 2 chunks and a boundary state of 2 blocks, 2 pinned slots of 2 files, 1 reader, 1 scrubber, 1 fault, deaths and restarts unbounded |
| `rank` | do epochs grow and never lock the rank out; is an event lost or counted twice; do the bytes come back to their places; can the scheduler make a plan that its worker must refuse? | 7 configurations (two page sizes, windows, a packed group, a packed group of two windows that discovery refuses, recurrent states with and without a tail, a stage without states), boundaries 4 and 8, steps 1 and 5 tokens ahead, slots of 4 bytes, base 3 (epochs run out), 2 events with totals to 2, 1 interrupted increment each |
| `maintenance` | what can go wrong between scrub thread, drain, capacity maintenance and shutdown? | 2 chunks, 4 results or failures |
| `scrub` | can a cycle end with a lasting file unexamined; can a request be lost or get another key's answer; does every cycle end? | 2 scrubbers, 2 keys, 2 keys a step (a step may end after any key), 2 cycles, 1 request, 1 change of the store, 1 failure |
| `planning` | does a store read what it names, a restore fill what vLLM takes for computed; are restores admitted from whole chains; do budgets come back? | 2 requests of 4 and 5 tokens with a common prefix, one of them with each opt-out, chunks of 2, 3 pages (so that pages change hands), budgets of 1, 2 generated tokens (the step that starts at the boundary of an aligned prompt; a page of generated tokens that a resumed request finds again, for which the lookup raises), 1 preemption; full and recurrent layouts |
| `store_release` (violated) | does a condemned file stay marked? | 1 damage, 1 error, 1 crash, 1 power loss |
| `store_unmarked` (violated) | the second question of `store` after an error | 1 damage, 1 error |

The bounds make the interesting cases happen: a batch smaller than the
inventory gives several pages and deliberate gaps; a capacity below the number
of entries gives evictions; a history of one process gives forgotten processes;
two retained deltas give replays; two chunks with pages of one marker make a
marker wait behind another; a state of two blocks needs slots of its own while
the two data files share one; slots of 4 bytes cut segments and pages of 3, 2 and
1 bytes at every kind of place; the boundary 8 has two chunks of files, and a step
5 tokens ahead puts placeholders between boundary and running state.  A second
reader takes `transfer` beyond five minutes, so that the two restore credits
never run out there; the mutant that forgets one shows that they are watched.  Every property has a mutant, an operator
beside the original that changes it as a plausible slip would (an index not
cleaned, a gap ignored, pages of two checkpoints mixed, an epoch compared
loosely), under which TLC finds the property violated.

Fairness (run `loss`): weak fairness of sending a report and of delivering the next one (written with
their guards in place of `ENABLED`, which TLC evaluates much faster).
vLLM calls `get_kv_connector_stats` in every step of a running worker and passes
every step output to `update_connector_output`; nothing else is assumed, and
loss is bounded only because a bound is needed for "once faults are over".

Run `store`: `WF` on the steps of an operation that holds the lock and
on closing a restore view, `SF` on starting a worker, its rescans and its
reports.  The namespace lock is released between operations (the scrub thread
pauses between steps, a maintenance process after each key), so the main
thread, which asks for it in every vLLM step, gets it; strong fairness says
just that.

Run `scrub`: `WF` on each scrub thread, which loops until shutdown, and on
the end of a restore.  The bounds on requests and changes stand for "they do
not come for ever": a request before every step would keep the cursor where it
is, by design.  Deadlock is not checked in that run, since a scrubber that
has done its cycles has nothing to do.

Run `maintenance`: `WF` on vLLM's thread (a stats call in every step; the
join of a shutdown ends by its timeout), on the scrub thread and on the
finalizer, which run as long as the process.  `MaxEvents` bounds failures: a
thread that fails before every scan keeps the worker withdrawn, by design.
Deadlock is not checked, since a worker that is shut down has stopped.

Run `transfer`: `WF` on the GPU and on the closing of the pool, `SF` on each
thread.  A thread waits for the lock, for the store's slot or for a pinned slot;
all are handed on when they are returned (a `flock` and two queues), so a
thread that waits for one that is free again and again gets it.  Nobody has to
begin a transfer, and neither faults nor deaths are fair.

`EventuallyInSync` excludes a rank in conflict.  The delayed packet of an older
process that the scheduler never adopted has a lower epoch and is not in the
history, so the rank is withdrawn until a strictly greater epoch arrives: safe,
at the price of availability.

### Where code and documentation disagree

- `store_release`.  The scrub clears a marker as soon as it has authenticated
  the file under the key ("A complete re-hash ... is sufficient",
  `token_scrub.py:167`).  That says that the *present* file is good, not that
  its name is durable.  If a quarantine renamed a bad file but could not sync
  the shard, and a later commit died between `os.link` and the sync, the bad
  file may come back after a power loss, now without a marker.  Every other
  path that clears a marker syncs the shard first, as
  `acknowledge_absent_inventory_withdrawals` explains and the development notes
  demand ("Never make marker deletion more durable than the namespace mutation
  it certifies").  `OnlyReleaseUnfences` proves that this is the only gap.  The
  payload checksum still protects a restore that meets the file.
- `store_unmarked`.  "Corrupt entries receive a durable withdrawal marker before
  quarantine is attempted" (`docs/SPOOLCACHE_DESIGN.md:224`), but
  `_quarantine_manifest` goes on when the marker could not be written.  In the
  worker the reporter hook makes up for it; a maintenance process has no other
  channel, and the worker goes on reporting the chunk until its next rescan.

Two more disagreements have no run of their own.

`_drain_scrub_maintenance` says "Emit an empty image for at least one stats
transport before rebuilding after an unexpected maintenance failure"
(`vllm/connector.py:1474`).  It reads the pending epoch in one call and asks
`inventory_rescan_requires_withdrawal` in another.  If a failure has forced epoch
1 and a second one forces epoch 2 between the calls, the answer for epoch 1 is no,
the catalog is rebuilt and reported, and only the next drain withdraws.  So the
empty report of the first failure comes, but after a rebuilt one:
`FailuresWithdraw` says that as long as any failure has had no empty report the
withdrawal is pending, and the stronger `\A e \in owed : acknowledged < e` is
violated after seven steps (`StepFails`, `CapacityFails`, `BeginDrain`, `Recover`,
`Decide`, `Scan`, `Replace`).

`get_num_new_matched_tokens` compares the computed tokens with those of the prompt
and raises "vLLM reported an invalid computed-token count" if there are more
(`vllm/connector.py:826`).  The count is not invalid for a preempted request that
is resumed: its tokens include the generated ones, and vLLM's cache may still hold
full pages of them.  A request that had decoded past a page boundary can thus end
the engine when it comes back; the properties of `planning` hold before and after.

## Proofs

`CatalogProofs` proves, for any set of ranks and entries, any bounds and any
packets, that the catalog keeps its types, that its indexes agree, that it is
bounded, that the cached count is right, that a quorum needs every rank to be
ready, that only a greater epoch takes a rank over, and that a checkpoint under
assembly stays within what it announced (`PendingAlwaysBounded`).

The inductive invariant is `CatalogInv`: `Sound(catalog)`, `Bounded(catalog)` and
`Fits` of every rank's pages.  None of the properties is inductive alone:
`_withdraw_rank` cleans the inverse index only for the keys of the rank's own
image, so the index stays right only if it was the exact inverse before; the
recency index stays right only if its keys were exactly the listed entries
(otherwise `_enforce_bound` would find nothing to pop); the bound is broken inside
`_replace_rank` and restored by `_enforce_bound`, hence `Bounded` is apart from
`Sound`; a quorum is impossible for a withdrawn rank only because a withdrawn
rank's image is empty; and the counter that `apply_report` adjusts page by page is
within its bound only because it equals the number of listings in the pages
(`Fits`).  The lemmas follow the methods: one per private method says field by
field what it leaves, `DeltaResults`, `CheckpointResults`, `StartupResults` and
`ReportResults` combine them, and the theorems need only those.

Assumptions: the entries and ranks are finite, entry ids are numbers, spans and
bounds are positive, packets have their Python field types (`EnvironmentAssumption`).

`ProtocolProofs` puts workers, transport and catalog together.  For any ranks,
entries, batch sizes and history limits, and for any number of processes,
mutations, rollbacks and lost, garbled, late or repeated packets, it proves
`AlwaysFresh` (`Fresh`), `QuorumAlwaysHeld` (`QuorumIsHeld`), `NoGhostEver`
(`NoGhostProcess`), `DirtyAlwaysComplete` (`DirtyIsComplete`), `ProtocolTypes`
and, of every step, `ReadmittedAlwaysWhole` (`ReadmittedWhole`).

`Fresh` compares the catalog with what the last packet's sender *held*, and a
delta changes the catalog by what the sender *advertised* at two consecutive
sequence numbers; so the invariant `PInv` follows what every process advertised,
in the history variable `images`.  The catalog's image of a rank, and the pages
it is assembling, are part of what the followed process advertised at the sequence
number the catalog has (`Following`, `Tracks`), and the catalog is not ahead of
that process nor of any of its packets under way (`Upto`): without that a delayed
packet could carry less than the catalog already lists.  A retained delta leads
from one advertised image to the next or to less (`DeltaRight`); for the number
skipped on purpose, that image is empty and the delta says nothing.  A packet
under way has a page and a delta of what was advertised, which is no more than
what was held (`PacketOK`), and packets of one process are in order (`WireOK`).  A
reporter's checkpoint is of what it announced last, and only a dirty reporter
holds anything else (`ReporterOK`).  `HeardOK` orders the processes heard of below
the followed one, strictly unless the rank is in conflict.

The proof goes by sides.  A packet that reaches the scheduler is of an older
process, cannot be ordered, or is followed (`ReportFollows`, `DispositionOf`, from
the catalog's lemmas), and each way keeps the scheduler's part (`SchedulerFollows`,
`SchedulerHears`).  A step of a worker only adds to the record (`Grows`), so that
what the scheduler has and what is under way stay right (`SchedulerAlone`,
`PacketStays`).  Assumptions: those of the catalog, `ReporterAssumption` (a batch
fits in a report) and `ProtocolAssumption`.

`TokenStoreProofs` proves, for any set of chunks and any number of damages,
errors, crashes and power losses:

- `TypeCorrect`, from `IInv` (its `TypeOK` is proved and not model-checked, as
  those of the scrub and the maintenance thread);
- `OnlyReleaseEverUnfences`: apart from the scrub's release, no step lets a
  condemned file become reachable without a durable marker;
- `PinnedAlwaysStay`: no step of any process removes a pinned file;
- `ReportsExist` (`ReportedUnlessFailed`): a report names only live files without
  a marker; beside a maintenance process, as long as no system call has failed,
  which run `store_unmarked` shows to be needed.

`IInv` adds to the types what the operation in progress knows at each step: the
file of its key (`OpFile`), its marker (`OpMarker`), that no name leads to a
condemned file between the sync of the shard and the removal of the marker
(`OpSynced`), and that a quarantine or eviction is never of a pinned key
(`PinsSafe`).  `ReportsExist` needs more, `HInv`: whatever is held or was scanned
at startup has its file *or* a marker (`HeldFenced`), which makes up for the
stale scan; an operation has withdrawn its key, from the reporter or by a
marker, before it removes the file (`OpWithdrawn`); a report holds nothing marked
and none of the keys it acknowledges (`ReportClean`); and which process can run
which operation in which phase of the worker (`MemoryPhases`).  The proofs go
action by action.  Assumption: `StoreAssumption` (chunks are finitely many
positive numbers, bounds are natural).

`RankProofs` first proves of the reservation alone, for any base and any clock,
that a reserved epoch is above every earlier one (`AlwaysNewer`), fits its 63 bits
(`TypeCorrect`), and that no
interrupted reservation leaves a sentry without a state (`NeverLocksItselfOut`).
The invariant says what is durable when: an advertised epoch has a durable
sentry and no state below it can come back (`Recorded`), each step of a
reservation relies on the sync before it (`Reserving`), and the state is durable
before the sentry exists (`SentryLast`).  Assumption: `EpochAssumption`.

It then shows that every step of `RankState` is a step of the reservation or
leaves it alone (`StepsOfTheEpoch`), hence that the life of a rank implements
`GenerationEpoch` (`RankReserves`: the identity is the refinement mapping) and
inherits its two theorems (`RankAlwaysNewer`, `RankNeverLocksItselfOut`), for any
configurations, events and bounds.  The step that needed care is the sync of the
journal, which settles the names of the epoch's files as well: it is an action of
`GenerationEpoch` too (`SyncByJournal`).

It also proves `EventsAlwaysKept` (`EventsKept`): an event whose count returned
is never lost, and none is invented, through failed writes, crashes and power
losses.  `JInv` has to say more than that the file is plausible: a power loss may
bring any of the possible files back, so all of them must be (`FileKept`); the
totals in memory, less the increment in progress, lie between the returned counts
and those plus the mishaps (`MemoryKept`), which is what makes a later write
plausible; and a sync makes exactly those totals durable (`Renamed`).

Of the layouts it proves, for any number of groups and layers with any page sizes,
windows, tails and chunk, and for any processes that come up on the directory:

- `PagesAlwaysAgree`: once the handshake has let a worker in, it selects the pages of
  every plan of its scheduler, and the same ones, because either digest that the
  handshake compares fixes the width, policy, window and tail of every group
  (`HandshakeFixesPages`);
- `LengthsAlwaysAgree`: a worker finds files of exactly the positions that its own
  layout gives them, whichever process wrote them;
- `PlansAlwaysFeasible` (`PlansFeasible`): moreover the worker's files cover those
  pages without a gap (`CoversAlways`: `validate_manifest_coverage` never raises for a
  plan), and no file is longer than its header can list.  `validate_layout` measures
  one data file and the state file of one boundary; `LengthCompare` and
  `ReachSuffices` show that the files of every other boundary are no longer;
- `RestoredAlwaysRight` (`RestoredRight`): after every restore each byte that a layer
  reads is the right one, in the right page at the right offset, and none is put
  twice.

The invariant says that the worker's layout is the one the directory is bound to
(`Bound`), that every file has the positions of that layout (`FilesFit`), and, for the
last theorem (`RestoreInv`), that every byte of every file is the byte that its *name*
stands for (`FilesRight`).  `RestoredRight` is not inductive without that: a restore
reads files that other processes wrote, for other requests with other tables and at
other boundaries, and what a file contains must not depend on any of these.  The
argument has three parts.  Of a file: a position is inside exactly one slice
(`SumsLocate`, `InsideOne`), its byte is at the same distance from the start of that
slice whichever transfer block it travels in (`ByteIs`), and every byte of every
selected page has a position (`PlacesIn`, `PlacesAll`).  Of a selection: where in the
block table the n-th selected page is (`SlicePages`), and that what vLLM keeps there
is what the name of the file says, both for the request that is saved and for the one
that is restored (`Matches`).  Of a layer: each page that it reads is selected
(`Stored`, one case per policy), so its bytes are put (`LoadedAll`), rightly
(`PutRight`), and each once (`LoadedOnce`).

Lengths of files, the chunk and the segments are a sum, a product and a concatenation
over the layers of a configuration, so these proofs need induction.  The library's
induction theorem takes a predicate as a parameter, which the provers cannot
instantiate; but the least element of a set of numbers exists (`WFMin` of
`WellFoundedInduction`), and from it follows induction over a *set* (`LeastNumber`,
`Induction`).  With that `SumsDef`, `ProductsDef` and `FlattenSteps` show what the
recursive functions `Sums`, `Products` and `FlattenSeq` are at every index, and
`SumsGrow`, `SumsCompare`, `FlattenElements`, `FlattenAlike` and `ProductsDivisible`
what follows for the files.

Assumptions: `LayoutAssumption` (chunk, slot, header and decode-context degree are
positive) and `RankAssumption`: a configuration is a finite sequence of groups with
finite sequences of layers, blocks and pages have a positive size, windows and tails
are natural numbers, which is what `_positive_int` and `_nonnegative_int` enforce.
That the layers of a group have one policy, one tail and, if sliding, a window of more
than one token is not assumed: it follows from acceptance (`OnePolicy`, `LayoutIs`).

`ScrubProofs` proves for any keys, any number of scrubbers and any budget that a
cycle ends only when every file that lasted was examined (`CyclesVisitAll`) and
that a request is given up only for the answer found at its own key
(`RequestsAlwaysAnswered`).  The invariant: the cursor has passed over nothing
unexamined (`Passed`), and a step whose state is of the present cycle lists every
lasting file between its cursor and its last key (`KnowsGap`); a step of an
earlier cycle knows nothing, but its state has another cycle number, so `Known`
stops it.  Assumption: `ScrubAssumption` (finitely many keys, a positive budget).

`MaintenanceProofs` proves for any chunks and any number of failures
`TypeCorrect`, `FailuresAlwaysWithdraw`, `SnapshotsNeverStale`,
`ReleasedAlwaysReturn` and `StoreOpenWhileScrubbed`.  What has to be added to the
properties: the lock is held exactly from scan to acknowledgement and the scan
equals what the files are (`ScanIsCurrent`); the last failure is owed if any is;
a failure up to the withdrawn epoch is owed only until the report that follows, with an empty catalog, and a scan in
progress is for an epoch before what is owed (`WithdrawalsKnown`); released chunks
have their file (`ReleasedOffered`).  Assumption: `MaintenanceAssumption`.

`TransferProofs` proves, for any number of chunks, blocks in a file, slots, files
in a slot, readers, scrubbers, and for any faults:

- `InFlightAlwaysGuarded` (`InFlightGuarded`): no slot is handed out, unmapped or
  reused while a copy of the GPU may still touch it;
- `FilesNeverWrong`: no commit ever publishes a file that holds something else
  than the text of its key;
- `ServiceImplemented` (`ImplementsService`): the data path implements
  `TransferService`.  A restore succeeds in the abstract service at the step that
  leaves its view, a commit at its announcement; a start, a publication, damage, a
  withdrawal and the end of the process are steps of the service of the same kind,
  and all other steps stutter.  `ServiceStep` goes through the actions,
  `RestoredWhole` and `CommittedWhole` give the two steps that promise something.

The invariant has three layers.  `Base`: types, where each thread may be
(`MoverOK`, `ReadersOK`), who has the lock (`Locks`), where the mover has a slot
(`MoverHolds`).  `PInv`: `InFlightGuarded` alone is not inductive, because the
mover believes a slot is free when its *event* has completed; so every copy must
be followed in the stream by the event of its slot, or the slot is marked, or the
mover is still submitting (`Covered`), the slot that the mover holds has nothing
in flight once it has waited (`HeldSlot`), and after the end of a process nothing
moves (`Quiet`).  `DInv` follows the data: copies to the GPU are of the present
restore and their slots still hold what was read (`OnlyRestores`), a slot is never
both read and written by the GPU (`Unmixed`), the next file of a batch has a place
of its own (`BatchPlaces`), all that a good restore has read is placed or on its
way (`Arriving`), what a commit has passed over is on the disk or noted as missing
(`Gathered`), and the lanes of a slot get the very units that will be written
(`Captures`, with `Ranks` and `Offsets`: the lane of a missing file is its rank
among them).  The layers are preserved one after the other, each action by action.
Assumption: `TransferAssumption`.

`PlanningProofs` proves, for any requests with any prompts and texts, any pages,
chunk, budgets and inventories, and any order in which vLLM admits, chunks,
preempts, resumes and finishes, ends of the engine included:

- `StoresAlwaysRight` (`StoresRight`): what a store reads is the prefix it names;
- `StoresAlwaysAtBoundary` (`StoresAtBoundary`), `ComputedAlwaysRight`
  (`ComputedRight`), `LoadsAlwaysAdmitted` (`LoadsAdmitted`),
  `BudgetAlwaysReturns` (`BudgetReturns`) and `TypeCorrect`.

None of these is inductive.  `ComputedRight` speaks of the end of a step only: in
between, vLLM counts tokens as computed that are still to be restored.  So the
invariant says of every page of every table (`PageOK`) that a full page is the
page of its request's text there, that a page counted as computed is full or
*due*, that is, a pending or handed-over restore of the same step writes it
(`Due`), and that the page which the computation has come to holds exactly what
came before.  Pages are shared, so a write for one request could spoil another:
only full pages are shared (`SharedFull`), and neither restore nor computation
writes a full page with anything else.  Plans carry tables that the connector has
collected over several steps; `LoadsKnown`, `StoresKnown` and `ProgressKnown` say
that they are vLLM's tables of this moment, across the appended pages of a chunk
and the replaced table of a resumption, and `Tables` that these have exactly the
pages that the tokens need, each once.  `Budget` counts reservations and pending
loads together.  The arithmetic of chunks and pages is in a few lemmas
(`Multiples`, `Positions`, `Boundary`) and otherwise hidden behind two predicates,
`Whole` and `Begun`.  Assumption: `PlanningAssumption` (finitely many requests and
pages, a positive chunk, prompts of at least one token, and so on).

Only model-checked: liveness (`EventuallyInSync`, `MarkersRetired`, `CycleEnds`,
`RescansHappen`, `ShutdownEnds`, `EveryTransferEnds`).  It rests on fairness, that is
on `ENABLED`, which is out of the prover's reach.  Every invariant and every action
property that a passing run checks is also a theorem.

## Not modelled

- `telemetry.py`, `vllm/prometheus.py`, logging: no decision reads them.  A scrub
  shutdown that fails is counted in the journal like any other event.
- `identity.py`, `vllm/compat.py`, `config.py`, `vllm/config_json.py`, `paths.py`:
  digests of configuration and probes at start; they refuse or let through, once.
  `topology.py`: a formula for the rank, read once.
- The binding of tensors to groups in `gpu.py` (strides and views of PyTorch), the
  copies of CUDA themselves, the alignment of buffers.
- `SpoolCacheStats.aggregate`, which joins the reports of different ranks into one
  step output: `InventoryProtocol` delivers them one by one, in any order, which
  allows every order the code can have and more.  Reordering of reports of one
  process.
- The creation and validation of the directory tree, the owner lease, temporary
  files of publications, the recency order of eviction, the repair of an
  unreadable scrub state.

## Plan

All components with state are modelled, and every safety property that a passing run
checks is proved for every value of the constants.  What would come next:

1. Shorter proofs where a step is cited in several places.
2. The clean-up of a partly failed registration beyond the reservation
   (`register_kv_caches`), as actions of `RankState`.
