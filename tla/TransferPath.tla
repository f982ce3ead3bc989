--------------------------- MODULE TransferPath ---------------------------
(***************************************************************************)
(* How chunks travel between files and GPU pages: the page mover (gpu.py,  *)
(* token_mover.py) with its pinned staging slots and CUDA stream, the file *)
(* store's restore views, key pins, namespace lock and single CPU slot     *)
(* (token_files.py, leases.py, buffers.py), and the threads that compete   *)
(* for them.                                                               *)
(*                                                                         *)
(* vLLM's thread drives the mover: it restores a prefix (restore_entry) or *)
(* stores one (_commit_store_plans), one at a time.  Readers stream a      *)
(* prefix through the store's own slot (stream_objects without a           *)
(* buffer_pool).  Scrubbers authenticate one file under the lock.  The GPU *)
(* executes the stream in order, at its own pace.                          *)
(*                                                                         *)
(* A prefix of n chunks is the data keys 1 .. n and, for layouts with a    *)
(* boundary state, the state key Chunks + n.  A file has one or more       *)
(* transfer blocks; files of one block share a slot.  The unit <<k, b>> is *)
(* the block b of key k, as bytes in a file, in a slot or in GPU pages.    *)
(***************************************************************************)
EXTENDS Naturals, Sequences, FiniteSets, FiniteSetsExt

CONSTANTS
  Chunks,          \* chunks of the longest prefix
  Prefixes,        \* bound: the lengths of the prefixes that are moved
  DataBlocks,      \* transfer blocks of a data file
  StateBlocks,     \* transfer blocks of a state file, 0 without boundary state
  SlotCount,       \* slots of the pinned pool
  SlotFiles,       \* files of one block that fit into a slot
  Mover,           \* vLLM's thread
  Readers,         \* threads that read through the store's own slot
  Scrubbers,       \* threads that authenticate files
  NoThread,
  RestoreCredits,  \* of the store's semaphore, 2 in the code
  MaxFaults        \* bound: how often a call fails or a file rots

ASSUME TransferAssumption ==
  /\ Chunks \in Nat \ {0} /\ Prefixes \subseteq 1 .. Chunks
  /\ DataBlocks \in Nat \ {0} /\ StateBlocks \in Nat
  /\ SlotCount \in Nat \ {0} /\ SlotFiles \in Nat \ {0}
  /\ RestoreCredits \in Nat \ {0}
  /\ MaxFaults \in Nat
  /\ Mover \notin Readers \cup Scrubbers /\ Readers \cap Scrubbers = {}
  /\ NoThread \notin Readers \cup Scrubbers \cup {Mover}
  /\ IsFiniteSet(Readers)

Blocks(k) == IF k <= Chunks THEN DataBlocks ELSE StateBlocks

\* What a slot holds that nobody has filled, or a file that has rotted.
Junk == <<0, 0>>

\* The files of a prefix in the order of their transfer.
Objects(n) ==
  [i \in 1 .. n |-> i] \o (IF StateBlocks = 0 THEN <<>> ELSE <<Chunks + n>>)

KeysOf(n) == {Objects(n)[i] : i \in 1 .. Len(Objects(n))}

Keys == UNION {KeysOf(n) : n \in Prefixes}

Units == {u \in Keys \X (1 .. DataBlocks + StateBlocks) : u[2] <= Blocks(u[1])}

UnitsOf(n) == {u \in Units : u[1] \in KeysOf(n)}

VARIABLES
  file,       \* "none", "right", "wrong" (authentic, but of other bytes) or
              \* "rotten" (the last block no longer matches its checksum)
  withdrawn,  \* keys with a withdrawal marker
  offered,    \* keys the reporter holds
  lock,       \* owner of the namespace lock
  cpu,        \* borrower of the store's slot
  mover,      \* vLLM's thread
  reader,     \* the readers
  scrubbed,   \* the key that a scrubber holds the lock for, 0 if none
  available,  \* the queue of the pinned pool
  slot,       \* the pinned slots
  mapped,     \* slots whose memory is still registered
  stream,     \* the CUDA stream
  placed,     \* units whose GPU pages hold their bytes
  worker,     \* "running"; "closing", "closed" or, if that failed, "raised"; "dead"
  faults

vars == <<file, withdrawn, offered, lock, cpu, mover, reader, scrubbed,
          available, slot, mapped, stream, placed, worker, faults>>

disk == <<file, withdrawn, offered>>
pool == <<available, slot, mapped, stream>>
others == <<reader, scrubbed, cpu>>

---------------------------------------------------------------------------
(* The threads at rest.                                                    *)

IdleMover ==
  [task |-> "none", at |-> "idle", n |-> 0, cursor |-> 1, next |-> 1,
   block |-> 1, slot |-> 0, missing |-> {}, pins |-> {}, failed |-> 0,
   right |-> TRUE, good |-> TRUE]

IdleReader == [at |-> "idle", n |-> 0, next |-> 1, pins |-> {}, failed |-> 0]

EmptySlot ==
  [pending |-> FALSE, record_failed |-> FALSE,
   data |-> [i \in 1 .. SlotFiles |-> Junk]]

Init ==
  /\ file \in [Keys -> {"none", "right"}]
  /\ withdrawn = {}
  /\ offered = {}
  /\ lock = NoThread
  /\ cpu = NoThread
  /\ mover = IdleMover
  /\ reader = [r \in Readers |-> IdleReader]
  /\ scrubbed = [s \in Scrubbers |-> 0]
  /\ available = [i \in 1 .. SlotCount |-> i]
  /\ slot = [i \in 1 .. SlotCount |-> EmptySlot]
  /\ mapped = 1 .. SlotCount
  /\ stream = <<>>
  /\ placed = {}
  /\ worker = "dead"
  /\ faults = 0

Running == worker = "running"

\* Threads other than vLLM's go on until the process ends.
Alive == worker \in {"running", "closing", "raised"}

At(step) == Running /\ mover.at = step

Goto(step) == mover' = [mover EXCEPT !.at = step]

Key == Objects(mover.n)[mover.next]

\* _open_chunk succeeds.
Readable(k) == file[k] # "none" /\ k \notin withdrawn

\* It finds neither a marker nor a file.
Missing(k) == file[k] = "none" /\ k \notin withdrawn

\* KeyPins.busy
Pinned(k) == k \in mover.pins \/ \E r \in Readers : k \in reader[r].pins

\* _quarantine_bad: a pinned file stays, with a marker; another one is moved
\* away, and the worker, whose reporter has been told, needs no marker.  The
\* marker of a file that is not there stays.
Condemn(k) ==
  /\ offered' = offered \ {k}
  /\ withdrawn' = IF Pinned(k) \/ file[k] = "none" THEN withdrawn \cup {k}
                                                  ELSE withdrawn \ {k}
  /\ file' = IF Pinned(k) THEN file ELSE [file EXCEPT ![k] = "none"]

\* _chain follows the parents from the last chunk, then opens the state: the
\* first file in its way that cannot be opened.
Obstacle(n) ==
  LET order == [i \in 1 .. n |-> n + 1 - i] \o
               (IF StateBlocks = 0 THEN <<>> ELSE <<Chunks + n>>)
      broken == {i \in 1 .. Len(order) : ~Readable(order[i])}
  IN IF broken = {} THEN 0
     ELSE order[Min(broken)]

\* lookup under the namespace lock; a file that is there and cannot be opened
\* is condemned.
LookupEffect(n) ==
  IF Obstacle(n) = 0 \/ Missing(Obstacle(n)) THEN UNCHANGED disk
  ELSE Condemn(Obstacle(n))

CreditsUsed ==
  Cardinality({r \in Readers : reader[r].at # "idle"})
  + (IF mover.task = "restore" THEN 1 ELSE 0)

Least(i, j) == IF i < j THEN i ELSE j

\* A call that the code expects may fail does so.
Fails == faults < MaxFaults /\ faults' = faults + 1

---------------------------------------------------------------------------
(* The pinned pool and the CUDA stream.                                    *)

\* The event that record_use put after the copies of slot s has completed.
Completed(s) ==
  \A i \in 1 .. Len(stream) : stream[i].kind = "event" => stream[i].slot # s

Copy(kind, s, offset, unit) ==
  [kind |-> kind, slot |-> s, offset |-> offset, unit |-> unit]

\* The mover m gives its slot back.
Released(m) == [m EXCEPT !.slot = 0]

\* PinnedTensorPool.acquire: the blocking get, then wait_until_reusable.  What
\* the slot still holds means nothing to its borrower.
Borrow ==
  /\ At("get")
  /\ available # <<>>
  /\ ~slot[Head(available)].record_failed
  /\ slot[Head(available)].pending => Completed(Head(available))
  /\ available' = Tail(available)
  /\ slot' = [slot EXCEPT ![Head(available)] = EmptySlot]
  /\ mover' = [mover EXCEPT !.slot = Head(available),
                 !.at = IF mover.task = "restore" THEN "place" ELSE "copy"]
  /\ UNCHANGED <<disk, lock, others, mapped, stream, placed, worker, faults>>

\* It raises for a slot whose event could not be recorded, and puts it back.
BorrowFails ==
  /\ At("get")
  /\ available # <<>>
  /\ slot[Head(available)].record_failed
  /\ available' = Append(Tail(available), Head(available))
  /\ mover' = [mover EXCEPT !.good = FALSE,
                 !.at = IF mover.task = "restore" THEN "drain" ELSE "skip"]
  /\ UNCHANGED <<disk, lock, others, slot, mapped, stream, placed, worker,
                 faults>>

Event(s) == Copy("event", s, 0, Junk)

\* The GPU executes the head of the stream.
Gpu ==
  /\ stream # <<>>
  /\ worker # "dead"
  /\ LET op == Head(stream)
         held == slot[op.slot].data[op.offset] IN
     CASE op.kind = "event" -> UNCHANGED <<slot, placed>>
       [] op.kind = "h2d" ->
            /\ placed' = IF held = op.unit THEN placed \cup {op.unit}
                                           ELSE placed \ {op.unit}
            /\ UNCHANGED slot
       [] op.kind = "d2h" ->
            /\ slot' = [slot EXCEPT ![op.slot].data[op.offset] =
                          IF op.unit \in placed THEN op.unit ELSE Junk]
            /\ UNCHANGED placed
  /\ stream' = Tail(stream)
  /\ UNCHANGED <<disk, lock, others, mover, available, mapped, worker,
                 faults>>

---------------------------------------------------------------------------
(* Restoring: start_load_kv, restore_entry, stream_objects.                *)

\* The scheduler may ask for any prefix that was offered at some time.  A
\* request has fresh pages.
BeginRestore(n) ==
  /\ At("idle")
  /\ mover' = [IdleMover EXCEPT !.task = "restore", !.n = n,
                 !.at = IF CreditsUsed < RestoreCredits THEN "view" ELSE "exit"]
  /\ placed' = {}
  /\ UNCHANGED <<disk, lock, others, pool, worker, faults>>

FirstStep(k) == IF Blocks(k) > 1 THEN "open" ELSE "get"

\* restore_view: lookup and pins under one lock.  A miss is fatal here.
OpenView ==
  /\ At("view")
  /\ lock = NoThread
  /\ LookupEffect(mover.n)
  /\ mover' = IF Obstacle(mover.n) = 0
              THEN [mover EXCEPT !.pins = KeysOf(mover.n),
                                 !.at = FirstStep(Objects(mover.n)[1])]
              ELSE [mover EXCEPT !.good = FALSE, !.at = "leave"]
  /\ UNCHANGED <<lock, others, pool, placed, worker, faults>>

\* A large file is opened once, before its first slot is borrowed.
Open ==
  /\ At("open")
  /\ mover' = IF Readable(Key) THEN [mover EXCEPT !.at = "get"]
              ELSE [mover EXCEPT !.good = FALSE, !.failed = Key, !.at = "reject"]
  /\ UNCHANGED <<disk, lock, others, pool, placed, worker, faults>>

\* Whether the file after the one just read goes into the same slot.
SameBatch ==
  LET objects == Objects(mover.n) IN
  /\ mover.next < Len(objects)
  /\ Blocks(objects[mover.next]) = 1 /\ Blocks(objects[mover.next + 1]) = 1
  /\ mover.next + 1 - mover.cursor < SlotFiles

\* A small file is opened when its turn in the batch comes.
Opened == Blocks(Key) > 1 \/ Readable(Key)

\* The read into the slot, its checksum, and the copies that receive submits.
Place ==
  /\ At("place")
  /\ Opened
  /\ file[Key] = "rotten" => mover.block < Blocks(Key)
  /\ LET offset == mover.next - mover.cursor + 1
         unit == <<Key, mover.block>> IN
     /\ slot' = [slot EXCEPT ![mover.slot].data[offset] =
                   IF file[Key] = "wrong" THEN Junk ELSE unit]
     /\ stream' = Append(stream, Copy("h2d", mover.slot, offset, unit))
  /\ mover' = IF SameBatch THEN [mover EXCEPT !.next = @ + 1]
                           ELSE [mover EXCEPT !.at = "record"]
  /\ UNCHANGED <<disk, lock, others, available, mapped, placed, worker,
                 faults>>

\* The file is gone, withdrawn, rotten, or cannot be read.
PlaceFails ==
  /\ At("place")
  /\ \/ ~Opened /\ UNCHANGED <<slot, faults>>
     \/ /\ Opened
        /\ \/ /\ file[Key] = "rotten" /\ mover.block = Blocks(Key)
              /\ UNCHANGED faults
           \/ Fails
        /\ slot' = [slot EXCEPT
                      ![mover.slot].data[mover.next - mover.cursor + 1] = Junk]
  /\ mover' = [mover EXCEPT !.good = FALSE, !.failed = Key, !.at = "record"]
  /\ UNCHANGED <<disk, lock, others, available, mapped, stream, placed,
                 worker>>

\* receive raises when some of its copies are on their way: no fault of the file.
ReceiveFails ==
  /\ At("place")
  /\ Opened
  /\ file[Key] = "rotten" => mover.block < Blocks(Key)
  /\ Fails
  /\ stream' = Append(stream, Copy("h2d", mover.slot, mover.next - mover.cursor + 1,
                                   <<Key, mover.block>>))
  /\ mover' = [mover EXCEPT !.good = FALSE, !.at = "record"]
  /\ UNCHANGED <<disk, lock, others, available, slot, mapped, placed, worker>>

\* Where the restore goes on when the slot of a batch or a block is back.
AfterBatch ==
  LET objects == Objects(mover.n) IN
  CASE mover.failed # 0 -> [mover EXCEPT !.at = "reject"]
    [] mover.good /\ mover.block < Blocks(Key) ->
         [mover EXCEPT !.block = @ + 1, !.at = "get"]
    [] mover.good /\ mover.block = Blocks(Key) /\ mover.next < Len(objects) ->
         [mover EXCEPT !.block = 1, !.next = @ + 1, !.cursor = mover.next + 1,
                       !.at = FirstStep(objects[mover.next + 1])]
    [] OTHER -> [mover EXCEPT !.at = "drain"]

\* on_batch_complete records the event behind the copies, also if the batch
\* failed; then the slot goes back.
RecordUse ==
  /\ At("record")
  /\ stream' = Append(stream, Event(mover.slot))
  /\ slot' = [slot EXCEPT ![mover.slot].pending = TRUE]
  /\ available' = Append(available, mover.slot)
  /\ mover' = Released(AfterBatch)
  /\ UNCHANGED <<disk, lock, others, mapped, placed, worker, faults>>

\* The slot that record_use leaves when it raises: nobody can tell when the
\* GPU is done with it.
Unrecorded(s) == [s EXCEPT !.pending = TRUE, !.record_failed = TRUE]

\* The exception replaces the one of a large file that the read refused, which
\* then is not condemned; a batch of small files remembers which one it was.
RecordUseFails ==
  /\ At("record")
  /\ Fails
  /\ slot' = [slot EXCEPT ![mover.slot] = Unrecorded(@)]
  /\ available' = Append(available, mover.slot)
  /\ mover' = [Released(mover) EXCEPT !.good = FALSE,
                 !.at = IF mover.failed # 0 /\ Blocks(mover.failed) = 1
                        THEN "reject" ELSE "drain"]
  /\ UNCHANGED <<disk, lock, others, mapped, stream, placed, worker>>

\* Only after its slot is back the restore takes the lock to condemn the file.
Reject ==
  /\ At("reject")
  /\ lock = NoThread
  /\ Condemn(mover.failed)
  /\ Goto("drain")
  /\ UNCHANGED <<lock, others, pool, placed, worker, faults>>

\* _synchronize_restore_stream, with mark_stream_synchronized.
Drain ==
  /\ At("drain")
  /\ stream = <<>>
  /\ slot' = [s \in 1 .. SlotCount |-> EmptySlot]
  /\ Goto("leave")
  /\ UNCHANGED <<disk, lock, others, available, mapped, stream, placed,
                 worker, faults>>

\* The end of restore_view: the pins go.
LeaveView ==
  /\ At("leave")
  /\ lock = NoThread
  /\ mover' = IF mover.good THEN IdleMover
              ELSE [mover EXCEPT !.pins = {}, !.at = "exit"]
  /\ UNCHANGED <<disk, lock, others, pool, placed, worker, faults>>

\* touch raises: at the end of a view that is done, or of a commit whose files
\* are all there.
TouchFails ==
  /\ Fails
  /\ \/ At("leave") /\ mover.good /\ lock = NoThread
        /\ mover' = [mover EXCEPT !.good = FALSE]
     \/ At("announce") /\ Goto("skip")
  /\ UNCHANGED <<disk, lock, others, pool, placed, worker>>

\* The process ends, and with it all that it held in memory.
EndProcess ==
  /\ worker' = "dead"
  /\ lock' = NoThread
  /\ cpu' = NoThread
  /\ mover' = IdleMover
  /\ reader' = [r \in Readers |-> IdleReader]
  /\ scrubbed' = [s \in Scrubbers |-> 0]
  /\ available' = [i \in 1 .. SlotCount |-> i]
  /\ slot' = [i \in 1 .. SlotCount |-> EmptySlot]
  /\ mapped' = 1 .. SlotCount
  /\ stream' = <<>>
  /\ placed' = {}
  /\ UNCHANGED <<disk, faults>>

\* terminate_worker_after_fatal_restore: os._exit.
Exit == At("exit") /\ EndProcess

---------------------------------------------------------------------------
(* Storing: _commit_store_plans, commit_keys, _commit_streamed.            *)

\* The planner stores only what the pages of the request hold.
BeginCommit(n) ==
  /\ At("idle")
  /\ mover' = [IdleMover EXCEPT !.task = "commit", !.n = n, !.at = "lock"]
  /\ placed' = UnitsOf(n)
  /\ UNCHANGED <<disk, lock, others, pool, worker, faults>>

TakeLock ==
  /\ At("lock")
  /\ lock = NoThread
  /\ lock' = Mover
  /\ Goto("check")
  /\ UNCHANGED <<disk, others, pool, placed, worker, faults>>

\* The last object of the batch: data files of one block share a slot, a
\* large one and the state are on their own.
BatchEnd ==
  IF Objects(mover.n)[mover.cursor] > Chunks \/ DataBlocks > 1
  THEN mover.cursor
  ELSE IF mover.cursor + SlotFiles - 1 <= mover.n
       THEN mover.cursor + SlotFiles - 1 ELSE mover.n

\* After the batch: the next one, or the announcement.
NextBatch(m) ==
  IF BatchEnd < Len(Objects(m.n))
  THEN [m EXCEPT !.cursor = BatchEnd + 1, !.next = BatchEnd + 1, !.block = 1,
                 !.missing = {}, !.at = "check"]
  ELSE [m EXCEPT !.at = "announce"]

\* The key of the batch after the one just checked, or the capture of what is
\* missing.  A streamed file is opened for its name first.
Checked(missing) ==
  IF mover.next < BatchEnd
  THEN [mover EXCEPT !.missing = missing, !.next = @ + 1, !.at = "check"]
  ELSE IF missing = {} THEN NextBatch(mover)
  ELSE [mover EXCEPT !.missing = missing, !.block = 1, !.right = TRUE,
          !.next = Min(missing),
          !.at = IF Blocks(Key) > 1 /\ file'[Key] # "none" THEN "skip" ELSE "get"]

\* valid_chunk up to the authentication: a readable file needs the CPU slot.
Check ==
  /\ At("check")
  /\ \/ Readable(Key) /\ Goto("authenticate") /\ UNCHANGED disk
     \/ /\ ~Readable(Key)
        /\ IF Missing(Key) THEN UNCHANGED disk ELSE Condemn(Key)
        /\ mover' = Checked(mover.missing \cup {mover.next})
  /\ UNCHANGED <<lock, others, pool, placed, worker, faults>>

\* The wait for the store's slot, with the lock held.
BorrowCpu ==
  /\ At("authenticate")
  /\ cpu = NoThread
  /\ cpu' = Mover
  /\ Goto("verdict")
  /\ UNCHANGED <<disk, lock, reader, scrubbed, pool, placed, worker, faults>>

\* _authenticate; the slot is back before the file is condemned.
Verdict ==
  /\ At("verdict")
  /\ cpu' = NoThread
  /\ \/ /\ file[Key] # "rotten"
        /\ UNCHANGED <<disk, faults>>
        /\ mover' = Checked(mover.missing)
     \/ /\ (file[Key] = "rotten" /\ UNCHANGED faults) \/ Fails
        /\ Condemn(Key)
        /\ mover' = Checked(mover.missing \cup {mover.next})
  /\ UNCHANGED <<lock, reader, scrubbed, pool, placed, worker>>

\* Where the key at position i of the batch is in the slot.
Offset(i) == Cardinality({j \in mover.missing : j <= i})

\* The copies of everything that is missing, or of one block.
Copies ==
  IF Blocks(Key) > 1
  THEN <<Copy("d2h", mover.slot, 1, <<Key, mover.block>>)>>
  ELSE LET lane(i) == CHOOSE j \in mover.missing : Offset(j) = i IN
       [i \in 1 .. Cardinality(mover.missing) |->
          Copy("d2h", mover.slot, i, <<Objects(mover.n)[lane(i)], 1>>)]

\* _capture_packed submits the copies and records the event.
Capture ==
  /\ At("copy")
  /\ stream' = Append(stream \o Copies, Event(mover.slot))
  /\ slot' = [slot EXCEPT ![mover.slot].pending = TRUE]
  /\ Goto("wait")
  /\ UNCHANGED <<disk, lock, others, available, mapped, placed, worker,
                 faults>>

\* Mutant: the flag is not set before the event is recorded.
capture_without_flag ==
  /\ At("copy")
  /\ Fails
  /\ stream' = stream \o Copies
  /\ available' = Append(available, mover.slot)
  /\ mover' = [Released(mover) EXCEPT !.at = "skip"]
  /\ UNCHANGED <<disk, lock, others, slot, mapped, placed, worker>>

\* The copies are on their way and their event cannot be recorded.
CaptureFails ==
  /\ At("copy")
  /\ Fails
  /\ stream' = stream \o Copies
  /\ slot' = [slot EXCEPT ![mover.slot] = Unrecorded(@)]
  /\ available' = Append(available, mover.slot)
  /\ mover' = [Released(mover) EXCEPT !.at = "skip"]
  /\ UNCHANGED <<disk, lock, others, mapped, placed, worker>>

\* The slot of a capture goes back empty-handed.
ReturnSlot ==
  IF mover.slot = 0 THEN UNCHANGED <<available, slot>>
  ELSE /\ available' = Append(available, mover.slot)
       /\ slot' = [slot EXCEPT ![mover.slot] = EmptySlot]

\* wait_until_reusable at the end of _capture_packed.
Captured ==
  /\ At("wait")
  /\ Completed(mover.slot)
  /\ slot' = [slot EXCEPT ![mover.slot].pending = FALSE]
  /\ Goto(IF Blocks(Key) > 1 THEN "write" ELSE "publish")
  /\ UNCHANGED <<disk, lock, others, available, mapped, stream, placed,
                 worker, faults>>

\* A copy raised after others were on their way: they are waited for, too.
CopyFails ==
  /\ At("wait")
  /\ Completed(mover.slot)
  /\ Fails
  /\ ReturnSlot
  /\ mover' = [Released(mover) EXCEPT !.at = "skip"]
  /\ UNCHANGED <<disk, lock, others, mapped, stream, placed, worker>>

\* commit_stream hashes and writes one block; its slot goes back before the
\* next one is borrowed.
WriteBlock ==
  /\ At("write")
  /\ ReturnSlot
  /\ \/ /\ mover' = [Released(mover) EXCEPT
               !.right = @ /\ slot[mover.slot].data[1] = <<Key, mover.block>>,
               !.block = Least(@ + 1, Blocks(Key)),
               !.at = IF mover.block < Blocks(Key) THEN "get" ELSE "publish"]
        /\ UNCHANGED faults
     \/ /\ Fails
        /\ mover' = [Released(mover) EXCEPT !.at = "skip"]
  /\ UNCHANGED <<disk, lock, others, mapped, stream, placed, worker>>

\* The bytes that are about to be published are those of the key.
RightBytes ==
  IF Blocks(Key) > 1 THEN mover.right
  ELSE slot[mover.slot].data[Offset(mover.next)] = <<Key, 1>>

Written == [file EXCEPT ![Key] = IF RightBytes THEN "right" ELSE "wrong"]

\* _publish_chunk of the key, then of the next missing one of the batch.
Publish ==
  LET rest == {i \in mover.missing : i > mover.next} IN
  /\ At("publish")
  /\ file[Key] = "none"
  /\ file' = Written
  /\ withdrawn' = withdrawn \ {Key}
  /\ IF rest # {}
     THEN mover' = [mover EXCEPT !.next = Min(rest)] /\ UNCHANGED <<available, slot>>
     ELSE mover' = NextBatch(Released(mover)) /\ ReturnSlot
  /\ UNCHANGED <<offered, lock, others, mapped, stream, placed, worker,
                 faults>>

\* The name is taken by a pinned file, or a call fails: before the link, or
\* after it, when the file is there but marked.
PublishFails ==
  /\ At("publish")
  /\ \/ file[Key] # "none" /\ UNCHANGED <<disk, faults>>
     \/ file[Key] = "none" /\ Fails /\ UNCHANGED disk
     \/ /\ file[Key] = "none" /\ Fails
        /\ file' = Written
        /\ withdrawn' = withdrawn \cup {Key}
        /\ offered' = offered \ {Key}
  /\ ReturnSlot
  /\ mover' = [Released(mover) EXCEPT !.at = "skip"]
  /\ UNCHANGED <<lock, others, mapped, stream, placed, worker>>

\* Only a commit that got through announces its keys, all of them.
Announce ==
  /\ At("announce")
  /\ offered' = offered \cup KeysOf(mover.n)
  /\ lock' = NoThread
  /\ mover' = IdleMover
  /\ UNCHANGED <<file, withdrawn, others, pool, placed, worker, faults>>

\* Mutant: a commit that failed announces its keys.
skip_and_announce ==
  /\ At("skip")
  /\ offered' = offered \cup KeysOf(mover.n)
  /\ lock' = NoThread
  /\ mover' = IdleMover
  /\ UNCHANGED <<file, withdrawn, others, pool, placed, worker, faults>>

Skip ==
  /\ At("skip")
  /\ lock' = NoThread
  /\ mover' = IdleMover
  /\ UNCHANGED <<disk, others, pool, placed, worker, faults>>

\* evict, from _maintain_capacity in vLLM's thread between two transfers.
Evict(k) ==
  /\ At("idle")
  /\ lock = NoThread
  /\ file[k] # "none" /\ ~Pinned(k)
  /\ file' = [file EXCEPT ![k] = "none"]
  /\ withdrawn' = withdrawn \cup {k}
  /\ offered' = offered \ {k}
  /\ UNCHANGED <<lock, others, mover, pool, placed, worker, faults>>

---------------------------------------------------------------------------
(* Readers and scrubbers.                                                  *)

ReaderAt(r, step) == Alive /\ reader[r].at = step

BeginRead(r, n) ==
  /\ Running /\ ReaderAt(r, "idle")
  /\ CreditsUsed < RestoreCredits
  /\ reader' = [reader EXCEPT ![r] =
                  [IdleReader EXCEPT !.n = n, !.at = "view"]]
  /\ UNCHANGED <<disk, lock, scrubbed, cpu, mover, pool, placed, worker,
                 faults>>

ReaderView(r) ==
  /\ ReaderAt(r, "view")
  /\ lock = NoThread
  /\ LookupEffect(reader[r].n)
  /\ reader' = [reader EXCEPT ![r] =
       IF Obstacle(reader[r].n) = 0
       THEN [@ EXCEPT !.pins = KeysOf(reader[r].n), !.at = "get"]
       ELSE [@ EXCEPT !.at = "leave"]]
  /\ UNCHANGED <<lock, scrubbed, cpu, mover, pool, placed, worker, faults>>

ReaderBorrow(r) ==
  /\ ReaderAt(r, "get")
  /\ cpu = NoThread
  /\ cpu' = r
  /\ reader' = [reader EXCEPT ![r].at = "read"]
  /\ UNCHANGED <<disk, lock, scrubbed, mover, pool, placed, worker, faults>>

\* The next file of the view, or its end.
AfterRead(view) ==
  IF view.next < Len(Objects(view.n))
  THEN [view EXCEPT !.next = @ + 1, !.at = "get"]
  ELSE [view EXCEPT !.at = "leave"]

ReaderKey(r) == Objects(reader[r].n)[reader[r].next]

\* Mutant: the credit is kept until the bad file is condemned.
read_keeps_credit(r) ==
  /\ ReaderAt(r, "read")
  /\ \/ /\ Readable(ReaderKey(r)) /\ file[ReaderKey(r)] # "rotten"
        /\ UNCHANGED faults
        /\ cpu' = NoThread
        /\ reader' = [reader EXCEPT ![r] = AfterRead(@)]
     \/ /\ \/ /\ ~Readable(ReaderKey(r)) \/ file[ReaderKey(r)] = "rotten"
              /\ UNCHANGED faults
           \/ Fails
        /\ lock = NoThread
        /\ cpu' = NoThread
        /\ reader' = [reader EXCEPT ![r].failed = ReaderKey(r),
                                    ![r].at = "reject"]
  /\ UNCHANGED <<disk, lock, scrubbed, mover, pool, placed, worker>>

\* One file is read and the credit goes back, whatever comes out.
Read(r) ==
  /\ ReaderAt(r, "read")
  /\ cpu' = NoThread
  /\ \/ /\ Readable(ReaderKey(r)) /\ file[ReaderKey(r)] # "rotten"
        /\ UNCHANGED faults
        /\ reader' = [reader EXCEPT ![r] = AfterRead(@)]
     \/ /\ \/ /\ ~Readable(ReaderKey(r)) \/ file[ReaderKey(r)] = "rotten"
              /\ UNCHANGED faults
           \/ Fails
        /\ reader' = [reader EXCEPT ![r].failed = ReaderKey(r),
                                    ![r].at = "reject"]
  /\ UNCHANGED <<disk, lock, scrubbed, mover, pool, placed, worker>>

ReaderReject(r) ==
  /\ ReaderAt(r, "reject")
  /\ lock = NoThread
  /\ Condemn(reader[r].failed)
  /\ reader' = [reader EXCEPT ![r].at = "leave"]
  /\ UNCHANGED <<lock, scrubbed, cpu, mover, pool, placed, worker, faults>>

ReaderLeave(r) ==
  /\ ReaderAt(r, "leave")
  /\ lock = NoThread
  /\ reader' = [reader EXCEPT ![r] = IdleReader]
  /\ UNCHANGED <<disk, lock, scrubbed, cpu, mover, pool, placed, worker,
                 faults>>

\* One key of a scrub step: a pinned one is left for later, the lock is held
\* until the verdict.
BeginScrub(s, k) ==
  /\ Running /\ scrubbed[s] = 0
  /\ lock = NoThread
  /\ file[k] # "none" /\ ~Pinned(k)
  /\ lock' = s
  /\ scrubbed' = [scrubbed EXCEPT ![s] = k]
  /\ UNCHANGED <<disk, cpu, reader, mover, pool, placed, worker, faults>>

ScrubBorrow(s) ==
  /\ Alive /\ scrubbed[s] # 0 /\ cpu # s
  /\ cpu = NoThread
  /\ cpu' = s
  /\ UNCHANGED <<disk, lock, scrubbed, reader, mover, pool, placed, worker,
                 faults>>

\* An authenticated file loses its marker, another one is condemned.
ScrubVerdict(s) ==
  /\ Alive /\ cpu = s
  /\ cpu' = NoThread
  /\ lock' = NoThread
  /\ scrubbed' = [scrubbed EXCEPT ![s] = 0]
  /\ \/ /\ file[scrubbed[s]] # "rotten"
        /\ withdrawn' = withdrawn \ {scrubbed[s]}
        /\ UNCHANGED <<file, offered, faults>>
     \/ /\ (file[scrubbed[s]] = "rotten" /\ UNCHANGED faults) \/ Fails
        /\ Condemn(scrubbed[s])
  /\ UNCHANGED <<reader, mover, pool, placed, worker>>

---------------------------------------------------------------------------
(* The end of the process, and damage.                                     *)

\* shutdown in vLLM's thread; the scrubber has stopped before.
BeginShutdown ==
  /\ At("idle")
  /\ \A s \in Scrubbers : scrubbed[s] = 0
  /\ worker' = "closing"
  /\ UNCHANGED <<disk, lock, others, mover, pool, placed, faults>>

\* _PinnedSlot.close: waits for the event, then unregisters the memory.
CloseSlot(s) ==
  /\ worker = "closing"
  /\ mapped = s .. SlotCount
  /\ ~slot[s].record_failed
  /\ slot[s].pending => Completed(s)
  /\ mapped' = mapped \ {s}
  /\ slot' = [slot EXCEPT ![s].pending = FALSE]
  /\ UNCHANGED <<disk, lock, others, mover, available, stream, placed, worker,
                 faults>>

\* A slot without an event, or a store with active restores, raises.
CloseRaises ==
  /\ worker = "closing"
  /\ \/ \E s \in mapped : mapped = s .. SlotCount /\ slot[s].record_failed
     \/ mapped = {} /\ \E r \in Readers : reader[r].at \notin {"idle", "view"}
  /\ worker' = "raised"
  /\ UNCHANGED <<disk, lock, others, mover, pool, placed, faults>>

CloseStore ==
  /\ worker = "closing"
  /\ mapped = {}
  /\ lock = NoThread
  /\ \A r \in Readers : reader[r].at \in {"idle", "view"}
  /\ worker' = "closed"
  /\ UNCHANGED <<disk, lock, others, mover, pool, placed, faults>>

\* The process is killed, or it leaves after shutdown.
Killed == worker # "dead" /\ EndProcess

\* A new worker on the same files; its scan offers what can be opened.
Restart ==
  /\ worker = "dead"
  /\ offered' = {k \in Keys : Readable(k)}
  /\ worker' = "running"
  /\ UNCHANGED <<file, withdrawn, lock, others, mover, pool, placed, faults>>

\* The medium loses a block of a file.
Damage(k) ==
  /\ faults < MaxFaults /\ faults' = faults + 1
  /\ file[k] \in {"right", "wrong"}
  /\ file' = [file EXCEPT ![k] = "rotten"]
  /\ UNCHANGED <<withdrawn, offered, lock, others, mover, pool, placed, worker>>

---------------------------------------------------------------------------

MoverStep ==
  \/ Borrow \/ BorrowFails \/ OpenView \/ Open \/ Place \/ PlaceFails
  \/ ReceiveFails \/ TouchFails \/ CopyFails
  \/ RecordUse \/ RecordUseFails \/ Reject \/ Drain \/ LeaveView \/ Exit
  \/ TakeLock \/ Check \/ BorrowCpu \/ Verdict \/ Capture \/ CaptureFails
  \/ Captured \/ WriteBlock \/ Publish \/ PublishFails \/ Announce \/ Skip

ReaderStep(r) ==
  \/ ReaderView(r) \/ ReaderBorrow(r) \/ Read(r) \/ ReaderReject(r)
  \/ ReaderLeave(r)

ScrubStep(s) == ScrubBorrow(s) \/ ScrubVerdict(s)

CloseStep == CloseRaises \/ CloseStore \/ \E s \in 1 .. SlotCount : CloseSlot(s)

Next ==
  \/ MoverStep
  \/ \E n \in Prefixes : BeginRestore(n) \/ BeginCommit(n)
  \/ \E r \in Readers : ReaderStep(r) \/ \E n \in Prefixes : BeginRead(r, n)
  \/ \E s \in Scrubbers : ScrubStep(s) \/ \E k \in Keys : BeginScrub(s, k)
  \/ Gpu
  \/ BeginShutdown \/ CloseStep \/ Killed \/ Restart
  \/ \E k \in Keys : Evict(k) \/ Damage(k)

Spec == Init /\ [][Next]_vars

\* Every thread that can go on, or is let go on again and again (the lock and
\* the slots are handed on when they are returned), goes on; so does the GPU.
FairSpec ==
  /\ Spec
  /\ WF_vars(Gpu)
  /\ WF_vars(CloseStep)
  /\ SF_vars(MoverStep)
  /\ \A r \in Readers : SF_vars(ReaderStep(r))
  /\ \A s \in Scrubbers : SF_vars(ScrubStep(s))

---------------------------------------------------------------------------
(* Properties.                                                             *)

\* A slot that anybody could borrow while the GPU still works on it is marked
\* as pending, and the GPU never works on memory that is unregistered: record_use
\* sets the flag before it records the event, every path that submitted copies
\* calls it, and close waits for it (gpu.py 63-88, 459-492).
InFlightGuarded ==
  \A i \in 1 .. Len(stream) :
    /\ stream[i].slot \in mapped
    /\ stream[i].slot # mover.slot => slot[stream[i].slot].pending

\* vLLM's thread is inside a transfer or inside the shutdown.
Busy ==
  /\ worker # "dead"
  /\ mover.task # "none" \/ worker = "closing"

\* Every restore, every commit and the shutdown end, whoever holds the lock, the
\* credits and the slots meanwhile, and whatever fails: a commit waits for the
\* store's slot with the lock held, and a reader that found a bad file in that
\* slot wants the lock (token_files.py 541-660, gpu.py 129-190).
EveryTransferEnds == Busy ~> ~Busy

Service ==
  INSTANCE TransferService WITH
    Keys <- Keys, Lengths <- Prefixes, KeysOf <- KeysOf, UnitsOf <- UnitsOf,
    job <- IF worker = "dead" THEN "dead" ELSE mover.task,
    n <- mover.n,
    pages <- IF mover.task = "restore" THEN {} ELSE placed,
    store <- file,
    offers <- offered

\* What vLLM and the scheduler may rely on (TransferService): after a restore the
\* pages of the whole prefix are right or the worker is dead (start_load_kv), and
\* no commit that failed half-way announces a key (_commit_store_plans).
ImplementsService == Service!Spec
=============================================================================
