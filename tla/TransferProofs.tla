-------------------------- MODULE TransferProofs --------------------------
(***************************************************************************)
(* Theorems about the data path, for any number of chunks, blocks, slots,  *)
(* readers, scrubbers and faults.                                          *)
(***************************************************************************)
EXTENDS TransferPath, FiniteSetTheorems, WellFoundedInduction, TLAPS

Slots == 1 .. SlotCount

---------------------------------------------------------------------------
(* The invariant, in layers.                                               *)

Unit == Nat \X Nat

Operation ==
  [kind : {"h2d", "d2h", "event"}, slot : Slots, offset : Nat, unit : Unit]

SlotRecord ==
  [pending : BOOLEAN, record_failed : BOOLEAN, data : [1 .. SlotFiles -> Unit]]

RestoreSteps == {"view", "open", "get", "place", "record", "reject", "drain", "leave", "exit"}

LockedSteps ==
  {"check", "authenticate", "verdict", "get", "copy", "wait", "write", "publish",
   "announce", "skip"}

Steps == {"idle", "lock"} \cup RestoreSteps \cup LockedSteps

MoverRecord ==
  [task : {"none", "restore", "commit"}, at : Steps, n : Nat, cursor : Nat,
   next : Nat, block : Nat, slot : Slots \cup {0}, missing : SUBSET Nat,
   pins : SUBSET Keys, failed : Keys \cup {0}, right : BOOLEAN, good : BOOLEAN]

ReaderRecord ==
  [at : {"idle", "view", "get", "read", "reject", "leave"}, n : Nat, next : Nat,
   pins : SUBSET Keys, failed : Keys \cup {0}]

Threads == {Mover, NoThread} \cup Readers \cup Scrubbers

DiskOK ==
  /\ file \in [Keys -> {"none", "right", "wrong", "rotten"}]
  /\ withdrawn \subseteq Keys /\ offered \subseteq Keys

PoolOK ==
  /\ available \in Seq(Slots)
  /\ slot \in [Slots -> SlotRecord]
  /\ mapped \subseteq Slots
  /\ stream \in Seq(Operation)
  /\ placed \subseteq Unit

ThreadsOK ==
  /\ lock \in Threads /\ cpu \in Threads
  /\ scrubbed \in [Scrubbers -> Keys \cup {0}]
  /\ worker \in {"running", "closing", "closed", "raised", "dead"}

\* Where the mover is in its prefix; a commit is inside a batch.
Batch == mover.cursor .. BatchEnd

MoverOK ==
  /\ mover \in MoverRecord
  /\ mover.at = "idle" => mover = IdleMover
  /\ mover.at # "idle" =>
       /\ mover.n \in Prefixes
       /\ mover.next \in 1 .. Len(Objects(mover.n))
       /\ mover.cursor \in 1 .. mover.next
       /\ mover.block \in 1 .. Blocks(Key)
       /\ \/ mover.task = "restore" /\ mover.at \in RestoreSteps
          \/ /\ mover.task = "commit" /\ mover.at \in LockedSteps \cup {"lock"}
             /\ mover.next \in Batch /\ mover.missing \subseteq Batch
  /\ mover.at = "reject" => mover.failed # 0
  /\ mover.good => mover.failed = 0

ReadersOK ==
  /\ reader \in [Readers -> ReaderRecord]
  /\ \A r \in Readers : reader[r].at # "idle" =>
       /\ reader[r].n \in Prefixes
       /\ reader[r].next \in 1 .. Len(Objects(reader[r].n))
       /\ reader[r].at = "reject" => reader[r].failed # 0

TypeOK == DiskOK /\ PoolOK /\ ThreadsOK /\ MoverOK /\ ReadersOK

\* Who has the lock: a commit from its first check on, a scrubber that has a key.
Locks ==
  /\ mover.at \in LockedSteps /\ mover.task = "commit" => lock = Mover
  /\ \A s \in Scrubbers : scrubbed[s] # 0 => lock = s
  /\ \A s \in Scrubbers : cpu = s => scrubbed[s] # 0

\* Where the mover has a slot; it may have one while it publishes.
Holding == {"place", "record", "copy", "wait", "write"}

MoverHolds ==
  /\ mover.at \in Holding => mover.slot # 0
  /\ mover.at \notin Holding \cup {"publish"} => mover.slot = 0

\* Outside of a running process nothing moves, and no slot is unmapped before
\* the shutdown.
Quiet ==
  /\ worker # "running" => mover.at = "idle"
  /\ worker = "dead" => stream = <<>> /\ placed = {}
  /\ worker \in {"running", "dead"} => mapped = Slots

\* No copy of slot s is in the stream.
Free(s) == \A i \in 1 .. Len(stream) : stream[i].slot # s

\* Behind every copy comes the event of its slot, unless it could not be recorded
\* or the mover is still submitting copies.
Covered ==
  \A i \in 1 .. Len(stream) :
    \/ \E j \in i .. Len(stream) :
         stream[j].kind = "event" /\ stream[j].slot = stream[i].slot
    \/ slot[stream[i].slot].record_failed
    \/ stream[i].slot = mover.slot /\ mover.at \in {"place", "record"}

\* The slot that the mover holds can be told to be free, and is free when its
\* copies have been waited for.
HeldSlot ==
  mover.slot # 0 =>
    /\ ~slot[mover.slot].record_failed
    /\ mover.at \in {"copy", "write", "publish"} => Free(mover.slot)

\* Types and locks, and the guards of the slots.
Base == TypeOK /\ Locks /\ MoverHolds

PInv == InFlightGuarded /\ Quiet /\ Covered /\ HeldSlot

\* The number at position o of the finite set S.
Lane(S, o) == CHOOSE i \in S : Cardinality({j \in S : j <= i}) = o

\* The unit that the capture puts at an offset of the slot.
Wanted(o) ==
  IF Blocks(Key) > 1 THEN <<Key, mover.block>>
  ELSE <<Objects(mover.n)[Lane(mover.missing, o)], 1>>

Lanes == IF Blocks(Key) > 1 THEN {1} ELSE 1 .. Cardinality(mover.missing)

---------------------------------------------------------------------------
(* The files of a prefix.                                                  *)

\* A prefix has its data files in order and, with a boundary state, one more.
LEMMA ObjectsAre ==
  ASSUME NEW n \in Prefixes
  PROVE  /\ n \in 1 .. Chunks
         /\ Len(Objects(n)) \in Nat /\ Len(Objects(n)) \in n .. n + 1
         /\ Len(Objects(n)) = IF StateBlocks = 0 THEN n ELSE n + 1
         /\ \A i \in 1 .. Len(Objects(n)) :
              /\ i <= n => Objects(n)[i] = i
              /\ i > n => Objects(n)[i] = Chunks + n
              /\ Objects(n)[i] \in KeysOf(n)
<1>1. n \in Nat /\ n \in 1 .. Chunks /\ Chunks \in Nat /\ StateBlocks \in Nat
  BY TransferAssumption
<1>2. CASE StateBlocks = 0
  <2>1. Objects(n) = [i \in 1 .. n |-> i]
    BY <1>1, <1>2 DEF Objects
  <2> QED  BY <1>1, <1>2, <2>1 DEF KeysOf
<1>3. CASE StateBlocks # 0
  <2> DEFINE d == [i \in 1 .. n |-> i]
             t == <<Chunks + n>>
  <2>1. Objects(n) = d \o t
    BY <1>3 DEF Objects
  <2>2. d \in Seq(Nat) /\ t \in Seq(Nat) /\ Len(d) = n /\ Len(t) = 1
    BY <1>1
  <2>3. /\ Len(d \o t) = n + 1
        /\ \A i \in 1 .. n + 1 : (d \o t)[i] = IF i <= n THEN d[i] ELSE t[i - n]
    BY <1>1, <2>2
  <2>4. \A i \in 1 .. n + 1 : (d \o t)[i] = IF i <= n THEN i ELSE Chunks + n
    BY <1>1, <2>3
  <2> HIDE DEF d, t
  <2> QED  BY <1>1, <1>3, <2>1, <2>3, <2>4 DEF KeysOf
<1> QED  BY <1>2, <1>3

\* Every file has a block, and its place in the prefix is its own.
LEMMA FilesAre ==
  ASSUME NEW n \in Prefixes
  PROVE  /\ \A i \in 1 .. Len(Objects(n)) :
              /\ Objects(n)[i] \in Keys
              /\ Blocks(Objects(n)[i]) \in Nat \ {0}
              /\ Blocks(Objects(n)[i]) <= DataBlocks + StateBlocks
         /\ \A i, j \in 1 .. Len(Objects(n)) :
              Objects(n)[i] = Objects(n)[j] => i = j
<1>1. /\ n \in Nat /\ n \in 1 .. Chunks /\ Chunks \in Nat /\ StateBlocks \in Nat
      /\ DataBlocks \in Nat \ {0}
  BY TransferAssumption
<1>2. KeysOf(n) \subseteq Keys
  BY DEF Keys
<1>3. \A i \in 1 .. Len(Objects(n)) :
        /\ i \in Nat
        /\ i <= n => Objects(n)[i] = i
        /\ i > n => Objects(n)[i] = Chunks + n /\ i = n + 1 /\ StateBlocks # 0
  BY <1>1, ObjectsAre
<1>4. \A i \in 1 .. Len(Objects(n)) :
        Objects(n)[i] = (IF i <= n THEN i ELSE Chunks + n)
  BY <1>1, <1>3
<1>5. \A i \in 1 .. Len(Objects(n)) :
        Blocks(Objects(n)[i]) = (IF i <= n THEN DataBlocks ELSE StateBlocks)
  BY <1>1, <1>3, <1>4 DEF Blocks
<1>6. \A i \in 1 .. Len(Objects(n)) : Objects(n)[i] \in Keys
  BY <1>2, ObjectsAre
<1>7. \A i, j \in 1 .. Len(Objects(n)) : Objects(n)[i] = Objects(n)[j] => i = j
  BY <1>1, <1>3, <1>4
<1> QED  BY <1>1, <1>3, <1>5, <1>6, <1>7

\* Keys are positive numbers.
LEMMA KeysAre ==
  Keys \subseteq Nat \ {0}
<1> SUFFICES ASSUME NEW n \in Prefixes, NEW i \in 1 .. Len(Objects(n))
             PROVE  Objects(n)[i] \in Nat \ {0}
  BY DEF Keys, KeysOf
<1> QED  BY ObjectsAre, TransferAssumption

\* The units of a prefix are the blocks of its files.
LEMMA UnitsAre ==
  ASSUME NEW n \in Prefixes
  PROVE  /\ UnitsOf(n) \subseteq Unit
         /\ \A i \in 1 .. Len(Objects(n)) : \A b \in 1 .. Blocks(Objects(n)[i]) :
              <<Objects(n)[i], b>> \in UnitsOf(n)
         /\ \A u \in UnitsOf(n) :
              \E i \in 1 .. Len(Objects(n)) : \E b \in 1 .. Blocks(Objects(n)[i]) :
                u = <<Objects(n)[i], b>>
<1>1. DataBlocks \in Nat /\ StateBlocks \in Nat /\ DataBlocks + StateBlocks \in Nat
  BY TransferAssumption
<1>2. ASSUME NEW i \in 1 .. Len(Objects(n)), NEW b \in 1 .. Blocks(Objects(n)[i])
      PROVE  <<Objects(n)[i], b>> \in UnitsOf(n)
  <2>1. /\ Objects(n)[i] \in Keys /\ Objects(n)[i] \in KeysOf(n)
        /\ b \in 1 .. DataBlocks + StateBlocks
    BY <1>1, FilesAre, ObjectsAre
  <2> QED  BY <2>1 DEF UnitsOf, Units
<1>3. ASSUME NEW u \in UnitsOf(n)
      PROVE  \E i \in 1 .. Len(Objects(n)) : \E b \in 1 .. Blocks(Objects(n)[i]) :
               u = <<Objects(n)[i], b>>
  <2>1. /\ u \in Keys \X (1 .. DataBlocks + StateBlocks)
        /\ u[2] <= Blocks(u[1]) /\ u[1] \in KeysOf(n)
    BY DEF UnitsOf, Units
  <2>2. PICK i \in 1 .. Len(Objects(n)) : u[1] = Objects(n)[i]
    BY <2>1 DEF KeysOf
  <2>3. u[2] \in 1 .. Blocks(Objects(n)[i]) /\ u = <<Objects(n)[i], u[2]>>
    BY <1>1, <2>1, <2>2, FilesAre
  <2> QED  BY <2>3
<1>4. ASSUME NEW u \in UnitsOf(n)
      PROVE  u \in Unit
  <2>1. u \in Keys \X (1 .. DataBlocks + StateBlocks)
    BY DEF UnitsOf, Units
  <2>2. Keys \subseteq Nat /\ 1 .. DataBlocks + StateBlocks \subseteq Nat
    BY <1>1, KeysAre
  <2> QED  BY <2>1, <2>2 DEF Unit
<1> QED  BY <1>2, <1>3, <1>4

\* A set of numbers that is not empty has a least one.
LEMMA LeastOf ==
  ASSUME NEW S \in SUBSET Nat, S # {}
  PROVE  Min(S) \in S /\ \A x \in S : Min(S) <= x
<1>1. PICK m \in S : \A x \in S : ~(<<x, m>> \in OpToRel(<, Nat))
  BY NatLessThanWellFounded, WFMin
<1>2. ASSUME NEW x \in S
      PROVE  m <= x
  <2>1. x \in Nat /\ m \in Nat
    OBVIOUS
  <2>2. ~(x < m)
    BY <1>1, <2>1 DEF OpToRel
  <2> QED  BY <2>1, <2>2
<1> QED  BY <1>2 DEF Min

\* Where a lookup stops is a file of the prefix.
LEMMA ObstacleIs ==
  ASSUME NEW n \in Prefixes
  PROVE  Obstacle(n) \in KeysOf(n) \cup {0} /\ KeysOf(n) \subseteq Keys
<1> DEFINE data == [i \in 1 .. n |-> n + 1 - i]
           state == IF StateBlocks = 0 THEN <<>> ELSE <<Chunks + n>>
           order == data \o state
           broken == {i \in 1 .. Len(order) : ~Readable(order[i])}
<1>1. n \in Nat /\ n \in 1 .. Chunks /\ Chunks \in Nat /\ StateBlocks \in Nat
  BY TransferAssumption
<1>2. data \in Seq(Nat) /\ state \in Seq(Nat) /\ Len(data) = n
  BY <1>1
<1>3. Len(state) = IF StateBlocks = 0 THEN 0 ELSE 1
  OBVIOUS
<1>4. /\ Len(order) = n + Len(state) /\ Len(order) \in Nat
      /\ \A i \in 1 .. Len(order) :
           order[i] = IF i <= n THEN data[i] ELSE state[i - n]
  BY <1>1, <1>2, <1>3
<1>5. ASSUME NEW i \in 1 .. Len(order)
      PROVE  order[i] \in KeysOf(n)
  <2>1. CASE i <= n
    <3>1. order[i] = n + 1 - i /\ n + 1 - i \in 1 .. n
      BY <1>1, <1>4, <2>1
    <3>2. n + 1 - i \in 1 .. Len(Objects(n)) /\ Objects(n)[n + 1 - i] = n + 1 - i
      BY <1>1, <3>1, ObjectsAre
    <3> QED  BY <3>1, <3>2 DEF KeysOf
  <2>2. CASE i > n
    <3>1. StateBlocks # 0 /\ i = n + 1 /\ order[i] = Chunks + n
      BY <1>1, <1>3, <1>4, <2>2
    <3>2. n + 1 \in 1 .. Len(Objects(n)) /\ Objects(n)[n + 1] = Chunks + n
      BY <1>1, <3>1, ObjectsAre
    <3> QED  BY <3>1, <3>2 DEF KeysOf
  <2> QED  BY <1>1, <2>1, <2>2
<1>6. Obstacle(n) = IF broken = {} THEN 0 ELSE order[Min(broken)]
  BY DEF Obstacle
<1>7. broken # {} => Min(broken) \in 1 .. Len(order)
  <2>1. broken \in SUBSET Nat
    OBVIOUS
  <2> HIDE DEF order
  <2> QED  BY <2>1, LeastOf
<1> HIDE DEF order, broken
<1> QED  BY <1>5, <1>6, <1>7 DEF Keys

\* The least of two numbers.
LEMMA LeastIs ==
  ASSUME NEW i \in Nat, NEW j \in Nat
  PROVE  Least(i, j) \in {i, j} /\ Least(i, j) <= i /\ Least(i, j) <= j
BY DEF Least

\* The file the mover is at.
LEMMA MoverKey ==
  ASSUME MoverOK, mover.at # "idle"
  PROVE  /\ mover.n \in Prefixes
         /\ Key \in Keys /\ Key \in KeysOf(mover.n)
         /\ Blocks(Key) \in Nat \ {0}
         /\ mover.next \in Nat /\ mover.cursor \in Nat /\ mover.block \in Nat
         /\ Len(Objects(mover.n)) \in Nat \ {0}
BY ObjectsAre, FilesAre DEF MoverOK, MoverRecord, Key

\* The end of a batch that begins at position c, as BatchEnd computes it.
BatchEndAt(n, c) ==
  IF Objects(n)[c] > Chunks \/ DataBlocks > 1 THEN c
  ELSE IF c + SlotFiles - 1 <= n THEN c + SlotFiles - 1 ELSE n

\* A batch of a commit goes from its cursor to its end; its files have equally
\* many blocks, and fit into a slot.
LEMMA BatchesAre ==
  ASSUME NEW n \in Prefixes, NEW c \in 1 .. Len(Objects(n))
  PROVE  /\ BatchEndAt(n, c) \in Nat /\ BatchEndAt(n, c) \in c .. Len(Objects(n))
         /\ BatchEndAt(n, c) - c < SlotFiles
         /\ \A i \in c .. BatchEndAt(n, c) :
              /\ i \in 1 .. Len(Objects(n))
              /\ Blocks(Objects(n)[i]) = Blocks(Objects(n)[c])
              /\ Blocks(Objects(n)[c]) # 1 => i = c
<1>1. /\ n \in Nat /\ n \in 1 .. Chunks /\ Chunks \in Nat /\ DataBlocks \in Nat \ {0}
      /\ SlotFiles \in Nat \ {0}
  BY TransferAssumption
<1>2. /\ Len(Objects(n)) \in Nat /\ Len(Objects(n)) \in n .. n + 1
      /\ c \in Nat
      /\ \A i \in 1 .. Len(Objects(n)) :
           Objects(n)[i] = IF i <= n THEN i ELSE Chunks + n
  BY <1>1, ObjectsAre
<1>3. CASE Objects(n)[c] > Chunks \/ DataBlocks > 1
  <2>1. BatchEndAt(n, c) = c
    BY <1>3 DEF BatchEndAt
  <2> QED  BY <1>1, <1>2, <2>1
<1>4. CASE ~(Objects(n)[c] > Chunks \/ DataBlocks > 1)
  <2>1. c <= n /\ DataBlocks = 1
    BY <1>1, <1>2, <1>4
  <2>2. BatchEndAt(n, c) = IF c + SlotFiles - 1 <= n THEN c + SlotFiles - 1 ELSE n
    BY <1>4 DEF BatchEndAt
  <2>3. BatchEndAt(n, c) \in c .. n /\ BatchEndAt(n, c) - c < SlotFiles
    BY <1>1, <1>2, <2>1, <2>2
  <2>4. \A i \in c .. BatchEndAt(n, c) : Blocks(Objects(n)[i]) = 1
    BY <1>1, <1>2, <2>1, <2>3 DEF Blocks
  <2> QED  BY <1>1, <1>2, <2>1, <2>3, <2>4
<1> QED  BY <1>3, <1>4

\* The batch of the commit in hand is one of those.
LEMMA BatchIs ==
  ASSUME mover.n \in Prefixes, mover.cursor \in 1 .. Len(Objects(mover.n))
  PROVE  /\ BatchEnd \in Nat /\ BatchEnd \in mover.cursor .. Len(Objects(mover.n))
         /\ BatchEnd - mover.cursor < SlotFiles
         /\ \A i \in Batch : /\ i \in 1 .. Len(Objects(mover.n))
                             /\ Blocks(Objects(mover.n)[i]) = Blocks(Objects(mover.n)[mover.cursor])
                             /\ Blocks(Objects(mover.n)[mover.cursor]) # 1 => i = mover.cursor
<1>1. BatchEnd = BatchEndAt(mover.n, mover.cursor)
  BY DEF BatchEnd, BatchEndAt
<1> QED  BY <1>1, BatchesAre DEF Batch

---------------------------------------------------------------------------
(* Which steps touch what.                                                 *)

\* The files, the markers and the offers.
LEMMA WhoChangesDisk ==
  ASSUME Next
  PROVE  \/ UNCHANGED disk
         \/ OpenView \/ Reject \/ Check \/ Verdict \/ Publish \/ PublishFails
         \/ Announce \/ Restart
         \/ \E k \in Keys : Evict(k) \/ Damage(k)
         \/ \E r \in Readers : ReaderView(r) \/ ReaderReject(r)
         \/ \E s \in Scrubbers : ScrubVerdict(s)
<1>1. CASE MoverStep
  <2>1. CASE Borrow \/ BorrowFails \/ Open \/ Place \/ PlaceFails \/ ReceiveFails
    BY <2>1 DEF disk, Borrow, BorrowFails, Open, Place, PlaceFails, ReceiveFails
  <2>2. CASE TouchFails \/ CopyFails \/ RecordUse \/ RecordUseFails \/ Drain \/ LeaveView
    BY <2>2 DEF disk, TouchFails, CopyFails, RecordUse, RecordUseFails, Drain, LeaveView
  <2>3. CASE Exit \/ TakeLock \/ BorrowCpu \/ Capture \/ CaptureFails
    BY <2>3 DEF disk, Exit, EndProcess, TakeLock, BorrowCpu, Capture, CaptureFails
  <2>4. CASE Captured \/ WriteBlock \/ Skip
    BY <2>4 DEF disk, Captured, WriteBlock, Skip
  <2> QED  BY <1>1, <2>1, <2>2, <2>3, <2>4 DEF MoverStep
<1>2. CASE \E n \in Prefixes : BeginRestore(n) \/ BeginCommit(n)
  BY <1>2 DEF disk, BeginRestore, BeginCommit
<1>3. CASE \E r \in Readers : ReaderStep(r) \/ \E n \in Prefixes : BeginRead(r, n)
  BY <1>3 DEF disk, ReaderStep, ReaderBorrow, Read, ReaderLeave, BeginRead
<1>4. CASE \E s \in Scrubbers : ScrubStep(s) \/ \E k \in Keys : BeginScrub(s, k)
  BY <1>4 DEF disk, ScrubStep, ScrubBorrow, BeginScrub
<1>5. CASE Gpu \/ BeginShutdown \/ CloseStep \/ Killed
  BY <1>5 DEF disk, Gpu, BeginShutdown, CloseStep, CloseSlot, CloseRaises, CloseStore,
              Killed, EndProcess
<1> QED  BY <1>1, <1>2, <1>3, <1>4, <1>5 DEF Next

\* The slots, the stream and the pages: vLLM's thread, the GPU and the shutdown.
LEMMA WhoChangesPool ==
  ASSUME Next
  PROVE  \/ UNCHANGED <<pool, placed>>
         \/ Borrow \/ BorrowFails \/ Place \/ PlaceFails \/ ReceiveFails
         \/ RecordUse \/ RecordUseFails \/ Drain \/ Exit
         \/ Capture \/ CaptureFails \/ Captured \/ CopyFails \/ WriteBlock
         \/ Publish \/ PublishFails
         \/ \E n \in Prefixes : BeginRestore(n) \/ BeginCommit(n)
         \/ Gpu \/ Killed \/ \E s \in 1 .. SlotCount : CloseSlot(s)
<1>1. CASE MoverStep
  <2>1. CASE OpenView \/ Open \/ TouchFails \/ Reject \/ LeaveView \/ TakeLock
    BY <2>1 DEF pool, OpenView, Open, TouchFails, Reject, LeaveView, TakeLock
  <2>2. CASE Check \/ BorrowCpu \/ Verdict \/ Announce \/ Skip
    BY <2>2 DEF pool, Check, BorrowCpu, Verdict, Announce, Skip
  <2> QED  BY <1>1, <2>1, <2>2 DEF MoverStep
<1>2. CASE \E r \in Readers : ReaderStep(r) \/ \E n \in Prefixes : BeginRead(r, n)
  BY <1>2 DEF pool, ReaderStep, ReaderView, ReaderBorrow, Read, ReaderReject,
              ReaderLeave, BeginRead
<1>3. CASE \E s \in Scrubbers : ScrubStep(s) \/ \E k \in Keys : BeginScrub(s, k)
  BY <1>3 DEF pool, ScrubStep, ScrubBorrow, ScrubVerdict, BeginScrub
<1>4. CASE BeginShutdown \/ CloseRaises \/ CloseStore \/ Restart
  BY <1>4 DEF pool, BeginShutdown, CloseRaises, CloseStore, Restart
<1>5. CASE \E k \in Keys : Evict(k) \/ Damage(k)
  BY <1>5 DEF pool, Evict, Damage
<1> QED  BY <1>1, <1>2, <1>3, <1>4, <1>5 DEF Next, CloseStep

\* The mover itself, whether the process runs, and the prefix in hand: nobody
\* else moves vLLM's thread, except for the end of the process.
LEMMA WhoMovesTheMover ==
  ASSUME Next
  PROVE  \/ UNCHANGED <<mover, worker>>
         \/ MoverStep
         \/ \E n \in Prefixes : BeginRestore(n) \/ BeginCommit(n)
         \/ Killed
         \/ UNCHANGED mover /\ mover.at = "idle" /\ worker = "running" /\ worker' = "closing"
         \/ UNCHANGED mover /\ worker = "closing" /\ worker' \in {"raised", "closed"}
         \/ Restart /\ UNCHANGED mover /\ worker = "dead" /\ worker' = "running"
<1>1. CASE \E r \in Readers : ReaderStep(r) \/ \E n \in Prefixes : BeginRead(r, n)
  BY <1>1 DEF ReaderStep, ReaderView, ReaderBorrow, Read, ReaderReject, ReaderLeave,
              BeginRead
<1>2. CASE \E s \in Scrubbers : ScrubStep(s) \/ \E k \in Keys : BeginScrub(s, k)
  BY <1>2 DEF ScrubStep, ScrubBorrow, ScrubVerdict, BeginScrub
<1>3. CASE Gpu \/ \E k \in Keys : Evict(k) \/ Damage(k)
  BY <1>3 DEF Gpu, Evict, Damage
<1>4. CASE BeginShutdown \/ CloseStep \/ Restart
  BY <1>4 DEF BeginShutdown, At, Running, CloseStep, CloseRaises, CloseStore, CloseSlot,
              Restart
<1> QED  BY <1>1, <1>2, <1>3, <1>4 DEF Next

\* The readers: their own steps and the end of the process.
LEMMA WhoMovesReaders ==
  ASSUME Next
  PROVE  \/ UNCHANGED reader
         \/ Exit \/ Killed
         \/ \E r \in Readers : ReaderStep(r) \/ \E n \in Prefixes : BeginRead(r, n)
<1>1. CASE MoverStep
  <2>1. CASE Borrow \/ BorrowFails \/ OpenView \/ Open \/ Place \/ PlaceFails \/ ReceiveFails
    BY <2>1 DEF others, Borrow, BorrowFails, OpenView, Open, Place, PlaceFails, ReceiveFails
  <2>2. CASE TouchFails \/ CopyFails \/ RecordUse \/ RecordUseFails \/ Reject \/ Drain
    BY <2>2 DEF others, TouchFails, CopyFails, RecordUse, RecordUseFails, Reject, Drain
  <2>3. CASE LeaveView \/ TakeLock \/ Check \/ BorrowCpu \/ Verdict \/ Capture
    BY <2>3 DEF others, LeaveView, TakeLock, Check, BorrowCpu, Verdict, Capture
  <2>4. CASE CaptureFails \/ Captured \/ WriteBlock \/ Publish \/ PublishFails \/ Announce \/ Skip
    BY <2>4 DEF others, CaptureFails, Captured, WriteBlock, Publish, PublishFails, Announce,
                Skip
  <2> QED  BY <1>1, <2>1, <2>2, <2>3, <2>4 DEF MoverStep
<1>2. CASE \E n \in Prefixes : BeginRestore(n) \/ BeginCommit(n)
  BY <1>2 DEF others, BeginRestore, BeginCommit
<1>3. CASE \E s \in Scrubbers : ScrubStep(s) \/ \E k \in Keys : BeginScrub(s, k)
  BY <1>3 DEF others, ScrubStep, ScrubBorrow, ScrubVerdict, BeginScrub
<1>4. CASE Gpu \/ BeginShutdown \/ CloseStep \/ Restart
  BY <1>4 DEF others, Gpu, BeginShutdown, CloseStep, CloseRaises, CloseStore, CloseSlot,
              Restart
<1>5. CASE \E k \in Keys : Evict(k) \/ Damage(k)
  BY <1>5 DEF others, Evict, Damage
<1> QED  BY <1>1, <1>2, <1>3, <1>4, <1>5 DEF Next

\* The lock, the store's slot and the scrubbers.
LEMMA WhoTakesTheLock ==
  ASSUME Next
  PROVE  \/ UNCHANGED <<lock, cpu, scrubbed>>
         \/ Exit \/ TakeLock \/ BorrowCpu \/ Verdict \/ Announce \/ Skip \/ Killed
         \/ \E r \in Readers : ReaderBorrow(r) \/ Read(r)
         \/ \E s \in Scrubbers : ScrubStep(s) \/ \E k \in Keys : BeginScrub(s, k)
<1>1. CASE MoverStep
  <2>1. CASE Borrow \/ BorrowFails \/ OpenView \/ Open \/ Place \/ PlaceFails \/ ReceiveFails
    BY <2>1 DEF others, Borrow, BorrowFails, OpenView, Open, Place, PlaceFails, ReceiveFails
  <2>2. CASE TouchFails \/ CopyFails \/ RecordUse \/ RecordUseFails \/ Reject \/ Drain
    BY <2>2 DEF others, TouchFails, CopyFails, RecordUse, RecordUseFails, Reject, Drain
  <2>3. CASE LeaveView \/ Check \/ Capture
    BY <2>3 DEF others, LeaveView, Check, Capture
  <2>4. CASE CaptureFails \/ Captured \/ WriteBlock \/ Publish \/ PublishFails
    BY <2>4 DEF others, CaptureFails, Captured, WriteBlock, Publish, PublishFails
  <2> QED  BY <1>1, <2>1, <2>2, <2>3, <2>4 DEF MoverStep
<1>2. CASE \E n \in Prefixes : BeginRestore(n) \/ BeginCommit(n)
  BY <1>2 DEF others, BeginRestore, BeginCommit
<1>3. CASE \E r \in Readers : ReaderStep(r) \/ \E n \in Prefixes : BeginRead(r, n)
  BY <1>3 DEF ReaderStep, ReaderView, ReaderReject, ReaderLeave, BeginRead
<1>4. CASE Gpu \/ BeginShutdown \/ CloseStep \/ Restart
  BY <1>4 DEF others, Gpu, BeginShutdown, CloseStep, CloseRaises, CloseStore, CloseSlot,
              Restart
<1>5. CASE \E k \in Keys : Evict(k) \/ Damage(k)
  BY <1>5 DEF others, Evict, Damage
<1> QED  BY <1>1, <1>2, <1>3, <1>4, <1>5 DEF Next

---------------------------------------------------------------------------
(* The lanes of a slot: a missing file's rank in its batch.                *)

\* The rank of a number in a finite set is its own, and every rank is taken.
LEMMA Ranks ==
  ASSUME NEW S \in SUBSET Nat, IsFiniteSet(S)
  PROVE  /\ Cardinality(S) \in Nat
         /\ \A i \in S : Cardinality({j \in S : j <= i}) \in 1 .. Cardinality(S)
         /\ \A i, k \in S :
              Cardinality({j \in S : j <= i}) = Cardinality({j \in S : j <= k}) => i = k
         /\ \A o \in 1 .. Cardinality(S) :
              \E i \in S : Cardinality({j \in S : j <= i}) = o
<1> DEFINE upto(i) == {j \in S : j <= i}
           f == [i \in S |-> Cardinality(upto(i))]
<1>1. Cardinality(S) \in Nat
  BY FS_CardinalityType
<1>2. ASSUME NEW i \in S
      PROVE  IsFiniteSet(upto(i)) /\ Cardinality(upto(i)) \in 1 .. Cardinality(S)
  <2>1. upto(i) \in SUBSET S /\ i \in upto(i)
    OBVIOUS
  <2>2. /\ IsFiniteSet(upto(i)) /\ Cardinality(upto(i)) <= Cardinality(S)
    BY <2>1, FS_Subset
  <2>3. Cardinality(upto(i)) \in Nat /\ Cardinality(upto(i)) # 0
    BY <2>1, <2>2, FS_CardinalityType, FS_EmptySet
  <2> QED  BY <1>1, <2>2, <2>3
<1>3. ASSUME NEW i \in S, NEW k \in S, i < k
      PROVE  Cardinality(upto(i)) # Cardinality(upto(k))
  <2>1. upto(i) \in SUBSET upto(k) /\ k \in upto(k) /\ k \notin upto(i)
    <3>1. i \in Nat /\ k \in Nat
      OBVIOUS
    <3>2. k \in upto(k) /\ k \notin upto(i)
      BY <1>3, <3>1
    <3>3. ASSUME NEW j \in upto(i)
          PROVE  j \in upto(k)
      <4>1. j \in S /\ j \in Nat /\ j <= i
        OBVIOUS
      <4> QED  BY <1>3, <3>1, <4>1
    <3> QED  BY <3>2, <3>3
  <2>2. IsFiniteSet(upto(k))
    BY <1>2
  <2> QED  BY <2>1, <2>2, FS_Subset
<1>4. ASSUME NEW i \in S, NEW k \in S, Cardinality(upto(i)) = Cardinality(upto(k))
      PROVE  i = k
  <2>1. i \in Nat /\ k \in Nat /\ ~(i < k) /\ ~(k < i)
    BY <1>3, <1>4
  <2> QED  BY <2>1
<1>5. f \in [S -> 1 .. Cardinality(S)]
  BY <1>2
<1>6. \A i, k \in S : f[i] = f[k] => i = k
  BY <1>4
<1>7. f \in Injection(S, 1 .. Cardinality(S))
  <2> HIDE DEF f
  <2> QED  BY <1>5, <1>6 DEF Injection, IsInjective
<1>8. /\ IsFiniteSet(1 .. Cardinality(S))
      /\ Cardinality(1 .. Cardinality(S)) = Cardinality(S)
  BY <1>1, FS_Interval
<1>9. f \in Surjection(S, 1 .. Cardinality(S))
  <2> HIDE DEF f
  <2> QED  BY <1>7, <1>8, FS_Injection
<1>10. \A o \in 1 .. Cardinality(S) : \E i \in S : f[i] = o
  <2> HIDE DEF f
  <2> QED  BY <1>9 DEF Surjection
<1> QED  BY <1>1, <1>2, <1>4, <1>10

\* What is missing in a batch fits into a slot, every file in its own lane.
LEMMA Offsets ==
  ASSUME MoverOK, mover.at # "idle", mover.task = "commit"
  PROVE  /\ mover.missing \in SUBSET Nat
         /\ Cardinality(mover.missing) \in Nat
         /\ Cardinality(mover.missing) <= SlotFiles
         /\ \A i \in mover.missing : Offset(i) \in 1 .. Cardinality(mover.missing)
         /\ \A i, k \in mover.missing : Offset(i) = Offset(k) => i = k
         /\ \A o \in 1 .. Cardinality(mover.missing) :
              /\ Lane(mover.missing, o) \in mover.missing
              /\ Offset(Lane(mover.missing, o)) = o
<1>1. /\ mover.n \in Prefixes /\ mover.cursor \in 1 .. Len(Objects(mover.n))
      /\ mover.cursor \in Nat /\ mover.missing \subseteq Batch
  <2>1. mover.next \in 1 .. Len(Objects(mover.n)) /\ mover.cursor \in 1 .. mover.next
    BY DEF MoverOK
  <2>2. Len(Objects(mover.n)) \in Nat
    BY MoverKey
  <2> QED  BY <2>1, <2>2 DEF MoverOK
<1>2. BatchEnd \in Nat /\ BatchEnd - mover.cursor < SlotFiles /\ BatchEnd >= mover.cursor
  BY <1>1, BatchIs
<1>3. /\ IsFiniteSet(mover.cursor .. BatchEnd)
      /\ Cardinality(mover.cursor .. BatchEnd) = BatchEnd - mover.cursor + 1
  BY <1>1, <1>2, FS_Interval
<1>4. mover.missing \in SUBSET (mover.cursor .. BatchEnd)
  BY <1>1 DEF Batch
<1>5. /\ IsFiniteSet(mover.missing)
      /\ Cardinality(mover.missing) <= Cardinality(mover.cursor .. BatchEnd)
  BY <1>3, <1>4, FS_Subset
<1>6. mover.missing \in SUBSET Nat
  BY <1>1, <1>2, <1>4
<1>7. Cardinality(mover.missing) \in Nat /\ Cardinality(mover.missing) <= SlotFiles
  <2>1. Cardinality(mover.missing) \in Nat /\ SlotFiles \in Nat
    BY <1>5, FS_CardinalityType, TransferAssumption
  <2> QED  BY <1>1, <1>2, <1>3, <1>5, <2>1
<1>8. /\ \A i \in mover.missing : Offset(i) \in 1 .. Cardinality(mover.missing)
      /\ \A i, k \in mover.missing : Offset(i) = Offset(k) => i = k
      /\ \A o \in 1 .. Cardinality(mover.missing) : \E i \in mover.missing : Offset(i) = o
  BY <1>5, <1>6, Ranks DEF Offset
<1>9. \A o : Lane(mover.missing, o) = CHOOSE j \in mover.missing : Offset(j) = o
  BY DEF Lane, Offset
<1> QED  BY <1>6, <1>7, <1>8, <1>9

\* The copies of a capture, one per lane.
LEMMA CopiesAre ==
  ASSUME MoverOK, mover.at = "copy", mover.slot \in Slots
  PROVE  /\ Copies \in Seq(Operation) /\ Len(Copies) \in Nat
         /\ \A i \in 1 .. Len(Copies) :
              /\ Copies[i].slot = mover.slot /\ Copies[i].kind = "d2h"
              /\ Copies[i].offset = i /\ i \in Lanes
              /\ Copies[i].unit = Wanted(i)
              /\ Wanted(i) \in UnitsOf(mover.n)
         /\ Lanes = 1 .. Len(Copies)
<1>1. mover.task = "commit" /\ mover.n \in Prefixes /\ mover.at # "idle"
  BY DEF MoverOK, RestoreSteps
<1>2. /\ Key \in Keys /\ Blocks(Key) \in Nat /\ mover.block \in 1 .. Blocks(Key)
      /\ mover.next \in 1 .. Len(Objects(mover.n))
  BY <1>1, MoverKey DEF MoverOK
<1>3. UnitsOf(mover.n) \subseteq Nat \X Nat
  BY <1>1, UnitsAre DEF Unit
<1>4. CASE Blocks(Key) > 1
  <2>1. Copies = <<Copy("d2h", mover.slot, 1, <<Key, mover.block>>)>>
    BY <1>4 DEF Copies
  <2>2. <<Key, mover.block>> \in UnitsOf(mover.n)
    BY <1>1, <1>2, UnitsAre DEF Key
  <2>3. Copy("d2h", mover.slot, 1, <<Key, mover.block>>) \in Operation
    BY <1>3, <2>2 DEF Copy, Operation, Unit
  <2> QED  BY <1>4, <2>1, <2>2, <2>3 DEF Lanes, Wanted, Copy
<1>5. CASE ~(Blocks(Key) > 1)
  <2> DEFINE c == Cardinality(mover.missing)
             lane(i) == Lane(mover.missing, i)
             op(i) == Copy("d2h", mover.slot, i, <<Objects(mover.n)[lane(i)], 1>>)
  <2>1. Copies = [i \in 1 .. c |-> op(i)] /\ c \in Nat
    <3>1. \A i : lane(i) = CHOOSE j \in mover.missing : Offset(j) = i
      BY DEF Lane, Offset
    <3> QED  BY <1>1, <1>5, <3>1, Offsets DEF Copies
  <2>2. ASSUME NEW i \in 1 .. c
        PROVE  <<Objects(mover.n)[lane(i)], 1>> \in UnitsOf(mover.n)
    <3>1. lane(i) \in mover.missing
      BY <1>1, Offsets
    <3>2. mover.missing \subseteq Batch /\ mover.cursor \in 1 .. Len(Objects(mover.n))
      <4>1. mover.cursor \in 1 .. mover.next /\ Len(Objects(mover.n)) \in Nat
        BY <1>1, MoverKey DEF MoverOK
      <4> QED  BY <1>1, <1>2, <4>1 DEF MoverOK
    <3>3. lane(i) \in 1 .. Len(Objects(mover.n))
      BY <1>1, <3>1, <3>2, BatchIs
    <3>4. Blocks(Objects(mover.n)[lane(i)]) \in Nat \ {0}
      BY <1>1, <3>3, FilesAre
    <3>5. 1 \in 1 .. Blocks(Objects(mover.n)[lane(i)])
      BY <3>4
    <3> HIDE DEF lane
    <3> QED  BY <1>1, <3>3, <3>5, UnitsAre
  <2>3. ASSUME NEW i \in 1 .. c
        PROVE  /\ op(i) \in Operation /\ op(i).slot = mover.slot /\ op(i).kind = "d2h"
               /\ op(i).offset = i /\ op(i).unit = <<Objects(mover.n)[lane(i)], 1>>
    <3>1. i \in Nat
      BY <2>1
    <3> HIDE DEF lane, c
    <3> QED  BY <1>3, <2>2, <3>1 DEF Copy, Operation, Unit
  <2>4. \A i \in 1 .. c : Wanted(i) = <<Objects(mover.n)[lane(i)], 1>>
    BY <1>5 DEF Wanted
  <2>5. Lanes = 1 .. c
    BY <1>5 DEF Lanes
  <2> HIDE DEF op, c, lane
  <2>6. Copies \in Seq(Operation) /\ Len(Copies) = c
    BY <2>1, <2>3
  <2>7. \A i \in 1 .. c : Copies[i] = op(i)
    BY <2>1
  <2>8. ASSUME NEW i \in 1 .. Len(Copies)
        PROVE  /\ Copies[i].slot = mover.slot /\ Copies[i].kind = "d2h"
               /\ Copies[i].offset = i /\ i \in Lanes
               /\ Copies[i].unit = Wanted(i)
               /\ Wanted(i) \in UnitsOf(mover.n)
    <3>1. i \in 1 .. c
      BY <2>6
    <3> QED  BY <2>2, <2>3, <2>4, <2>5, <2>7, <3>1
  <2> QED  BY <2>1, <2>5, <2>6, <2>8
<1> QED  BY <1>4, <1>5

---------------------------------------------------------------------------
(* Types and positions.                                                    *)

\* A step that leaves the mover at its place of the prefix.
LEMMA SamePlace ==
  ASSUME MoverOK, mover.at # "idle", mover' \in MoverRecord,
         mover'.n = mover.n, mover'.next = mover.next, mover'.cursor = mover.cursor,
         mover'.block = mover.block, mover'.missing = mover.missing,
         mover'.task = mover.task,
         mover.task = "restore" => mover'.at \in RestoreSteps,
         mover.task = "commit" => mover'.at \in LockedSteps \cup {"lock"},
         mover'.at = "reject" => mover'.failed # 0,
         mover'.good => mover'.failed = 0
  PROVE  MoverOK'
<1>1. Key' = Key /\ BatchEnd' = BatchEnd /\ Batch' = Batch
  BY DEF Key, BatchEnd, Batch
<1>2. mover'.at # "idle"
  BY DEF MoverOK, RestoreSteps, LockedSteps
<1>3. /\ mover'.next \in 1 .. Len(Objects(mover'.n)) /\ mover'.cursor \in 1 .. mover'.next
      /\ mover'.n \in Prefixes /\ mover'.block \in 1 .. Blocks(Key')
  BY <1>1 DEF MoverOK
<1>4. \/ mover'.task = "restore" /\ mover'.at \in RestoreSteps
      \/ /\ mover'.task = "commit" /\ mover'.at \in LockedSteps \cup {"lock"}
         /\ mover'.next \in Batch' /\ mover'.missing \subseteq Batch'
  BY <1>1 DEF MoverOK
<1> QED  BY <1>2, <1>3, <1>4 DEF MoverOK

\* A thread that is done with its transfer is at rest.
LEMMA IdleTyped ==
  ASSUME mover' = IdleMover
  PROVE  MoverOK'
<1>1. /\ IdleMover \in MoverRecord /\ IdleMover.at = "idle"
      /\ IdleMover.failed = 0
  BY DEF IdleMover, MoverRecord, Steps
<1> QED  BY <1>1 DEF MoverOK

\* The end of a batch leads to the first file of the next one.
LEMMA NextBatchTyped ==
  ASSUME MoverOK, mover.at # "idle", mover.task = "commit",
         NEW m \in {mover, Released(mover)}, mover' = NextBatch(m)
  PROVE  MoverOK'
<1>1. /\ mover.n \in Prefixes /\ mover.next \in Nat /\ mover.cursor \in Nat
      /\ Len(Objects(mover.n)) \in Nat
  BY MoverKey
<1>2. mover.cursor \in 1 .. Len(Objects(mover.n)) /\ mover \in MoverRecord
  BY <1>1 DEF MoverOK
<1>3. BatchEnd \in Nat /\ BatchEnd \in mover.cursor .. Len(Objects(mover.n))
  BY <1>1, <1>2, BatchIs
<1>4. /\ m \in MoverRecord /\ m.n = mover.n /\ m.next = mover.next /\ m.cursor = mover.cursor
      /\ m.block = mover.block /\ m.missing = mover.missing /\ m.task = mover.task
      /\ m.failed = mover.failed /\ m.good = mover.good
      /\ mover.good => mover.failed = 0
  BY <1>2 DEF MoverOK, Released, MoverRecord
<1>5. CASE BatchEnd < Len(Objects(mover.n))
  <2>1. mover' = [m EXCEPT !.cursor = BatchEnd + 1, !.next = BatchEnd + 1, !.block = 1,
                           !.missing = {}, !.at = "check"]
    BY <1>4, <1>5 DEF NextBatch
  <2>2. /\ mover' \in MoverRecord /\ mover'.n = mover.n /\ mover'.next = BatchEnd + 1
        /\ mover'.cursor = BatchEnd + 1 /\ mover'.block = 1 /\ mover'.missing = {}
        /\ mover'.task = "commit" /\ mover'.at = "check"
        /\ mover'.good = mover.good /\ mover'.failed = mover.failed
    <3>1. BatchEnd + 1 \in Nat /\ {} \subseteq Nat /\ "check" \in Steps
      BY <1>3 DEF Steps, LockedSteps
    <3>2. PICK x \in Nat, b \in Nat, s \in SUBSET Nat :
            mover' = [m EXCEPT !.cursor = x, !.next = x, !.block = b, !.missing = s, !.at = "check"]
      BY <2>1, <3>1
    <3>3. mover' \in MoverRecord
      BY <1>4, <3>1, <3>2 DEF MoverRecord
    <3> QED  BY <1>2, <1>4, <2>1, <3>3 DEF MoverRecord
  <2>3. mover'.next \in 1 .. Len(Objects(mover'.n)) /\ mover'.cursor \in 1 .. mover'.next
    BY <1>1, <1>3, <1>5, <2>2
  <2>4. Blocks(Key') \in Nat \ {0} /\ mover'.block \in 1 .. Blocks(Key')
    <3>1. Blocks(Objects(mover.n)[BatchEnd + 1]) \in Nat \ {0}
      BY <1>1, <2>2, <2>3, FilesAre
    <3> QED  BY <2>2, <3>1 DEF Key
  <2>5. mover'.next \in Batch'
    <3>1. BatchEnd' = BatchEndAt(mover.n, BatchEnd + 1)
      BY <2>2 DEF BatchEnd, BatchEndAt
    <3>2. BatchEnd' \in BatchEnd + 1 .. Len(Objects(mover.n))
      BY <1>1, <2>2, <2>3, <3>1, BatchesAre
    <3> QED  BY <1>3, <2>2, <3>2 DEF Batch
  <2> QED  BY <1>1, <1>4, <2>2, <2>3, <2>4, <2>5 DEF MoverOK, LockedSteps
<1>6. CASE ~(BatchEnd < Len(Objects(mover.n)))
  <2>1. mover' = [m EXCEPT !.at = "announce"]
    BY <1>4, <1>6 DEF NextBatch
  <2>2. /\ mover' \in MoverRecord /\ mover'.n = mover.n /\ mover'.next = mover.next
        /\ mover'.cursor = mover.cursor /\ mover'.block = mover.block
        /\ mover'.missing = mover.missing /\ mover'.task = mover.task
        /\ mover'.at = "announce" /\ mover'.good = mover.good
        /\ mover'.failed = mover.failed
    BY <1>4, <2>1 DEF MoverRecord, Steps, LockedSteps
  <2> QED  BY <1>4, <2>2, SamePlace DEF LockedSteps
<1> QED  BY <1>5, <1>6

\* After a check the commit goes on inside the batch, to the next batch, or to the
\* first file that is missing.
LEMMA CheckedTyped ==
  ASSUME MoverOK, mover.at \in {"check", "verdict"},
         NEW m \in {mover.missing, mover.missing \cup {mover.next}}, mover' = Checked(m)
  PROVE  MoverOK'
<1>1. /\ mover.n \in Prefixes /\ mover.next \in Nat /\ mover.cursor \in Nat
      /\ Len(Objects(mover.n)) \in Nat /\ mover.at # "idle" /\ Blocks(Key) \in Nat
  BY MoverKey
<1>2. /\ mover.cursor \in 1 .. Len(Objects(mover.n)) /\ mover \in MoverRecord
      /\ mover.task = "commit" /\ mover.next \in Batch /\ mover.missing \subseteq Batch
      /\ mover.block \in 1 .. Blocks(Key) /\ (mover.good => mover.failed = 0)
  BY <1>1 DEF MoverOK, RestoreSteps
<1>3. /\ BatchEnd \in Nat /\ BatchEnd \in mover.cursor .. Len(Objects(mover.n))
      /\ \A i \in Batch : /\ i \in 1 .. Len(Objects(mover.n))
                          /\ Blocks(Objects(mover.n)[i]) = Blocks(Objects(mover.n)[mover.cursor])
  BY <1>1, <1>2, BatchIs
<1>4. m \subseteq Batch /\ Batch \subseteq Nat /\ m \in SUBSET Nat
  BY <1>1, <1>2, <1>3 DEF Batch
<1>5. \A i \in Batch : /\ i \in Nat /\ mover.cursor \in 1 .. i
                       /\ Blocks(Objects(mover.n)[i]) = Blocks(Key)
  <2>1. Blocks(Key) = Blocks(Objects(mover.n)[mover.cursor])
    BY <1>2, <1>3 DEF Key
  <2> QED  BY <1>1, <1>2, <1>3, <2>1 DEF Batch
<1>6. CASE mover.next < BatchEnd
  <2>1. mover' = [mover EXCEPT !.missing = m, !.next = mover.next + 1, !.at = "check"]
    BY <1>6 DEF Checked
  <2>2. "check" \in Steps /\ mover.next + 1 \in Nat
    BY <1>1 DEF Steps, LockedSteps
  <2>3. mover' \in MoverRecord
    <3>1. PICK x \in Nat, s \in SUBSET Nat :
            mover' = [mover EXCEPT !.missing = s, !.next = x, !.at = "check"]
      BY <1>4, <2>1, <2>2
    <3> QED  BY <1>2, <2>2, <3>1 DEF MoverRecord
  <2>4. /\ mover'.n = mover.n /\ mover'.next = mover.next + 1
        /\ mover'.cursor = mover.cursor /\ mover'.block = mover.block /\ mover'.missing = m
        /\ mover'.task = "commit" /\ mover'.at = "check"
        /\ mover'.good = mover.good /\ mover'.failed = mover.failed
    BY <1>2, <2>1 DEF MoverRecord
  <2>5. BatchEnd' = BatchEnd /\ Batch' = Batch
    BY <2>4 DEF BatchEnd, Batch
  <2>6. mover.next + 1 \in Batch
    BY <1>1, <1>2, <1>3, <1>6 DEF Batch
  <2>7. mover'.block \in 1 .. Blocks(Key')
    BY <1>2, <1>5, <2>4, <2>6 DEF Key
  <2> QED  BY <1>1, <1>2, <1>3, <1>4, <1>5, <2>3, <2>4, <2>5, <2>6, <2>7 DEF MoverOK, LockedSteps
<1>7. CASE ~(mover.next < BatchEnd) /\ m = {}
  <2>1. mover' = NextBatch(mover)
    BY <1>7 DEF Checked
  <2> QED  BY <1>1, <1>2, <2>1, NextBatchTyped
<1>8. CASE ~(mover.next < BatchEnd) /\ m # {}
  <2>1. PICK step \in {"skip", "get"} :
          mover' = [mover EXCEPT !.missing = m, !.block = 1, !.right = TRUE,
                                 !.next = Min(m), !.at = step]
    BY <1>8 DEF Checked
  <2>2. Min(m) \in m /\ Min(m) \in Batch /\ Min(m) \in Nat
    BY <1>4, <1>8, LeastOf
  <2>3. step \in Steps /\ step \in LockedSteps
    BY DEF Steps, LockedSteps
  <2>4. mover' \in MoverRecord
    <3>1. PICK x \in Nat, b \in Nat, w \in BOOLEAN, s \in SUBSET Nat :
            mover' = [mover EXCEPT !.missing = s, !.block = b, !.right = w, !.next = x,
                                   !.at = step]
      BY <1>4, <2>1, <2>2
    <3> QED  BY <1>2, <2>3, <3>1 DEF MoverRecord
  <2>5. /\ mover'.n = mover.n /\ mover'.next = Min(m)
        /\ mover'.cursor = mover.cursor /\ mover'.block = 1 /\ mover'.missing = m
        /\ mover'.task = "commit" /\ mover'.at = step
        /\ mover'.good = mover.good /\ mover'.failed = mover.failed
    BY <1>2, <2>1 DEF MoverRecord
  <2>6. BatchEnd' = BatchEnd /\ Batch' = Batch
    BY <2>5 DEF BatchEnd, Batch
  <2>7. mover'.block \in 1 .. Blocks(Key')
    <3>1. Blocks(Objects(mover.n)[Min(m)]) = Blocks(Key) /\ Blocks(Key) # 0
      BY <1>1, <1>2, <1>5, <2>2
    <3> QED  BY <1>1, <2>5, <3>1 DEF Key
  <2> QED  BY <1>1, <1>2, <1>3, <1>4, <1>5, <2>2, <2>3, <2>4, <2>5, <2>6, <2>7
           DEF MoverOK, LockedSteps
<1> QED  BY <1>6, <1>7, <1>8

\* The steps of a restore and of a commit.
LEMMA StepsAre ==
  /\ {"place", "record", "drain", "reject", "leave", "exit", "view", "open"}
       \subseteq RestoreSteps \ LockedSteps
  /\ {"copy", "skip", "wait", "write", "publish", "check", "authenticate", "verdict",
       "announce"} \subseteq LockedSteps \ RestoreSteps
  /\ "get" \in RestoreSteps /\ "get" \in LockedSteps
  /\ RestoreSteps \subseteq Steps /\ LockedSteps \subseteq Steps
  /\ "lock" \in Steps /\ "lock" \notin RestoreSteps /\ "lock" \notin LockedSteps
  /\ "idle" \notin RestoreSteps /\ "idle" \notin LockedSteps
BY DEF RestoreSteps, LockedSteps, Steps

\* The step tells the task.
LEMMA TaskIs ==
  ASSUME MoverOK
  PROVE  /\ mover.at \in RestoreSteps \ LockedSteps => mover.task = "restore"
         /\ mover.at \in (LockedSteps \ RestoreSteps) \cup {"lock"} => mover.task = "commit"
         /\ mover.at # "idle" <=> mover.task # "none"
         /\ mover.task \in {"none", "restore", "commit"}
         /\ mover.at \in Steps
BY StepsAre DEF MoverOK, MoverRecord, IdleMover

\* Every step of vLLM's thread leaves the mover somewhere in its prefix.
LEMMA MoverStepTyped ==
  ASSUME TypeOK, MoverStep
  PROVE  MoverOK'
<1>1. MoverOK /\ mover \in MoverRecord /\ PoolOK /\ (mover.good => mover.failed = 0)
  BY DEF TypeOK, MoverOK

<1>2. CASE Borrow
  <2>1. mover.at = "get" /\ mover.at # "idle" /\ Head(available) \in Slots
    BY <1>1, <1>2 DEF Borrow, At, PoolOK
  <2>2. PICK s \in Slots \cup {0}, step \in {"place", "copy"} :
          /\ mover' = [mover EXCEPT !.slot = s, !.at = step]
          /\ mover.task = "restore" <=> step = "place"
    BY <1>2, <2>1 DEF Borrow
  <2>3. mover' \in MoverRecord
    BY <1>1, <2>2, StepsAre DEF MoverRecord
  <2> QED  BY <1>1, <2>1, <2>2, <2>3, StepsAre, SamePlace DEF MoverRecord

<1>3. CASE BorrowFails
  <2>1. mover.at = "get" /\ mover.at # "idle"
    BY <1>3 DEF BorrowFails, At
  <2>2. PICK step \in {"drain", "skip"} :
          /\ mover' = [mover EXCEPT !.good = FALSE, !.at = step]
          /\ mover.task = "restore" <=> step = "drain"
    BY <1>3 DEF BorrowFails
  <2>3. mover' \in MoverRecord
    BY <1>1, <2>2, StepsAre DEF MoverRecord
  <2> QED  BY <1>1, <2>1, <2>2, <2>3, StepsAre, SamePlace DEF MoverRecord

<1>4. CASE OpenView
  <2>1. mover.at # "idle" /\ mover.task = "restore"
    BY <1>1, <1>4, StepsAre, TaskIs DEF OpenView, At
  <2>2. KeysOf(mover.n) \in SUBSET Keys
    BY <1>1, <2>1 DEF MoverOK, Keys
  <2>3. CASE Obstacle(mover.n) = 0
    <3>1. PICK p \in SUBSET Keys, step \in {"open", "get"} :
            mover' = [mover EXCEPT !.pins = p, !.at = step]
      BY <1>4, <2>2, <2>3 DEF OpenView, FirstStep
    <3>2. mover' \in MoverRecord
      BY <1>1, <3>1, StepsAre DEF MoverRecord
    <3> QED  BY <1>1, <2>1, <3>1, <3>2, StepsAre, SamePlace DEF MoverRecord
  <2>4. CASE Obstacle(mover.n) # 0
    <3>1. PICK step \in {"leave"} : mover' = [mover EXCEPT !.good = FALSE, !.at = step]
      BY <1>4, <2>4 DEF OpenView
    <3>2. mover' \in MoverRecord
      BY <1>1, <3>1, StepsAre DEF MoverRecord
    <3> QED  BY <1>1, <2>1, <3>1, <3>2, StepsAre, SamePlace DEF MoverRecord
  <2> QED  BY <2>3, <2>4

<1>5. CASE Open
  <2>1. mover.at # "idle" /\ mover.task = "restore" /\ Key \in Keys /\ Key # 0
    BY <1>1, <1>5, StepsAre, TaskIs, MoverKey, KeysAre DEF Open, At
  <2>2. CASE Readable(Key)
    <3>1. PICK step \in {"get"} : mover' = [mover EXCEPT !.at = step]
      BY <1>5, <2>2 DEF Open
    <3>2. mover' \in MoverRecord
      BY <1>1, <3>1, StepsAre DEF MoverRecord
    <3> QED  BY <1>1, <2>1, <3>1, <3>2, StepsAre, SamePlace DEF MoverRecord
  <2>3. CASE ~Readable(Key)
    <3>1. PICK f \in Keys \cup {0} :
            mover' = [mover EXCEPT !.good = FALSE, !.failed = f, !.at = "reject"] /\ f # 0
      BY <1>5, <2>1, <2>3 DEF Open
    <3>2. mover' \in MoverRecord
      BY <1>1, <3>1, StepsAre DEF MoverRecord
    <3> QED  BY <1>1, <2>1, <3>1, <3>2, StepsAre, SamePlace DEF MoverRecord
  <2> QED  BY <2>2, <2>3

<1>6. CASE PlaceFails
  <2>0. Key \in Keys
    BY <1>1, <1>6, MoverKey DEF PlaceFails, At
  <2>1. mover.at # "idle" /\ mover.task = "restore"
    BY <1>1, <1>6, StepsAre, TaskIs DEF PlaceFails, At
  <2>2. PICK f \in Keys \cup {0} :
          mover' = [mover EXCEPT !.good = FALSE, !.failed = f, !.at = "record"]
    BY <1>1, <1>6, <2>1, <2>0 DEF PlaceFails, At
  <2>3. mover' \in MoverRecord
    BY <1>1, <2>2, StepsAre DEF MoverRecord
  <2> QED  BY <1>1, <2>1, <2>2, <2>3, StepsAre, SamePlace DEF MoverRecord

<1>7. CASE ReceiveFails
  <2>1. mover.at # "idle" /\ mover.task = "restore"
    BY <1>1, <1>7, StepsAre, TaskIs DEF ReceiveFails, At
  <2>2. PICK step \in {"record"} :
          mover' = [mover EXCEPT !.good = FALSE, !.at = step]
    BY <1>1, <1>7, <2>1 DEF ReceiveFails, At
  <2>3. mover' \in MoverRecord
    BY <1>1, <2>2, StepsAre DEF MoverRecord
  <2> QED  BY <1>1, <2>1, <2>2, <2>3, StepsAre, SamePlace DEF MoverRecord

<1>8. CASE RecordUseFails
  <2>1. mover.at # "idle" /\ mover.task = "restore"
    BY <1>1, <1>8, StepsAre, TaskIs DEF RecordUseFails, At
  <2>2. PICK s \in Slots \cup {0}, step \in {"reject", "drain"} :
          /\ mover' = [mover EXCEPT !.slot = s, !.good = FALSE, !.at = step]
          /\ step = "reject" => mover.failed # 0
    BY <1>1, <1>8, <2>1 DEF RecordUseFails, At, Released, MoverRecord
  <2>3. mover' \in MoverRecord
    BY <1>1, <2>2, StepsAre DEF MoverRecord
  <2> QED  BY <1>1, <2>1, <2>2, <2>3, StepsAre, SamePlace DEF MoverRecord

<1>9. CASE Reject
  <2>1. mover.at # "idle" /\ mover.task = "restore"
    BY <1>1, <1>9, StepsAre, TaskIs DEF Reject, At
  <2>2. PICK step \in {"drain"} :
          mover' = [mover EXCEPT !.at = step]
    BY <1>1, <1>9, <2>1 DEF Reject, At, Goto
  <2>3. mover' \in MoverRecord
    BY <1>1, <2>2, StepsAre DEF MoverRecord
  <2> QED  BY <1>1, <2>1, <2>2, <2>3, StepsAre, SamePlace DEF MoverRecord

<1>10. CASE Drain
  <2>1. mover.at # "idle" /\ mover.task = "restore"
    BY <1>1, <1>10, StepsAre, TaskIs DEF Drain, At
  <2>2. PICK step \in {"leave"} :
          mover' = [mover EXCEPT !.at = step]
    BY <1>1, <1>10, <2>1 DEF Drain, At, Goto
  <2>3. mover' \in MoverRecord
    BY <1>1, <2>2, StepsAre DEF MoverRecord
  <2> QED  BY <1>1, <2>1, <2>2, <2>3, StepsAre, SamePlace DEF MoverRecord

<1>11. CASE LeaveView
  <2>1. CASE mover.good
    BY <1>11, <2>1, IdleTyped DEF LeaveView
  <2>2. CASE ~mover.good
    <3>1. mover.at # "idle" /\ mover.task = "restore"
      BY <1>1, <1>11, StepsAre, TaskIs DEF LeaveView, At
    <3>2. PICK p \in SUBSET Keys : mover' = [mover EXCEPT !.pins = p, !.at = "exit"]
      BY <1>11, <2>2 DEF LeaveView
    <3>3. mover' \in MoverRecord
      BY <1>1, <3>2, StepsAre DEF MoverRecord
    <3> QED  BY <1>1, <3>1, <3>2, <3>3, StepsAre, SamePlace DEF MoverRecord
  <2> QED  BY <2>1, <2>2

<1>12. CASE Exit
  BY <1>12, IdleTyped DEF Exit, EndProcess

<1>13. CASE TouchFails
  <2>1. CASE mover.at = "leave"
    <3>1. mover' = [mover EXCEPT !.good = FALSE]
      BY <1>13, <2>1 DEF TouchFails, At
    <3>2. mover' \in MoverRecord /\ mover.at # "idle" /\ mover.task = "restore"
      BY <1>1, <2>1, <3>1, StepsAre, TaskIs DEF MoverRecord
    <3> QED  BY <1>1, <2>1, <3>1, <3>2, StepsAre, SamePlace DEF MoverRecord
  <2>2. CASE mover.at = "announce"
    <3>1. PICK step \in {"skip"} : mover' = [mover EXCEPT !.at = step]
      BY <1>13, <2>2 DEF TouchFails, At, Goto
    <3>2. mover' \in MoverRecord /\ mover.at # "idle" /\ mover.task = "commit"
      BY <1>1, <2>2, <3>1, StepsAre, TaskIs DEF MoverRecord
    <3> QED  BY <1>1, <2>2, <3>1, <3>2, StepsAre, SamePlace DEF MoverRecord
  <2> QED  BY <1>13, <2>1, <2>2 DEF TouchFails, At

<1>14. CASE TakeLock
  <2>1. mover.at # "idle" /\ mover.task = "commit"
    BY <1>1, <1>14, StepsAre, TaskIs DEF TakeLock, At
  <2>2. PICK step \in {"check"} :
          mover' = [mover EXCEPT !.at = step]
    BY <1>1, <1>14, <2>1 DEF TakeLock, At, Goto
  <2>3. mover' \in MoverRecord
    BY <1>1, <2>2, StepsAre DEF MoverRecord
  <2> QED  BY <1>1, <2>1, <2>2, <2>3, StepsAre, SamePlace DEF MoverRecord

<1>15. CASE BorrowCpu
  <2>1. mover.at # "idle" /\ mover.task = "commit"
    BY <1>1, <1>15, StepsAre, TaskIs DEF BorrowCpu, At
  <2>2. PICK step \in {"verdict"} :
          mover' = [mover EXCEPT !.at = step]
    BY <1>1, <1>15, <2>1 DEF BorrowCpu, At, Goto
  <2>3. mover' \in MoverRecord
    BY <1>1, <2>2, StepsAre DEF MoverRecord
  <2> QED  BY <1>1, <2>1, <2>2, <2>3, StepsAre, SamePlace DEF MoverRecord

<1>16. CASE Capture
  <2>1. mover.at # "idle" /\ mover.task = "commit"
    BY <1>1, <1>16, StepsAre, TaskIs DEF Capture, At
  <2>2. PICK step \in {"wait"} :
          mover' = [mover EXCEPT !.at = step]
    BY <1>1, <1>16, <2>1 DEF Capture, At, Goto
  <2>3. mover' \in MoverRecord
    BY <1>1, <2>2, StepsAre DEF MoverRecord
  <2> QED  BY <1>1, <2>1, <2>2, <2>3, StepsAre, SamePlace DEF MoverRecord

<1>17. CASE Captured
  <2>1. mover.at # "idle" /\ mover.task = "commit"
    BY <1>1, <1>17, StepsAre, TaskIs DEF Captured, At
  <2>2. PICK step \in {"write", "publish"} :
          mover' = [mover EXCEPT !.at = step]
    BY <1>1, <1>17, <2>1 DEF Captured, At, Goto
  <2>3. mover' \in MoverRecord
    BY <1>1, <2>2, StepsAre DEF MoverRecord
  <2> QED  BY <1>1, <2>1, <2>2, <2>3, StepsAre, SamePlace DEF MoverRecord

<1>18. CASE CaptureFails
  <2>1. mover.at # "idle" /\ mover.task = "commit"
    BY <1>1, <1>18, StepsAre, TaskIs DEF CaptureFails, At
  <2>2. PICK s \in Slots \cup {0}, step \in {"skip"} :
          mover' = [mover EXCEPT !.slot = s, !.at = step]
    BY <1>1, <1>18, <2>1 DEF CaptureFails, At, Released, MoverRecord
  <2>3. mover' \in MoverRecord
    BY <1>1, <2>2, StepsAre DEF MoverRecord
  <2> QED  BY <1>1, <2>1, <2>2, <2>3, StepsAre, SamePlace DEF MoverRecord

<1>19. CASE CopyFails
  <2>1. mover.at # "idle" /\ mover.task = "commit"
    BY <1>1, <1>19, StepsAre, TaskIs DEF CopyFails, At
  <2>2. PICK s \in Slots \cup {0}, step \in {"skip"} :
          mover' = [mover EXCEPT !.slot = s, !.at = step]
    BY <1>1, <1>19, <2>1 DEF CopyFails, At, Released, MoverRecord
  <2>3. mover' \in MoverRecord
    BY <1>1, <2>2, StepsAre DEF MoverRecord
  <2> QED  BY <1>1, <2>1, <2>2, <2>3, StepsAre, SamePlace DEF MoverRecord

<1>20. CASE PublishFails
  <2>1. mover.at # "idle" /\ mover.task = "commit"
    BY <1>1, <1>20, StepsAre, TaskIs DEF PublishFails, At
  <2>2. PICK s \in Slots \cup {0}, step \in {"skip"} :
          mover' = [mover EXCEPT !.slot = s, !.at = step]
    BY <1>1, <1>20, <2>1 DEF PublishFails, At, Released, MoverRecord
  <2>3. mover' \in MoverRecord
    BY <1>1, <2>2, StepsAre DEF MoverRecord
  <2> QED  BY <1>1, <2>1, <2>2, <2>3, StepsAre, SamePlace DEF MoverRecord

<1>21. CASE Check
  <2>1. mover.at = "check" /\ mover.at # "idle" /\ mover.task = "commit"
    BY <1>1, <1>21, StepsAre, TaskIs DEF Check, At
  <2>2. CASE mover' = [mover EXCEPT !.at = "authenticate"]
    <3>1. mover' \in MoverRecord
      BY <1>1, <2>2, StepsAre DEF MoverRecord
    <3> QED  BY <1>1, <2>1, <2>2, <3>1, StepsAre, SamePlace DEF MoverRecord
  <2>3. CASE mover' = Checked(mover.missing \cup {mover.next})
    BY <1>1, <2>1, <2>3, CheckedTyped
  <2> QED  BY <1>21, <2>2, <2>3 DEF Check, Goto

<1>22. CASE Verdict
  <2>1. mover.at = "verdict"
    BY <1>22 DEF Verdict, At
  <2> QED  BY <1>1, <1>22, <2>1, CheckedTyped DEF Verdict

<1>23. CASE Announce
  BY <1>23, IdleTyped DEF Announce

<1>24. CASE Skip
  BY <1>24, IdleTyped DEF Skip

<1>25. CASE Place
  <2>1. /\ mover.at = "place" /\ mover.at # "idle" /\ mover.task = "restore"
    BY <1>1, <1>25, StepsAre, TaskIs DEF Place, At
  <2>2. CASE SameBatch
    <3>1. /\ mover.next \in Nat /\ mover.cursor \in Nat /\ mover.block \in Nat
          /\ Len(Objects(mover.n)) \in Nat /\ mover.n \in Prefixes
      BY <1>1, <2>1, MoverKey
    <3>2. PICK x \in Nat : x = mover.next + 1
      BY <3>1
    <3>3. mover' = [mover EXCEPT !.next = x]
      BY <1>25, <2>2, <3>2 DEF Place
    <3>4. mover' \in MoverRecord
      BY <1>1, <3>3 DEF MoverRecord
    <3>5. /\ mover'.at = mover.at /\ mover'.task = mover.task /\ mover'.n = mover.n
          /\ mover'.next = mover.next + 1 /\ mover'.cursor = mover.cursor
          /\ mover'.block = mover.block /\ mover'.good = mover.good
          /\ mover'.failed = mover.failed
      BY <1>1, <3>2, <3>3 DEF MoverRecord
    <3>6. /\ mover.next < Len(Objects(mover.n)) /\ Blocks(Objects(mover.n)[mover.next + 1]) = 1
          /\ Blocks(Key) = 1
      BY <2>2 DEF SameBatch, Key
    <3>7. /\ mover.cursor \in 1 .. mover.next /\ mover.next \in 1 .. Len(Objects(mover.n))
          /\ mover.block = 1
      BY <1>1, <2>1, <3>1, <3>6 DEF MoverOK
    <3>8. mover'.block \in 1 .. Blocks(Key')
      BY <3>5, <3>6, <3>7 DEF Key
    <3> QED  BY <1>1, <2>1, <3>1, <3>4, <3>5, <3>6, <3>7, <3>8, StepsAre DEF MoverOK
  <2>3. CASE ~SameBatch
    <3>1. PICK step \in {"record"} : mover' = [mover EXCEPT !.at = step]
      BY <1>25, <2>3 DEF Place
    <3>2. mover' \in MoverRecord
      BY <1>1, <3>1, StepsAre DEF MoverRecord
    <3> QED  BY <1>1, <2>1, <3>1, <3>2, StepsAre, SamePlace DEF MoverRecord
  <2> QED  BY <2>2, <2>3

<1>26. CASE RecordUse
  <2>1. /\ mover.at = "record" /\ mover.at # "idle" /\ mover.task = "restore"
        /\ mover' = Released(AfterBatch)
    BY <1>1, <1>26, StepsAre, TaskIs DEF RecordUse, At
  <2>2. /\ mover.next \in Nat /\ mover.cursor \in Nat /\ mover.block \in Nat
        /\ Len(Objects(mover.n)) \in Nat /\ mover.n \in Prefixes /\ Blocks(Key) \in Nat
    BY <1>1, <2>1, MoverKey
  <2>3. /\ mover.next \in 1 .. Len(Objects(mover.n)) /\ mover.cursor \in 1 .. mover.next
        /\ mover.block \in 1 .. Blocks(Key)
    BY <1>1, <2>1 DEF MoverOK
  <2>4. CASE mover.failed # 0
    <3>1. mover' = [mover EXCEPT !.at = "reject", !.slot = 0]
      BY <1>1, <2>1, <2>4 DEF Released, AfterBatch
    <3>2. mover' \in MoverRecord
      BY <1>1, <3>1, StepsAre DEF MoverRecord
    <3> QED  BY <1>1, <2>1, <2>4, <3>1, <3>2, StepsAre, SamePlace DEF MoverRecord
  <2>5. CASE mover.failed = 0 /\ mover.good /\ mover.block < Blocks(Key)
    <3>1. PICK b \in Nat : b = mover.block + 1
      BY <2>2
    <3>2. mover' = [mover EXCEPT !.block = b, !.at = "get", !.slot = 0]
      <4>1. mover.block # Blocks(Key)
        BY <2>2, <2>5
      <4>2. AfterBatch = [mover EXCEPT !.block = mover.block + 1, !.at = "get"]
        BY <2>5, <4>1 DEF AfterBatch
      <4> QED  BY <2>1, <3>1, <4>2 DEF Released
    <3>3. mover' \in MoverRecord
      BY <1>1, <3>2, StepsAre DEF MoverRecord
    <3>4. /\ mover'.at = "get" /\ mover'.task = mover.task /\ mover'.n = mover.n
          /\ mover'.next = mover.next /\ mover'.cursor = mover.cursor
          /\ mover'.block = b /\ mover'.good = mover.good /\ mover'.failed = mover.failed
      BY <1>1, <3>2 DEF MoverRecord
    <3>5. mover'.block \in 1 .. Blocks(Key')
      BY <2>2, <2>3, <2>5, <3>1, <3>4 DEF Key
    <3> QED  BY <1>1, <2>1, <2>2, <2>3, <3>3, <3>4, <3>5, StepsAre DEF MoverOK
  <2>6. CASE /\ mover.failed = 0 /\ mover.good /\ mover.block = Blocks(Key)
             /\ mover.next < Len(Objects(mover.n))
    <3>1. PICK x \in Nat, b \in Nat : x = mover.next + 1 /\ b = 1
      BY <2>2
    <3>2. PICK step \in {"open", "get"} : step = FirstStep(Objects(mover.n)[x])
      BY DEF FirstStep
    <3>3. mover' = [mover EXCEPT !.block = b, !.next = x, !.cursor = x, !.at = step,
                                 !.slot = 0]
      BY <2>1, <2>2, <2>6, <3>1, <3>2 DEF Released, AfterBatch
    <3>4. mover' \in MoverRecord
      BY <1>1, <3>3, StepsAre DEF MoverRecord
    <3>5. /\ mover'.at = step /\ mover'.task = mover.task /\ mover'.n = mover.n
          /\ mover'.next = x /\ mover'.cursor = x /\ mover'.block = 1
          /\ mover'.good = mover.good /\ mover'.failed = mover.failed
      BY <1>1, <3>1, <3>3 DEF MoverRecord
    <3>6. x \in 1 .. Len(Objects(mover.n))
      BY <2>2, <2>3, <2>6, <3>1
    <3>7. mover'.block \in 1 .. Blocks(Key')
      <4>1. Blocks(Objects(mover.n)[x]) \in Nat \ {0}
        BY <2>2, <3>6, FilesAre
      <4> QED  BY <3>5, <4>1 DEF Key
    <3> QED  BY <1>1, <2>1, <2>2, <3>1, <3>2, <3>4, <3>5, <3>6, <3>7, StepsAre DEF MoverOK
  <2>7. CASE /\ mover.failed = 0
             /\ ~(mover.good /\ mover.block < Blocks(Key))
             /\ ~(/\ mover.good /\ mover.block = Blocks(Key)
                  /\ mover.next < Len(Objects(mover.n)))
    <3>1. mover' = [mover EXCEPT !.at = "drain", !.slot = 0]
      BY <2>1, <2>7 DEF Released, AfterBatch
    <3>2. mover' \in MoverRecord
      BY <1>1, <3>1, StepsAre DEF MoverRecord
    <3> QED  BY <1>1, <2>1, <3>1, <3>2, StepsAre, SamePlace DEF MoverRecord
  <2> QED  BY <2>4, <2>5, <2>6, <2>7

<1>27. CASE WriteBlock
  <2>1. mover.at = "write" /\ mover.at # "idle" /\ mover.task = "commit"
    BY <1>1, <1>27, StepsAre, TaskIs DEF WriteBlock, At
  <2>2. /\ mover.block \in Nat /\ Blocks(Key) \in Nat /\ mover.n \in Prefixes
        /\ mover.block \in 1 .. Blocks(Key)
    BY <1>1, <2>1, MoverKey DEF MoverOK
  <2>3. CASE mover' = [Released(mover) EXCEPT !.at = "skip"]
    <3>1. PICK s \in Slots \cup {0}, step \in {"skip"} :
            mover' = [mover EXCEPT !.slot = s, !.at = step]
      BY <1>1, <2>3 DEF Released, MoverRecord
    <3>2. mover' \in MoverRecord
      BY <1>1, <3>1, StepsAre DEF MoverRecord
    <3> QED  BY <1>1, <2>1, <3>1, <3>2, StepsAre, SamePlace DEF MoverRecord
  <2>4. CASE mover' = [Released(mover) EXCEPT
               !.right = @ /\ slot[mover.slot].data[1] = <<Key, mover.block>>,
               !.block = Least(@ + 1, Blocks(Key)),
               !.at = IF mover.block < Blocks(Key) THEN "get" ELSE "publish"]
    <3>1. /\ Least(mover.block + 1, Blocks(Key)) \in Nat
          /\ Least(mover.block + 1, Blocks(Key)) \in 1 .. Blocks(Key)
      BY <2>2, LeastIs
    <3>2. PICK s \in Slots \cup {0}, b \in Nat, w \in BOOLEAN, step \in {"get", "publish"} :
            /\ mover' = [mover EXCEPT !.slot = s, !.right = w, !.block = b, !.at = step]
            /\ b \in 1 .. Blocks(Key)
      <4>1. PICK b \in Nat : b = Least(mover.block + 1, Blocks(Key))
        BY <3>1
      <4>2. PICK w \in BOOLEAN :
              w = (mover.right /\ slot[mover.slot].data[1] = <<Key, mover.block>>)
        OBVIOUS
      <4>3. PICK step \in {"get", "publish"} :
              step = IF mover.block < Blocks(Key) THEN "get" ELSE "publish"
        OBVIOUS
      <4>4. mover' = [mover EXCEPT !.slot = 0, !.right = w, !.block = b, !.at = step]
        BY <1>1, <2>4, <4>1, <4>2, <4>3 DEF Released, MoverRecord
      <4> QED  BY <3>1, <4>1, <4>4
    <3>3. mover' \in MoverRecord
      BY <1>1, <3>2, StepsAre DEF MoverRecord
    <3>4. /\ mover'.at = step /\ mover'.task = mover.task /\ mover'.n = mover.n
          /\ mover'.next = mover.next /\ mover'.cursor = mover.cursor
          /\ mover'.block = b /\ mover'.missing = mover.missing
          /\ mover'.good = mover.good /\ mover'.failed = mover.failed
      BY <1>1, <3>2 DEF MoverRecord
    <3>5. Key' = Key /\ BatchEnd' = BatchEnd /\ Batch' = Batch
      BY <3>4 DEF Key, BatchEnd, Batch
    <3>6. /\ mover.next \in 1 .. Len(Objects(mover.n)) /\ mover.cursor \in 1 .. mover.next
          /\ mover.next \in Batch /\ mover.missing \subseteq Batch
      BY <1>1, <2>1 DEF MoverOK
    <3> QED  BY <1>1, <2>1, <2>2, <3>2, <3>3, <3>4, <3>5, <3>6, StepsAre DEF MoverOK
  <2> QED  BY <1>27, <2>3, <2>4 DEF WriteBlock

<1>28. CASE Publish
  <2>1. mover.at = "publish" /\ mover.at # "idle" /\ mover.task = "commit"
    BY <1>1, <1>28, StepsAre, TaskIs DEF Publish, At
  <2> DEFINE rest == {i \in mover.missing : i > mover.next}
  <2>2. CASE rest = {}
    <3>1. mover' = NextBatch(Released(mover))
      BY <1>28, <2>2 DEF Publish
    <3> QED  BY <1>1, <2>1, <3>1, NextBatchTyped
  <2>3. CASE rest # {}
    <3>1. mover' = [mover EXCEPT !.next = Min(rest)]
      BY <1>28, <2>3 DEF Publish
    <3>2. /\ mover.n \in Prefixes /\ Len(Objects(mover.n)) \in Nat /\ mover.next \in Nat
          /\ mover.cursor \in Nat /\ Blocks(Key) \in Nat
      BY <1>1, <2>1, MoverKey
    <3>3. /\ mover.next \in 1 .. Len(Objects(mover.n)) /\ mover.cursor \in 1 .. mover.next
          /\ mover.next \in Batch /\ mover.missing \subseteq Batch
          /\ mover.block \in 1 .. Blocks(Key) /\ mover.missing \in SUBSET Nat
      BY <1>1, <2>1 DEF MoverOK, MoverRecord
    <3>4. Min(rest) \in rest
      <4>1. rest \in SUBSET Nat
        BY <3>3
      <4> HIDE DEF rest
      <4> QED  BY <2>3, <4>1, LeastOf
    <3>5. PICK x \in Nat : x = Min(rest) /\ x \in Batch /\ x > mover.next
      BY <3>3, <3>4
    <3>6. mover' = [mover EXCEPT !.next = x]
      BY <3>1, <3>5
    <3>7. mover' \in MoverRecord
      BY <1>1, <3>6 DEF MoverRecord
    <3>8. /\ mover'.at = "publish" /\ mover'.task = mover.task /\ mover'.n = mover.n
          /\ mover'.next = x /\ mover'.cursor = mover.cursor
          /\ mover'.block = mover.block /\ mover'.missing = mover.missing
          /\ mover'.good = mover.good /\ mover'.failed = mover.failed
      BY <1>1, <2>1, <3>6 DEF MoverRecord
    <3>9. Batch' = Batch
      BY <3>8 DEF BatchEnd, Batch
    <3>10. x \in 1 .. Len(Objects(mover.n)) /\ Blocks(Objects(mover.n)[x]) = Blocks(Key)
      <4>1. mover.cursor \in 1 .. Len(Objects(mover.n))
        BY <3>2, <3>3
      <4> QED  BY <3>2, <3>3, <3>5, <4>1, BatchIs DEF Key
    <3>11. mover'.block \in 1 .. Blocks(Key')
      BY <3>3, <3>8, <3>10 DEF Key
    <3> HIDE DEF rest
    <3> QED  BY <1>1, <2>1, <3>2, <3>3, <3>5, <3>7, <3>8, <3>9, <3>10, <3>11, StepsAre DEF MoverOK
  <2> QED  BY <2>2, <2>3
<1> QED  BY <1>2, <1>3, <1>4, <1>5, <1>6, <1>7, <1>8, <1>9, <1>10, <1>11, <1>12,
            <1>13, <1>14, <1>15, <1>16, <1>17, <1>18, <1>19, <1>20, <1>21, <1>22,
            <1>23, <1>24, <1>25, <1>26, <1>27, <1>28 DEF MoverStep

\* What stays as it is when a commit turns to the next file or batch.
LEMMA NextBatchKeeps ==
  ASSUME NEW m \in MoverRecord
  PROVE  /\ NextBatch(m).slot = m.slot /\ NextBatch(m).task = m.task
         /\ NextBatch(m).n = m.n /\ NextBatch(m).pins = m.pins
         /\ NextBatch(m).right = m.right
         /\ NextBatch(m).at \in {"check", "announce"}
BY DEF NextBatch, MoverRecord

\* A check keeps the transfer, its slot and its pins.
LEMMA CheckedKeeps ==
  ASSUME mover \in MoverRecord, NEW m
  PROVE  /\ Checked(m).slot = mover.slot /\ Checked(m).task = mover.task
         /\ Checked(m).n = mover.n /\ Checked(m).pins = mover.pins
         /\ Checked(m).at \in {"check", "announce", "skip", "get"}
<1>1. CASE mover.next < BatchEnd
  BY <1>1 DEF Checked, MoverRecord
<1>2. CASE ~(mover.next < BatchEnd) /\ m = {}
  BY <1>2, NextBatchKeeps DEF Checked
<1>3. CASE ~(mover.next < BatchEnd) /\ m # {}
  BY <1>3 DEF Checked, MoverRecord
<1> QED  BY <1>1, <1>2, <1>3

\* A mover that has given its slot back has none, and nothing else has changed.
LEMMA ReleasedIs ==
  ASSUME NEW m \in MoverRecord
  PROVE  /\ Released(m) \in MoverRecord /\ Released(m).slot = 0
         /\ Released(m).task = m.task /\ Released(m).n = m.n
         /\ Released(m).at = m.at /\ Released(m).right = m.right
         /\ Released(m).pins = m.pins
BY DEF Released, MoverRecord

\* The mover has a slot exactly while it reads into it, captures or writes.
LEMMA MoverStepHolds ==
  ASSUME TypeOK, MoverHolds, MoverStep
  PROVE  MoverHolds'
<1>1. MoverOK /\ mover \in MoverRecord /\ PoolOK
  BY DEF TypeOK, MoverOK
<1>2. Head(available) \in Slots \/ available = <<>>
  BY <1>1 DEF PoolOK
<1>3. 0 \notin Slots
  BY TransferAssumption DEF Slots
<1> USE DEF MoverHolds, Holding
<1>4. CASE Borrow
  BY <1>1, <1>2, <1>3, <1>4 DEF Borrow, MoverRecord
<1>5. CASE BorrowFails
  BY <1>1, <1>5 DEF BorrowFails, At, MoverRecord
<1>6. CASE OpenView
  BY <1>1, <1>6 DEF OpenView, At, FirstStep, MoverRecord
<1>7. CASE Open
  BY <1>1, <1>7 DEF Open, At, MoverRecord
<1>8. CASE Place
  BY <1>1, <1>8 DEF Place, At, MoverRecord
<1>9. CASE PlaceFails
  BY <1>1, <1>9 DEF PlaceFails, At, MoverRecord
<1>10. CASE ReceiveFails
  BY <1>1, <1>10 DEF ReceiveFails, At, MoverRecord
<1>11. CASE RecordUse
  <2>1. mover' = Released(AfterBatch) /\ mover.at = "record"
    BY <1>11 DEF RecordUse, At
  <2>2. AfterBatch \in MoverRecord /\ AfterBatch.at \in {"reject", "get", "open", "drain"}
    <3>1. mover.next \in Nat /\ mover.block \in Nat /\ (mover.good => mover.failed = 0)
      BY <1>1 DEF MoverRecord, MoverOK
    <3>2. PICK x \in Nat, b \in Nat : x = mover.next + 1 /\ b = mover.block + 1
      BY <3>1
    <3>3. PICK step \in {"open", "get"} :
            step = FirstStep(Objects(mover.n)[mover.next + 1])
      BY DEF FirstStep
    <3>4. PICK one \in Nat : one = 1
      OBVIOUS
    <3>5. AfterBatch \in {[mover EXCEPT !.at = "reject"], [mover EXCEPT !.at = "drain"],
                          [mover EXCEPT !.block = b, !.at = "get"],
                          [mover EXCEPT !.block = one, !.next = x, !.cursor = x, !.at = step]}
      BY <3>1, <3>2, <3>3, <3>4 DEF AfterBatch
    <3>6. CASE \E to \in {"reject", "drain"} : AfterBatch = [mover EXCEPT !.at = to]
      <4>1. PICK to \in {"reject", "drain"} : AfterBatch = [mover EXCEPT !.at = to]
        BY <3>6
      <4> QED  BY <1>1, <4>1, StepsAre DEF MoverRecord
    <3>7. CASE AfterBatch = [mover EXCEPT !.block = b, !.at = "get"]
      BY <1>1, <3>7, StepsAre DEF MoverRecord
    <3>8. CASE AfterBatch =
                 [mover EXCEPT !.block = one, !.next = x, !.cursor = x, !.at = step]
      BY <1>1, <3>8, StepsAre DEF MoverRecord
    <3> QED  BY <3>5, <3>6, <3>7, <3>8
  <2> QED  BY <2>1, <2>2, ReleasedIs
<1>12. CASE RecordUseFails
  BY <1>1, <1>12 DEF RecordUseFails, Released, MoverRecord
<1>13. CASE Reject
  BY <1>1, <1>13 DEF Reject, At, Goto, MoverRecord
<1>14. CASE Drain
  BY <1>1, <1>14 DEF Drain, At, Goto, MoverRecord
<1>15. CASE LeaveView
  BY <1>1, <1>15 DEF LeaveView, At, IdleMover, MoverRecord
<1>16. CASE Exit \/ Announce \/ Skip
  BY <1>16 DEF Exit, EndProcess, Announce, Skip, IdleMover
<1>17. CASE TouchFails
  BY <1>1, <1>17 DEF TouchFails, At, Goto, MoverRecord
<1>18. CASE TakeLock
  BY <1>1, <1>18 DEF TakeLock, At, Goto, MoverRecord
<1>19. CASE BorrowCpu
  BY <1>1, <1>19 DEF BorrowCpu, At, Goto, MoverRecord
<1>20. CASE Capture
  BY <1>1, <1>20 DEF Capture, At, Goto, MoverRecord
<1>21. CASE Captured
  BY <1>1, <1>21 DEF Captured, At, Goto, MoverRecord
<1>22. CASE CaptureFails \/ CopyFails \/ PublishFails
  <2>1. mover' = [Released(mover) EXCEPT !.at = "skip"]
    BY <1>22 DEF CaptureFails, CopyFails, PublishFails
  <2> QED  BY <1>1, <2>1, ReleasedIs DEF MoverRecord
<1>23. CASE Check
  <2>1. mover.slot = 0
    BY <1>23 DEF Check, At
  <2>2. CASE mover' = [mover EXCEPT !.at = "authenticate"]
    BY <1>1, <2>1, <2>2 DEF MoverRecord
  <2>3. CASE mover' = Checked(mover.missing \cup {mover.next})
    BY <1>1, <2>1, <2>3, CheckedKeeps
  <2> QED  BY <1>23, <2>2, <2>3 DEF Check, Goto
<1>24. CASE Verdict
  <2>1. mover.slot = 0
    BY <1>24 DEF Verdict, At
  <2> QED  BY <1>1, <1>24, <2>1, CheckedKeeps DEF Verdict
<1>25. CASE WriteBlock
  <2>1. /\ mover'.slot = 0 /\ mover'.at \in {"get", "publish", "skip"}
    BY <1>1, <1>25 DEF WriteBlock, Released, MoverRecord
  <2> QED  BY <2>1
<1>26. CASE Publish
  <2>1. CASE mover' = NextBatch(Released(mover))
    BY <1>1, <2>1, NextBatchKeeps, ReleasedIs
  <2>2. CASE mover' = [mover EXCEPT !.next = Min({i \in mover.missing : i > mover.next})]
    BY <1>1, <1>26, <2>2 DEF Publish, At, MoverRecord
  <2> QED  BY <1>26, <2>1, <2>2 DEF Publish
<1> QED  BY <1>4, <1>5, <1>6, <1>7, <1>8, <1>9, <1>10, <1>11, <1>12, <1>13, <1>14,
            <1>15, <1>16, <1>17, <1>18, <1>19, <1>20, <1>21, <1>22, <1>23, <1>24,
            <1>25, <1>26 DEF MoverStep

\* Where a transfer begins.
LEMMA BeginTyped ==
  ASSUME NEW n \in Prefixes, BeginRestore(n) \/ BeginCommit(n)
  PROVE  MoverOK' /\ MoverHolds'
<1>1. PICK task \in {"restore", "commit"}, step \in {"view", "exit", "lock"} :
        /\ mover' = [IdleMover EXCEPT !.task = task, !.n = n, !.at = step]
        /\ task = "commit" <=> step = "lock"
  BY DEF BeginRestore, BeginCommit
<1>2. n \in Nat /\ Len(Objects(n)) \in Nat /\ 1 \in 1 .. Len(Objects(n))
  BY ObjectsAre, TransferAssumption
<1>3. mover' \in MoverRecord
  BY <1>1, <1>2, StepsAre DEF MoverRecord, IdleMover
<1>4. /\ mover'.n = n /\ mover'.next = 1 /\ mover'.cursor = 1 /\ mover'.block = 1
      /\ mover'.at = step /\ mover'.task = task /\ mover'.missing = {} /\ mover'.slot = 0
      /\ mover'.failed = 0
  BY <1>1 DEF IdleMover
<1>5. Blocks(Objects(n)[1]) \in Nat \ {0}
  BY <1>2, FilesAre
<1>6. mover'.next \in Batch'
  <2>1. BatchEnd' = BatchEndAt(n, 1)
    BY <1>4 DEF BatchEnd, BatchEndAt
  <2>2. BatchEnd' \in 1 .. Len(Objects(n))
    BY <1>2, <2>1, BatchesAre
  <2> QED  BY <1>2, <1>4, <2>2 DEF Batch
<1>7. mover'.block \in 1 .. Blocks(Key')
  BY <1>4, <1>5 DEF Key
<1>8. MoverOK'
  BY <1>1, <1>2, <1>3, <1>4, <1>6, <1>7, StepsAre DEF MoverOK
<1>9. MoverHolds'
  BY <1>1, <1>4 DEF MoverHolds, Holding
<1> QED  BY <1>8, <1>9

\* Whatever happens, vLLM's thread is at a place of its prefix, and holds a slot only
\* where the code has one in hand.
LEMMA MoverKept ==
  ASSUME TypeOK, MoverHolds, Next
  PROVE  MoverOK' /\ MoverHolds'
<1>1. CASE UNCHANGED mover
  BY <1>1 DEF TypeOK, MoverOK, MoverHolds, Key, Batch, BatchEnd
<1>2. CASE Killed
  BY <1>2, IdleTyped DEF Killed, EndProcess, MoverHolds, Holding, IdleMover
<1> QED  BY <1>1, <1>2, MoverStepTyped, MoverStepHolds, BeginTyped, WhoMovesTheMover

\* Condemning a key, and a lookup, change the files of known keys.
LEMMA CondemnTyped ==
  ASSUME DiskOK, NEW k \in Keys, Condemn(k)
  PROVE  DiskOK'
BY DEF DiskOK, Condemn

\* So does a lookup.
LEMMA LookupTyped ==
  ASSUME DiskOK, NEW n \in Prefixes, LookupEffect(n)
  PROVE  DiskOK'
<1>1. CASE UNCHANGED disk
  BY <1>1 DEF DiskOK, disk
<1>2. CASE Obstacle(n) # 0 /\ Condemn(Obstacle(n))
  <2>1. Obstacle(n) \in Keys
    BY <1>2, ObstacleIs
  <2> QED  BY <1>2, <2>1, CondemnTyped
<1> QED  BY <1>1, <1>2 DEF LookupEffect

\* Files, markers and offers are of known keys, whoever changes them.
LEMMA DiskTyped ==
  ASSUME TypeOK, Locks, Next
  PROVE  DiskOK'
<1>1. DiskOK /\ MoverOK /\ ReadersOK
  BY DEF TypeOK
<1>2. CASE UNCHANGED disk
  BY <1>1, <1>2 DEF DiskOK, disk
<1>3. CASE OpenView
  <2>1. mover.n \in Prefixes
    BY <1>1, <1>3, MoverKey DEF OpenView, At
  <2> QED  BY <1>1, <1>3, <2>1, LookupTyped DEF OpenView
<1>4. CASE Reject
  <2>1. mover.failed \in Keys
    BY <1>1, <1>4 DEF Reject, At, MoverOK, MoverRecord
  <2> QED  BY <1>1, <1>4, <2>1, CondemnTyped DEF Reject
<1>5. CASE Check \/ Verdict
  <2>1. Key \in Keys
    BY <1>1, <1>5, MoverKey DEF Check, Verdict, At
  <2>2. CASE UNCHANGED disk
    BY <1>1, <2>2 DEF DiskOK, disk
  <2> QED  BY <1>1, <1>5, <2>1, <2>2, CondemnTyped DEF Check, Verdict
<1>6. CASE Publish \/ PublishFails
  <2>1. Key \in Keys
    BY <1>1, <1>6, MoverKey DEF Publish, PublishFails, At
  <2> QED  BY <1>1, <1>6, <2>1 DEF Publish, PublishFails, Written, DiskOK, disk
<1>7. CASE Announce
  <2>1. KeysOf(mover.n) \subseteq Keys
    BY <1>1, <1>7, MoverKey DEF Announce, At, Keys
  <2> QED  BY <1>1, <1>7, <2>1 DEF Announce, DiskOK
<1>8. CASE Restart
  BY <1>1, <1>8 DEF Restart, DiskOK
<1>9. ASSUME NEW k \in Keys, Evict(k) \/ Damage(k)
      PROVE  DiskOK'
  BY <1>1, <1>9 DEF Evict, Damage, DiskOK
<1>10. ASSUME NEW r \in Readers, ReaderView(r) \/ ReaderReject(r)
       PROVE  DiskOK'
  <2>1. CASE ReaderView(r)
    <3>1. reader[r].n \in Prefixes
      BY <1>1, <2>1 DEF ReaderView, ReaderAt, ReadersOK
    <3> QED  BY <1>1, <2>1, <3>1, LookupTyped DEF ReaderView
  <2>2. CASE ReaderReject(r)
    <3>1. reader[r].failed \in Keys
      BY <1>1, <2>2 DEF ReaderReject, ReaderAt, ReadersOK, ReaderRecord
    <3> QED  BY <1>1, <2>2, <3>1, CondemnTyped DEF ReaderReject
  <2> QED  BY <1>10, <2>1, <2>2
<1>11. ASSUME NEW s \in Scrubbers, ScrubVerdict(s)
       PROVE  DiskOK'
  <2>1. scrubbed[s] \in Keys
    BY <1>11 DEF ScrubVerdict, Locks, TypeOK, ThreadsOK
  <2>2. CASE Condemn(scrubbed[s])
    BY <1>1, <2>1, <2>2, CondemnTyped
  <2>3. CASE withdrawn' = withdrawn \ {scrubbed[s]} /\ UNCHANGED <<file, offered>>
    BY <1>1, <2>3 DEF DiskOK
  <2> QED  BY <1>11, <2>2, <2>3 DEF ScrubVerdict
<1> QED  BY <1>2, <1>3, <1>4, <1>5, <1>6, <1>7, <1>8, <1>9, <1>10, <1>11, WhoChangesDisk

\* Every reader is at a file of its prefix, and one that rejects has a key to condemn.
LEMMA ReadersTyped ==
  ASSUME TypeOK, Next
  PROVE  ReadersOK'
<1>1. ReadersOK /\ reader \in [Readers -> ReaderRecord]
  BY DEF TypeOK, ReadersOK
<1>2. CASE UNCHANGED reader
  BY <1>1, <1>2 DEF ReadersOK
<1>3. IdleReader \in ReaderRecord /\ IdleReader.at = "idle"
  BY DEF IdleReader, ReaderRecord
<1>4. CASE Exit \/ Killed
  <2>1. reader' = [r \in Readers |-> IdleReader]
    BY <1>4 DEF Exit, Killed, EndProcess
  <2> QED  BY <1>3, <2>1 DEF ReadersOK
<1>5. ASSUME NEW r \in Readers, NEW next \in ReaderRecord,
             reader' = [reader EXCEPT ![r] = next],
             next.at # "idle" =>
               /\ next.n \in Prefixes /\ next.next \in 1 .. Len(Objects(next.n))
               /\ next.at = "reject" => next.failed # 0
      PROVE  ReadersOK'
  BY <1>1, <1>5 DEF ReadersOK
<1>6. ASSUME NEW r \in Readers, NEW n \in Prefixes, BeginRead(r, n)
      PROVE  ReadersOK'
  <2>1. n \in Nat /\ 1 \in 1 .. Len(Objects(n))
    BY ObjectsAre, TransferAssumption
  <2>2. PICK next : next = [IdleReader EXCEPT !.n = n, !.at = "view"]
    OBVIOUS
  <2>3. next \in ReaderRecord /\ next.n = n /\ next.next = 1 /\ next.at = "view"
    BY <2>1, <2>2 DEF IdleReader, ReaderRecord
  <2> QED  BY <1>5, <1>6, <2>1, <2>2, <2>3 DEF BeginRead
<1>7. ASSUME NEW r \in Readers, ReaderStep(r)
      PROVE  ReadersOK'
  <2> DEFINE old == reader[r]
  <2>1. /\ old \in ReaderRecord
        /\ old.at # "idle" => old.n \in Prefixes /\ old.next \in 1 .. Len(Objects(old.n))
    BY <1>1 DEF ReadersOK
  <2>2. old.at # "idle" => /\ Len(Objects(old.n)) \in Nat /\ KeysOf(old.n) \in SUBSET Keys
                           /\ ReaderKey(r) \in Keys /\ ReaderKey(r) # 0
    BY <2>1, ObjectsAre, FilesAre, KeysAre, ObstacleIs DEF ReaderKey
  <2>3. CASE ReaderView(r)
    <3>1. CASE Obstacle(old.n) = 0
      <4>1. PICK p \in SUBSET Keys : p = KeysOf(old.n)
        BY <2>2, <2>3 DEF ReaderView, ReaderAt
      <4>2. PICK next : next = [old EXCEPT !.pins = p, !.at = "get"]
        OBVIOUS
      <4>3. next \in ReaderRecord /\ next.n = old.n /\ next.next = old.next /\ next.at = "get"
        BY <2>1, <4>2 DEF ReaderRecord
      <4>4. reader' = [reader EXCEPT ![r] = next] /\ old.at # "idle"
        BY <2>3, <3>1, <4>1, <4>2 DEF ReaderView, ReaderAt
      <4> QED  BY <1>5, <2>1, <4>3, <4>4
    <3>2. CASE Obstacle(old.n) # 0
      <4>1. PICK next : next = [old EXCEPT !.at = "leave"]
        OBVIOUS
      <4>2. next \in ReaderRecord /\ next.n = old.n /\ next.next = old.next /\ next.at = "leave"
        BY <2>1, <4>1 DEF ReaderRecord
      <4>3. reader' = [reader EXCEPT ![r] = next] /\ old.at # "idle"
        BY <2>3, <3>2, <4>1 DEF ReaderView, ReaderAt
      <4> QED  BY <1>5, <2>1, <4>2, <4>3
    <3> QED  BY <3>1, <3>2
  <2>4. CASE ReaderBorrow(r)
    <3>1. PICK next : next = [old EXCEPT !.at = "read"]
      OBVIOUS
    <3>2. next \in ReaderRecord /\ next.n = old.n /\ next.next = old.next /\ next.at = "read"
      BY <2>1, <3>1 DEF ReaderRecord
    <3>3. reader' = [reader EXCEPT ![r] = next] /\ old.at # "idle"
      BY <2>4, <3>1 DEF ReaderBorrow, ReaderAt
    <3> QED  BY <1>5, <2>1, <3>2, <3>3
  <2>5. CASE Read(r)
    <3>1. CASE reader' = [reader EXCEPT ![r] = AfterRead(@)]
      <4>1. old.at # "idle" /\ old.next \in Nat
        BY <2>1, <2>5 DEF Read, ReaderAt, ReaderRecord
      <4>2. PICK x \in Nat : x = old.next + 1
        BY <4>1
      <4>3. PICK next : next = AfterRead(old)
        OBVIOUS
      <4>4. CASE old.next < Len(Objects(old.n))
        <5>1. next = [old EXCEPT !.next = x, !.at = "get"]
          BY <4>2, <4>3, <4>4 DEF AfterRead
        <5>2. next \in ReaderRecord /\ next.n = old.n /\ next.next = x /\ next.at = "get"
          BY <2>1, <5>1 DEF ReaderRecord
        <5>3. x \in 1 .. Len(Objects(old.n))
          BY <2>1, <2>2, <4>1, <4>2, <4>4
        <5> QED  BY <1>5, <2>1, <3>1, <4>1, <4>3, <5>2, <5>3
      <4>5. CASE ~(old.next < Len(Objects(old.n)))
        <5>1. next = [old EXCEPT !.at = "leave"]
          BY <4>3, <4>5 DEF AfterRead
        <5>2. next \in ReaderRecord /\ next.n = old.n /\ next.next = old.next /\ next.at = "leave"
          BY <2>1, <5>1 DEF ReaderRecord
        <5> QED  BY <1>5, <2>1, <3>1, <4>1, <4>3, <5>2
      <4> QED  BY <4>4, <4>5
    <3>2. CASE reader' = [reader EXCEPT ![r].failed = ReaderKey(r), ![r].at = "reject"]
      <4>1. old.at # "idle"
        BY <2>5 DEF Read, ReaderAt
      <4>2. PICK k \in Keys : k = ReaderKey(r) /\ k # 0
        BY <2>2, <4>1
      <4>3. PICK next : next = [old EXCEPT !.failed = k, !.at = "reject"]
        OBVIOUS
      <4>4. /\ next \in ReaderRecord /\ next.n = old.n /\ next.next = old.next
            /\ next.at = "reject" /\ next.failed = k
        BY <2>1, <4>3 DEF ReaderRecord
      <4>5. reader' = [reader EXCEPT ![r] = next]
        BY <1>1, <3>2, <4>2, <4>3
      <4> QED  BY <1>5, <2>1, <4>1, <4>2, <4>4, <4>5
    <3> QED  BY <2>5, <3>1, <3>2 DEF Read
  <2>6. CASE ReaderReject(r)
    <3>1. PICK next : next = [old EXCEPT !.at = "leave"]
      OBVIOUS
    <3>2. next \in ReaderRecord /\ next.n = old.n /\ next.next = old.next /\ next.at = "leave"
      BY <2>1, <3>1 DEF ReaderRecord
    <3>3. reader' = [reader EXCEPT ![r] = next] /\ old.at # "idle"
      BY <2>6, <3>1 DEF ReaderReject, ReaderAt
    <3> QED  BY <1>5, <2>1, <3>2, <3>3
  <2>7. CASE ReaderLeave(r)
    BY <1>3, <1>5, <2>7 DEF ReaderLeave
  <2> QED  BY <1>7, <2>3, <2>4, <2>5, <2>6, <2>7 DEF ReaderStep
<1> QED  BY <1>2, <1>4, <1>6, <1>7, WhoMovesReaders

\* A step of vLLM's thread stays in its transfer or ends it.
LEMMA SameTransfer ==
  ASSUME TypeOK, MoverStep
  PROVE  /\ mover' = IdleMover \/ (mover'.task = mover.task /\ mover'.n = mover.n)
         /\ mover' = IdleMover => LeaveView \/ Exit \/ Announce \/ Skip
         /\ worker = "running"
<1>1. MoverOK /\ mover \in MoverRecord
  BY DEF TypeOK, MoverOK
<1>2. worker = "running"
  <2>1. CASE Borrow \/ BorrowFails \/ OpenView \/ Open \/ Place \/ PlaceFails \/ ReceiveFails
    BY <2>1 DEF At, Running, Borrow, BorrowFails, OpenView, Open, Place, PlaceFails,
                ReceiveFails
  <2>2. CASE TouchFails \/ CopyFails \/ RecordUse \/ RecordUseFails \/ Reject \/ Drain
    BY <2>2 DEF At, Running, TouchFails, CopyFails, RecordUse, RecordUseFails, Reject, Drain
  <2>3. CASE LeaveView \/ Exit \/ TakeLock \/ Check \/ BorrowCpu \/ Verdict \/ Capture
    BY <2>3 DEF At, Running, LeaveView, Exit, TakeLock, Check, BorrowCpu, Verdict, Capture
  <2>4. CASE CaptureFails \/ Captured \/ WriteBlock \/ Publish \/ PublishFails \/ Announce \/ Skip
    BY <2>4 DEF At, Running, CaptureFails, Captured, WriteBlock, Publish, PublishFails,
                Announce, Skip
  <2> QED  BY <2>1, <2>2, <2>3, <2>4 DEF MoverStep
<1>3. IdleMover.task = "none"
  BY DEF IdleMover
<1>4. ASSUME mover.at # "idle", mover'.task = mover.task, mover'.n = mover.n
      PROVE  mover' # IdleMover
  BY <1>1, <1>3, <1>4, TaskIs
<1> DEFINE Same == mover.at # "idle" /\ mover'.task = mover.task /\ mover'.n = mover.n
<1>5. CASE Borrow \/ BorrowFails
  <2>1. Same
    BY <1>1, <1>5 DEF Borrow, BorrowFails, At, MoverRecord
  <2> QED  BY <1>2, <1>4, <2>1
<1>6. CASE OpenView \/ Open
  <2>1. Same
    BY <1>1, <1>6 DEF OpenView, Open, At, MoverRecord
  <2> QED  BY <1>2, <1>4, <2>1
<1>7. CASE Place \/ PlaceFails \/ ReceiveFails
  <2>1. Same
    BY <1>1, <1>7 DEF Place, PlaceFails, ReceiveFails, At, MoverRecord
  <2> QED  BY <1>2, <1>4, <2>1
<1>8. CASE RecordUse
  <2>1. Same
    <3>1. AfterBatch.task = mover.task /\ AfterBatch.n = mover.n /\ mover.at = "record"
      BY <1>1, <1>8 DEF RecordUse, At, AfterBatch, MoverRecord, MoverOK
    <3>2. Released(AfterBatch).task = mover.task /\ Released(AfterBatch).n = mover.n
      BY <3>1 DEF Released
    <3> QED  BY <1>8, <3>1, <3>2 DEF RecordUse
  <2> QED  BY <1>2, <1>4, <2>1
<1>9. CASE RecordUseFails \/ Reject \/ Drain
  <2>1. Same
    BY <1>1, <1>9 DEF RecordUseFails, Reject, Drain, Released, Goto, At, MoverRecord
  <2> QED  BY <1>2, <1>4, <2>1
<1>10. CASE LeaveView
  <2>1. mover' = IdleMover \/ Same
    BY <1>1, <1>10 DEF LeaveView, At, MoverRecord
  <2> QED  BY <1>2, <1>4, <1>10, <2>1
<1>11. CASE Exit \/ Announce \/ Skip
  BY <1>2, <1>11 DEF Exit, EndProcess, Announce, Skip
<1>12. CASE TouchFails
  <2>1. Same
    BY <1>1, <1>12 DEF TouchFails, Goto, At, MoverRecord
  <2> QED  BY <1>2, <1>4, <2>1
<1>13. CASE TakeLock \/ BorrowCpu \/ Capture \/ Captured
  <2>1. Same
    BY <1>1, <1>13 DEF TakeLock, BorrowCpu, Capture, Captured, Goto, At, MoverRecord
  <2> QED  BY <1>2, <1>4, <2>1
<1>14. CASE CaptureFails \/ CopyFails \/ PublishFails \/ WriteBlock
  <2>1. Same
    BY <1>1, <1>14 DEF CaptureFails, CopyFails, PublishFails, WriteBlock, Released, At,
                       MoverRecord
  <2> QED  BY <1>2, <1>4, <2>1
<1>15. CASE Check \/ Verdict
  <2>1. Same
    <3>1. CASE mover' = [mover EXCEPT !.at = "authenticate"]
      BY <1>1, <1>15, <3>1 DEF Check, Verdict, At, MoverRecord
    <3>2. CASE \E m : mover' = Checked(m)
      BY <1>1, <1>15, <3>2, CheckedKeeps DEF Check, Verdict, At
    <3> QED  BY <1>15, <3>1, <3>2 DEF Check, Verdict, Goto
  <2> QED  BY <1>2, <1>4, <2>1
<1>16. CASE Publish
  <2>1. Same
    <3>1. CASE mover' = NextBatch(Released(mover))
      BY <1>1, <1>16, <3>1, NextBatchKeeps, ReleasedIs DEF Publish, At
    <3>2. CASE mover' = [mover EXCEPT !.next = Min({i \in mover.missing : i > mover.next})]
      BY <1>1, <1>16, <3>2 DEF Publish, At, MoverRecord
    <3> QED  BY <1>16, <3>1, <3>2 DEF Publish
  <2> QED  BY <1>2, <1>4, <2>1
<1> QED  BY <1>5, <1>6, <1>7, <1>8, <1>9, <1>10, <1>11, <1>12, <1>13, <1>14, <1>15,
            <1>16 DEF MoverStep

\* A commit holds the lock from its first check to its end, a scrubber as long as
\* it has a key; nobody takes it away from them.
LEMMA LocksKept ==
  ASSUME TypeOK, Locks, Next
  PROVE  Locks' /\ ThreadsOK'
<1>1. MoverOK /\ mover \in MoverRecord /\ ThreadsOK
  BY DEF TypeOK, MoverOK
<1>2. /\ Mover \notin Readers /\ Mover \notin Scrubbers /\ NoThread \notin Scrubbers
      /\ NoThread # Mover /\ Readers \cap Scrubbers = {} /\ NoThread \notin Readers
  BY TransferAssumption
<1>3. IdleMover.at = "idle" /\ "idle" \notin LockedSteps
  BY StepsAre DEF IdleMover
<1>4. CASE Exit \/ Killed
  BY <1>2, <1>3, <1>4 DEF Exit, Killed, EndProcess, Locks, ThreadsOK, Threads
<1>5. worker' \in {"running", "closing", "closed", "raised", "dead"}
  <2>1. CASE MoverStep
    <3>1. worker' = worker \/ Exit
      BY <2>1 DEF MoverStep, Borrow, BorrowFails, OpenView, Open, Place, PlaceFails,
         ReceiveFails, TouchFails, CopyFails, RecordUse, RecordUseFails, Reject, Drain,
         LeaveView, TakeLock, Check, BorrowCpu, Verdict, Capture, CaptureFails, Captured,
         WriteBlock, Publish, PublishFails, Announce, Skip
    <3> QED  BY <1>1, <3>1 DEF Exit, EndProcess, ThreadsOK
  <2>2. CASE \E n \in Prefixes : BeginRestore(n) \/ BeginCommit(n)
    BY <1>1, <2>2 DEF BeginRestore, BeginCommit, ThreadsOK
  <2>3. CASE Killed
    BY <2>3 DEF Killed, EndProcess
  <2> QED  BY <1>1, <2>1, <2>2, <2>3, WhoMovesTheMover DEF ThreadsOK
\* Whoever is a locked commit now was one before, or takes the lock.
<1>6. ASSUME ~Exit, ~Killed, ~TakeLock, mover'.task = "commit", mover'.at \in LockedSteps
      PROVE  mover.task = "commit" /\ mover.at \in LockedSteps /\ ~Announce /\ ~Skip
  <2>1. CASE MoverStep
    <3>1. mover' # IdleMover
      BY <1>3, <1>6
    <3>2. mover.task = "commit" /\ ~Announce /\ ~Skip
      BY <1>6, <2>1, <3>1, SameTransfer DEF Announce, Skip
    <3>3. mover.at # "lock"
      BY <1>6, <2>1 DEF MoverStep, At, Borrow, BorrowFails, OpenView, Open, Place,
         PlaceFails, ReceiveFails, TouchFails, CopyFails, RecordUse, RecordUseFails, Reject,
         Drain, LeaveView, Check, BorrowCpu, Verdict, Capture, CaptureFails,
         Captured, WriteBlock, Publish, PublishFails, Announce, Skip
    <3> QED  BY <1>1, <3>2, <3>3, TaskIs DEF MoverOK
  <2>2. ASSUME NEW n \in Prefixes, BeginRestore(n) \/ BeginCommit(n)
        PROVE  FALSE
    <3>1. mover'.at \in {"view", "exit", "lock"}
      BY <2>2 DEF BeginRestore, BeginCommit, IdleMover
    <3> QED  BY <1>6, <3>1, StepsAre
  <2>3. CASE UNCHANGED mover
    BY <1>3, <1>6, <2>3 DEF Announce, Skip
  <2> QED  BY <1>6, <2>1, <2>2, <2>3, WhoMovesTheMover
<1>7. CASE UNCHANGED <<lock, cpu, scrubbed>> /\ ~Exit /\ ~Killed
  <2>1. ~TakeLock
    BY <1>2, <1>7 DEF TakeLock
  <2>2. mover'.task = "commit" /\ mover'.at \in LockedSteps => lock = Mover
    BY <1>6, <1>7, <2>1 DEF Locks
  <2> QED  BY <1>1, <1>5, <1>7, <2>2 DEF Locks, ThreadsOK
<1>8. CASE TakeLock
  <2>1. /\ lock' = Mover /\ cpu' = cpu /\ scrubbed' = scrubbed
        /\ \A s \in Scrubbers : scrubbed[s] = 0
    BY <1>2, <1>8 DEF TakeLock, others, Locks
  <2> QED  BY <1>1, <1>5, <2>1 DEF Locks, ThreadsOK, Threads
<1>9. CASE BorrowCpu \/ Verdict
  <2>1. ~Exit /\ ~Killed /\ ~TakeLock
    <3>1. mover.at \in {"authenticate", "verdict"} /\ scrubbed' = scrubbed /\ lock' = lock
      BY <1>9 DEF BorrowCpu, Verdict, At
    <3>2. mover' # IdleMover
      BY <1>9, SameTransfer, <1>1, <3>1, TaskIs DEF MoverStep, LeaveView, Exit, Announce, Skip, At
    <3> QED  BY <3>1, <3>2 DEF Exit, Killed, EndProcess, TakeLock, At
  <2>2. mover'.task = "commit" /\ mover'.at \in LockedSteps => lock = Mover
    BY <1>6, <2>1 DEF Locks
  <2>3. lock' = lock /\ scrubbed' = scrubbed /\ cpu' \in {Mover, NoThread}
    BY <1>9 DEF BorrowCpu, Verdict
  <2> QED  BY <1>1, <1>2, <1>5, <2>2, <2>3 DEF Locks, ThreadsOK, Threads
<1>10. CASE Announce \/ Skip
  <2>1. /\ lock' = NoThread /\ cpu' = cpu /\ scrubbed' = scrubbed /\ mover'.at = "idle"
        /\ mover.at \in LockedSteps /\ mover.task = "commit"
    BY <1>1, <1>3, <1>10, StepsAre, TaskIs DEF Announce, Skip, others, At
  <2>2. \A s \in Scrubbers : scrubbed[s] = 0
    BY <1>2, <2>1 DEF Locks
  <2> QED  BY <1>1, <1>3, <1>5, <2>1, <2>2 DEF Locks, ThreadsOK, Threads
<1>11. ASSUME NEW r \in Readers, ReaderBorrow(r) \/ Read(r)
       PROVE  Locks' /\ ThreadsOK'
  <2>1. mover' = mover /\ lock' = lock /\ scrubbed' = scrubbed /\ cpu' \in {r, NoThread}
    BY <1>11 DEF ReaderBorrow, Read
  <2>2. cpu' \notin Scrubbers /\ cpu' \in Threads
    BY <1>2, <2>1 DEF Threads
  <2> QED  BY <1>1, <1>5, <2>1, <2>2 DEF Locks, ThreadsOK
<1>12. ASSUME NEW s \in Scrubbers, ScrubStep(s) \/ \E k \in Keys : BeginScrub(s, k)
       PROVE  Locks' /\ ThreadsOK'
  <2>1. CASE ScrubBorrow(s)
    BY <1>1, <1>5, <2>1 DEF ScrubBorrow, Locks, ThreadsOK, Threads
  <2>2. CASE ScrubVerdict(s)
    <3>1. /\ lock = s /\ cpu = s /\ lock' = NoThread /\ cpu' = NoThread /\ mover' = mover
          /\ scrubbed' = [scrubbed EXCEPT ![s] = 0]
      BY <2>2 DEF ScrubVerdict, Locks
    <3>2. \A t \in Scrubbers : t # s => scrubbed[t] = 0
      BY <3>1 DEF Locks
    <3> QED  BY <1>1, <1>2, <1>5, <3>1, <3>2 DEF Locks, ThreadsOK, Threads
  <2>3. ASSUME NEW k \in Keys, BeginScrub(s, k)
        PROVE  Locks' /\ ThreadsOK'
    <3>1. /\ lock = NoThread /\ lock' = s /\ cpu' = cpu /\ mover' = mover
          /\ scrubbed' = [scrubbed EXCEPT ![s] = k] /\ k # 0
      BY <2>3, KeysAre DEF BeginScrub
    <3>2. \A t \in Scrubbers : scrubbed[t] = 0 /\ cpu # t
      BY <1>2, <3>1 DEF Locks
    <3> QED  BY <1>1, <1>2, <1>5, <3>1, <3>2 DEF Locks, ThreadsOK, Threads
  <2> QED  BY <1>12, <2>1, <2>2, <2>3 DEF ScrubStep
<1> QED  BY <1>4, <1>7, <1>8, <1>9, <1>10, <1>11, <1>12, WhoTakesTheLock

\* The slot records, the operations and the units that the steps handle.
LEMMA PiecesAre ==
  /\ EmptySlot \in SlotRecord
  /\ ~EmptySlot.pending /\ ~EmptySlot.record_failed
  /\ \A s \in Slots : Event(s) \in Operation /\ Event(s).slot = s /\ Event(s).kind = "event"
  /\ Junk \in Unit
<1>1. Junk \in Unit
  BY DEF Junk, Unit
<1>2. \A s \in Slots : Event(s) \in Operation /\ Event(s).slot = s /\ Event(s).kind = "event"
  BY <1>1 DEF Event, Copy, Operation
<1>3. EmptySlot \in SlotRecord
  BY <1>1 DEF EmptySlot, SlotRecord
<1> QED  BY <1>1, <1>2, <1>3 DEF EmptySlot

\* The unit that a restore reads next.
LEMMA UnitAt ==
  ASSUME MoverOK, mover.at # "idle"
  PROVE  <<Key, mover.block>> \in UnitsOf(mover.n) /\ <<Key, mover.block>> \in Unit
<1>1. /\ mover.n \in Prefixes /\ mover.next \in 1 .. Len(Objects(mover.n))
      /\ mover.block \in 1 .. Blocks(Objects(mover.n)[mover.next])
  BY DEF MoverOK, Key
<1> QED  BY <1>1, UnitsAre DEF Key

\* The copy of the file in hand to the GPU.
LEMMA PlacedIs ==
  ASSUME MoverOK, mover.at = "place", mover.slot \in Slots
  PROVE  LET op == Copy("h2d", mover.slot, mover.next - mover.cursor + 1, <<Key, mover.block>>)
         IN  /\ op \in Operation /\ op.slot = mover.slot /\ op.kind = "h2d"
             /\ op.offset = mover.next - mover.cursor + 1
             /\ op.unit = <<Key, mover.block>>
             /\ op.offset \in Nat \ {0}
<1>1. <<Key, mover.block>> \in Unit
  BY UnitAt
<1>2. mover.next - mover.cursor + 1 \in Nat \ {0}
  <2>1. mover.next \in Nat /\ mover.cursor \in Nat /\ mover.cursor \in 1 .. mover.next
    BY MoverKey DEF MoverOK
  <2> QED  BY <2>1
<1>3. PICK o \in Nat : o = mover.next - mover.cursor + 1
  BY <1>2
<1>4. PICK u \in Unit : u = <<Key, mover.block>>
  BY <1>1
<1> QED  BY <1>2, <1>3, <1>4 DEF Copy, Operation

\* The slots when slot s has been marked as pending, and when its event could not
\* be recorded.
Pending(s) == [slot EXCEPT ![s].pending = TRUE]

Lost(s) == [slot EXCEPT ![s] = Unrecorded(@)]

\* Marking a slot leaves its bytes, and every other slot, alone.
LEMMA MarkedAre ==
  ASSUME slot \in [Slots -> SlotRecord], NEW s \in Slots
  PROVE  /\ Pending(s) \in [Slots -> SlotRecord] /\ Lost(s) \in [Slots -> SlotRecord]
         /\ \A t \in Slots : t # s => Pending(s)[t] = slot[t] /\ Lost(s)[t] = slot[t]
         /\ Pending(s)[s].pending /\ Lost(s)[s].pending /\ Lost(s)[s].record_failed
         /\ Pending(s)[s].record_failed = slot[s].record_failed
         /\ Pending(s)[s].data = slot[s].data /\ Lost(s)[s].data = slot[s].data
BY DEF Pending, Lost, Unrecorded, SlotRecord

\* What the GPU does, by the kind of the operation.
LEMMA GpuDoes ==
  ASSUME PoolOK, Gpu
  PROVE  LET op == Head(stream) IN
         /\ stream # <<>> /\ op \in Operation
         /\ stream' = Tail(stream) /\ Tail(stream) \in Seq(Operation)
         /\ op.kind \in {"event", "h2d", "d2h"}
         /\ op.kind = "event" => slot' = slot /\ placed' = placed
         /\ op.kind = "h2d" =>
              /\ slot' = slot
              /\ placed' = IF slot[op.slot].data[op.offset] = op.unit
                           THEN placed \cup {op.unit} ELSE placed \ {op.unit}
         /\ op.kind = "d2h" =>
              /\ placed' = placed
              /\ slot' = [slot EXCEPT ![op.slot].data[op.offset] =
                            IF op.unit \in placed THEN op.unit ELSE Junk]
<1>1. /\ stream # <<>> /\ Head(stream) \in Operation
      /\ stream' = Tail(stream) /\ Tail(stream) \in Seq(Operation)
  BY DEF PoolOK, Gpu
<1>2. Head(stream).kind \in {"event", "h2d", "d2h"}
  BY <1>1 DEF Operation
<1>3. CASE Head(stream).kind = "event"
  BY <1>1, <1>3 DEF Gpu
<1>4. CASE Head(stream).kind = "h2d"
  BY <1>1, <1>4 DEF Gpu
<1>5. CASE Head(stream).kind = "d2h"
  BY <1>1, <1>5 DEF Gpu
<1> QED  BY <1>1, <1>2, <1>3, <1>4, <1>5

\* The queue, the slots and the stream stay well-formed: slots are slots, operations
\* are operations on them.
LEMMA PoolTyped ==
  ASSUME TypeOK, MoverHolds, Next
  PROVE  PoolOK'
<1>1. MoverOK /\ mover \in MoverRecord /\ PoolOK
  BY DEF TypeOK, MoverOK
<1>2. mover.slot \in Slots \cup {0} /\ (mover.slot # 0 => mover.slot \in Slots)
  BY <1>1 DEF MoverRecord
<1> USE DEF PoolOK
<1>3. CASE UNCHANGED <<pool, placed>>
  BY <1>1, <1>3 DEF pool
<1>4. CASE Borrow
  <2>1. Head(available) \in Slots /\ Tail(available) \in Seq(Slots)
    BY <1>1, <1>4 DEF Borrow
  <2> QED  BY <1>1, <1>4, <2>1, PiecesAre DEF Borrow
<1>5. CASE BorrowFails
  <2>1. Append(Tail(available), Head(available)) \in Seq(Slots)
    BY <1>1, <1>5 DEF BorrowFails
  <2> QED  BY <1>1, <1>5, <2>1 DEF BorrowFails
<1>6. CASE Place
  <2>1. mover.at = "place" /\ mover.slot \in Slots
    BY <1>2, <1>6 DEF Place, At, MoverHolds, Holding
  <2>2. stream' \in Seq(Operation)
    BY <1>1, <1>6, <2>1, PlacedIs DEF Place
  <2>3. \A v \in Unit, o \in Nat : [slot EXCEPT ![mover.slot].data[o] = v] \in [Slots -> SlotRecord]
    BY <1>1, <2>1 DEF SlotRecord
  <2>4. mover.next - mover.cursor + 1 \in Nat /\ <<Key, mover.block>> \in Unit
    BY <1>1, <2>1, PlacedIs, UnitAt DEF Copy
  <2>5. slot' \in [Slots -> SlotRecord]
    BY <1>6, <2>3, <2>4, PiecesAre DEF Place
  <2> QED  BY <1>1, <1>6, <2>2, <2>5 DEF Place
<1>7. CASE PlaceFails
  <2>1. mover.at = "place" /\ mover.slot \in Slots
    BY <1>2, <1>7 DEF PlaceFails, At, MoverHolds, Holding
  <2>2. \A o \in Nat : [slot EXCEPT ![mover.slot].data[o] = Junk] \in [Slots -> SlotRecord]
    BY <1>1, <2>1, PiecesAre DEF SlotRecord
  <2>3. mover.next - mover.cursor + 1 \in Nat
    BY <1>1, <2>1, PlacedIs DEF Copy
  <2>4. slot' \in [Slots -> SlotRecord]
    BY <1>1, <1>7, <2>2, <2>3 DEF PlaceFails
  <2> QED  BY <1>1, <1>7, <2>4 DEF PlaceFails
<1>8. CASE ReceiveFails
  <2>1. mover.at = "place" /\ mover.slot \in Slots
    BY <1>2, <1>8 DEF ReceiveFails, At, MoverHolds, Holding
  <2>2. stream' \in Seq(Operation)
    BY <1>1, <1>8, <2>1, PlacedIs DEF ReceiveFails
  <2> QED  BY <1>1, <1>8, <2>2 DEF ReceiveFails
<1>9. CASE RecordUse \/ RecordUseFails
  <2>1. mover.at = "record" /\ mover.slot \in Slots
    BY <1>2, <1>9 DEF RecordUse, RecordUseFails, At, MoverHolds, Holding
  <2>2. stream' \in Seq(Operation)
    <3>1. Event(mover.slot) \in Operation
      BY <2>1, PiecesAre
    <3>2. Append(stream, Event(mover.slot)) \in Seq(Operation)
      BY <1>1, <3>1
    <3>3. stream' = stream \/ stream' = Append(stream, Event(mover.slot))
      BY <1>9 DEF RecordUse, RecordUseFails
    <3> QED  BY <1>1, <3>2, <3>3
  <2>3. /\ available' = Append(available, mover.slot)
        /\ slot' \in {Pending(mover.slot), Lost(mover.slot)}
    BY <1>9 DEF RecordUse, RecordUseFails, Pending, Lost
  <2>4. available' \in Seq(Slots) /\ slot' \in [Slots -> SlotRecord]
    BY <1>1, <2>1, <2>3, MarkedAre
  <2> QED  BY <1>1, <1>9, <2>2, <2>4 DEF RecordUse, RecordUseFails
<1>10. CASE Drain
  BY <1>1, <1>10, PiecesAre DEF Drain, Slots
<1>11. CASE Exit \/ Killed
  <2>1. EndProcess
    BY <1>11 DEF Exit, Killed
  <2>2. [i \in 1 .. SlotCount |-> i] \in Seq(Slots)
    BY TransferAssumption DEF Slots
  <2> QED  BY <2>1, <2>2, PiecesAre DEF EndProcess, Slots
<1>12. CASE Capture \/ CaptureFails
  <2>1. mover.at = "copy" /\ mover.slot \in Slots
    BY <1>2, <1>12 DEF Capture, CaptureFails, At, MoverHolds, Holding
  <2>2. Copies \in Seq(Operation) /\ Event(mover.slot) \in Operation
    BY <1>1, <2>1, CopiesAre, PiecesAre
  <2>3. stream \o Copies \in Seq(Operation)
    BY <1>1, <2>2
  <2>4. Append(stream \o Copies, Event(mover.slot)) \in Seq(Operation)
    BY <2>2, <2>3
  <2>5. Append(available, mover.slot) \in Seq(Slots)
    BY <1>1, <2>1
  <2>6. stream' \in Seq(Operation) /\ available' \in Seq(Slots)
    BY <1>1, <1>12, <2>3, <2>4, <2>5 DEF Capture, CaptureFails
  <2>7. slot' \in {Pending(mover.slot), Lost(mover.slot)}
    BY <1>12 DEF Capture, CaptureFails, Pending, Lost
  <2>8. slot' \in [Slots -> SlotRecord]
    BY <1>1, <2>1, <2>7, MarkedAre
  <2> QED  BY <1>1, <1>12, <2>6, <2>8 DEF Capture, CaptureFails
<1>13. CASE Captured
  BY <1>1, <1>13 DEF Captured, SlotRecord
<1>14. ASSUME ReturnSlot
       PROVE  available' \in Seq(Slots) /\ slot' \in [Slots -> SlotRecord]
  <2>1. CASE mover.slot = 0
    BY <1>1, <1>14, <2>1 DEF ReturnSlot
  <2>2. CASE mover.slot # 0
    <3>1. /\ available' = Append(available, mover.slot) /\ mover.slot \in Slots
          /\ slot' = [slot EXCEPT ![mover.slot] = EmptySlot]
      BY <1>2, <1>14, <2>2 DEF ReturnSlot
    <3> QED  BY <1>1, <3>1, PiecesAre
  <2> QED  BY <2>1, <2>2
<1>15. CASE CopyFails \/ WriteBlock \/ PublishFails
  BY <1>1, <1>14, <1>15 DEF CopyFails, WriteBlock, PublishFails
<1>16. CASE Publish
  BY <1>1, <1>14, <1>16 DEF Publish
<1>17. ASSUME NEW n \in Prefixes, BeginRestore(n) \/ BeginCommit(n)
       PROVE  PoolOK'
  <2>1. UnitsOf(n) \subseteq Unit
    BY UnitsAre
  <2> QED  BY <1>1, <1>17, <2>1 DEF BeginRestore, BeginCommit, pool
<1>18. CASE Gpu
  <2> DEFINE op == Head(stream)
  <2>1. /\ op \in Operation /\ op.slot \in Slots /\ op.unit \in Unit
        /\ stream' = Tail(stream) /\ Tail(stream) \in Seq(Operation)
    BY <1>1, <1>18, GpuDoes DEF Operation
  <2>2. placed' \in {placed, placed \cup {op.unit}, placed \ {op.unit}}
    BY <1>1, <1>18, GpuDoes
  <2>3. slot' = slot \/ \E v \in Unit : slot' = [slot EXCEPT ![op.slot].data[op.offset] = v]
    BY <1>1, <1>18, <2>1, GpuDoes, PiecesAre
  <2>4. slot' \in [Slots -> SlotRecord]
    <3>1. \A v \in Unit : [slot EXCEPT ![op.slot].data[op.offset] = v] \in [Slots -> SlotRecord]
      BY <1>1, <2>1 DEF SlotRecord
    <3> HIDE DEF op
    <3> QED  BY <1>1, <2>3, <3>1
  <2>5. placed' \subseteq Unit
    <3> HIDE DEF op
    <3> QED  BY <1>1, <2>1, <2>2
  <2> QED  BY <1>1, <1>18, <2>1, <2>4, <2>5 DEF Gpu
<1>19. ASSUME NEW s \in 1 .. SlotCount, CloseSlot(s)
       PROVE  PoolOK'
  BY <1>1, <1>19 DEF CloseSlot, SlotRecord, Slots
<1> QED  BY <1>3, <1>4, <1>5, <1>6, <1>7, <1>8, <1>9, <1>10, <1>11, <1>12, <1>13,
            <1>15, <1>16, <1>17, <1>18, <1>19, WhoChangesPool

\* Every step keeps types, locks and the mover's hold on its slot.
LEMMA BaseKept ==
  ASSUME Base, Next
  PROVE  Base'
BY MoverKept, DiskTyped, ReadersTyped, LocksKept, PoolTyped DEF Base, TypeOK

\* Stuttering.
LEMMA BaseStutters ==
  ASSUME Base, UNCHANGED vars
  PROVE  Base'
BY DEF Base, TypeOK, DiskOK, PoolOK, ThreadsOK, MoverOK, ReadersOK, Locks, MoverHolds,
       Key, Batch, BatchEnd, vars

\* They hold before the first worker starts.
LEMMA BaseInitially ==
  ASSUME Init
  PROVE  Base
<1>1. DiskOK /\ ThreadsOK
  BY DEF Init, DiskOK, ThreadsOK, Threads
<1>2. PoolOK
  <2>1. [i \in 1 .. SlotCount |-> i] \in Seq(Slots) /\ <<>> \in Seq(Operation)
    BY TransferAssumption DEF Slots
  <2> QED  BY <2>1, PiecesAre DEF Init, PoolOK, Slots
<1>3. mover = IdleMover /\ mover \in MoverRecord /\ mover.at = "idle" /\ mover.failed = 0
      /\ mover.slot = 0
  BY DEF Init, IdleMover, MoverRecord, Steps
<1>4. MoverOK /\ MoverHolds
  BY <1>3 DEF MoverOK, MoverHolds, Holding
<1>5. ReadersOK
  <2>1. reader = [r \in Readers |-> IdleReader]
    BY DEF Init
  <2>2. IdleReader \in ReaderRecord /\ IdleReader.at = "idle"
    BY DEF IdleReader, ReaderRecord
  <2> QED  BY <2>1, <2>2 DEF ReadersOK
<1>6. Locks
  <2>1. NoThread \notin Scrubbers
    BY TransferAssumption
  <2> QED  BY <1>3, <2>1, StepsAre DEF Init, Locks
<1> QED  BY <1>1, <1>2, <1>4, <1>5, <1>6 DEF Base, TypeOK

---------------------------------------------------------------------------
(* Sequences.                                                              *)

\* A sequence with one more element.
LEMMA Appended ==
  ASSUME NEW S, NEW q \in Seq(S), NEW e \in S
  PROVE  /\ Len(q) \in Nat /\ Len(Append(q, e)) = Len(q) + 1
         /\ \A i \in 1 .. Len(q) : Append(q, e)[i] = q[i]
         /\ Append(q, e)[Len(q) + 1] = e
OBVIOUS

\* A sequence without its head.
LEMMA Tailed ==
  ASSUME NEW S, NEW q \in Seq(S), q # <<>>
  PROVE  /\ Len(q) \in Nat /\ Len(Tail(q)) = Len(q) - 1 /\ Len(q) >= 1
         /\ \A i \in 1 .. Len(q) - 1 : Tail(q)[i] = q[i + 1]
         /\ Head(q) = q[1]
OBVIOUS

\* Two sequences, one after the other.
LEMMA Joined ==
  ASSUME NEW S, NEW q \in Seq(S), NEW t \in Seq(S)
  PROVE  /\ Len(q) \in Nat /\ Len(t) \in Nat /\ Len(q \o t) = Len(q) + Len(t)
         /\ \A i \in 1 .. Len(q) : (q \o t)[i] = q[i]
         /\ \A i \in 1 .. Len(t) : (q \o t)[Len(q) + i] = t[i]
         /\ \A i \in 1 .. Len(q \o t) : i <= Len(q) \/ (i - Len(q)) \in 1 .. Len(t)
OBVIOUS

---------------------------------------------------------------------------
(* The slots are guarded.                                                  *)

\* A slot that can be waited for, and has been, is free: nothing of it is left in
\* the stream.
LEMMA FreeWhenDone ==
  ASSUME Base, PInv, NEW s \in Slots,
         s = mover.slot => mover.at \notin {"place", "record"},
         ~slot[s].record_failed, Completed(s)
  PROVE  Free(s)
<1> SUFFICES ASSUME NEW i \in 1 .. Len(stream), stream[i].slot = s
             PROVE  FALSE
  BY DEF Free
<1>1. PICK j \in i .. Len(stream) : stream[j].kind = "event" /\ stream[j].slot = s
  BY DEF PInv, Covered
<1>2. j \in 1 .. Len(stream)
  BY <1>1 DEF Base, TypeOK, PoolOK
<1> QED  BY <1>1, <1>2 DEF Completed

\* The same for a slot that is not pending, whoever wants it.
LEMMA FreeWhenReusable ==
  ASSUME Base, PInv, NEW s \in Slots, s # mover.slot,
         ~slot[s].record_failed, slot[s].pending => Completed(s)
  PROVE  Free(s)
<1>1. CASE slot[s].pending
  BY <1>1, FreeWhenDone
<1>2. CASE ~slot[s].pending
  BY <1>2 DEF PInv, InFlightGuarded, Free
<1> QED  BY <1>1, <1>2

\* Every operation in the stream is one, of a slot that is still mapped.
LEMMA InStream ==
  ASSUME Base, NEW i \in 1 .. Len(stream)
  PROVE  /\ stream[i] \in Operation /\ stream[i].slot \in Slots /\ stream[i].slot # 0
         /\ slot[stream[i].slot] \in SlotRecord
<1>1. stream[i] \in Operation /\ slot \in [Slots -> SlotRecord]
  BY DEF Base, TypeOK, PoolOK
<1>2. 0 \notin Slots
  BY TransferAssumption DEF Slots
<1> QED  BY <1>1, <1>2 DEF Operation

\* Of all that vLLM's thread does, only its end changes the mapping of the slots or
\* the state of the process.
LEMMA MoverStepFrame ==
  ASSUME MoverStep
  PROVE  Exit \/ UNCHANGED <<worker, mapped>>
<1>1. CASE Borrow \/ BorrowFails \/ OpenView \/ Open \/ Place \/ PlaceFails \/ ReceiveFails
  BY <1>1 DEF pool, Borrow, BorrowFails, OpenView, Open, Place, PlaceFails, ReceiveFails
<1>2. CASE TouchFails \/ CopyFails \/ RecordUse \/ RecordUseFails \/ Reject \/ Drain
  BY <1>2 DEF pool, TouchFails, CopyFails, RecordUse, RecordUseFails, Reject, Drain
<1>3. CASE LeaveView \/ TakeLock \/ Check \/ BorrowCpu \/ Verdict \/ Capture
  BY <1>3 DEF pool, LeaveView, TakeLock, Check, BorrowCpu, Verdict, Capture
<1>4. CASE CaptureFails \/ Captured \/ WriteBlock \/ Publish \/ PublishFails \/ Announce \/ Skip
  BY <1>4 DEF pool, CaptureFails, Captured, WriteBlock, Publish, PublishFails, Announce, Skip
<1> QED  BY <1>1, <1>2, <1>3, <1>4 DEF MoverStep

\* Steps of the other threads leave the mover, the pool and the pages alone.
LEMMA OtherSteps ==
  ASSUME Next
  PROVE  \/ MoverStep
         \/ \E n \in Prefixes : BeginRestore(n) \/ BeginCommit(n)
         \/ Gpu \/ Killed \/ \E s \in 1 .. SlotCount : CloseSlot(s)
         \/ UNCHANGED <<mover, pool, placed>>
<1>1. CASE \E r \in Readers : ReaderStep(r) \/ \E n \in Prefixes : BeginRead(r, n)
  BY <1>1 DEF ReaderStep, ReaderView, ReaderBorrow, Read, ReaderReject, ReaderLeave,
              BeginRead
<1>2. CASE \E s \in Scrubbers : ScrubStep(s) \/ \E k \in Keys : BeginScrub(s, k)
  BY <1>2 DEF ScrubStep, ScrubBorrow, ScrubVerdict, BeginScrub
<1>3. CASE \E k \in Keys : Evict(k) \/ Damage(k)
  BY <1>3 DEF Evict, Damage
<1>4. CASE BeginShutdown \/ CloseRaises \/ CloseStore \/ Restart
  BY <1>4 DEF BeginShutdown, CloseRaises, CloseStore, Restart
<1> QED  BY <1>1, <1>2, <1>3, <1>4 DEF Next, CloseStep

\* A process that does not run has nothing under way.
LEMMA QuietKept ==
  ASSUME Base, PInv, Next
  PROVE  Quiet'
<1>1. Quiet
  BY DEF PInv
<1>2. CASE Exit \/ Killed
  BY <1>2 DEF Exit, Killed, EndProcess, Quiet, IdleMover, Slots
<1>3. CASE MoverStep /\ ~Exit
  <2>1. worker = "running" /\ worker' = "running" /\ mapped' = mapped
    BY <1>3, SameTransfer, MoverStepFrame DEF Base
  <2> QED  BY <1>1, <2>1 DEF Quiet
<1>4. CASE \E n \in Prefixes : BeginRestore(n) \/ BeginCommit(n)
  BY <1>1, <1>4 DEF BeginRestore, BeginCommit, At, Running, pool, Quiet
<1>5. CASE Gpu
  BY <1>1, <1>5 DEF Gpu, Quiet
<1>6. CASE \E s \in 1 .. SlotCount : CloseSlot(s)
  BY <1>1, <1>6 DEF CloseSlot, Quiet
<1>7. CASE UNCHANGED <<mover, pool, placed>> /\ ~MoverStep /\ ~Killed
           /\ ~\E n \in Prefixes : BeginRestore(n) \/ BeginCommit(n)
  BY <1>1, <1>7, WhoMovesTheMover DEF Quiet, pool
<1> QED  BY <1>2, <1>3, <1>4, <1>5, <1>6, <1>7, OtherSteps

\* What the guards say of one operation.
GuardedOp(i) ==
  /\ stream[i].slot \in mapped
  /\ stream[i].slot # mover.slot => slot[stream[i].slot].pending

CoveredOp(i) ==
  \/ \E j \in i .. Len(stream) :
       stream[j].kind = "event" /\ stream[j].slot = stream[i].slot
  \/ slot[stream[i].slot].record_failed
  \/ stream[i].slot = mover.slot /\ mover.at \in {"place", "record"}

Guards == InFlightGuarded /\ Covered /\ HeldSlot

\* Between transfers, or with nothing in its hands, the mover cannot disturb them.
LEMMA EmptyHanded ==
  ASSUME Base, PInv, UNCHANGED pool, mover.slot = 0, mover'.slot = 0
  PROVE  Guards'
<1>1. ASSUME NEW i \in 1 .. Len(stream)
      PROVE  GuardedOp(i)' /\ CoveredOp(i)'
  <2>1. stream[i].slot # 0
    BY InStream
  <2>2. GuardedOp(i) /\ CoveredOp(i)
    BY DEF PInv, InFlightGuarded, Covered, GuardedOp, CoveredOp
  <2>3. GuardedOp(i)'
    BY <2>1, <2>2 DEF GuardedOp, pool
  <2>4. CoveredOp(i)'
    BY <2>1, <2>2 DEF CoveredOp, pool
  <2> QED  BY <2>3, <2>4
<1>2. InFlightGuarded'
  BY <1>1 DEF InFlightGuarded, GuardedOp, pool
<1>3. Covered'
  BY <1>1 DEF Covered, CoveredOp, pool
<1>4. HeldSlot'
  BY DEF HeldSlot
<1> QED  BY <1>2, <1>3, <1>4 DEF Guards

\* An empty stream is guarded, if no slot in hand is beyond waiting for.
LEMMA EmptyStream ==
  ASSUME stream' = <<>>, mover'.slot = 0
  PROVE  Guards'
BY DEF Guards, InFlightGuarded, Covered, HeldSlot

\* A slot without copies in the stream may be taken, handed back or waited for.
LEMMA FreeSlot ==
  ASSUME Base, Base', PInv, NEW s \in Slots, Free(s),
         stream' = stream, mapped' = mapped,
         mover.slot \in {s, 0}, mover'.slot \in {s, 0},
         \A t \in Slots : t # s =>
           /\ slot'[t].pending = slot[t].pending
           /\ slot'[t].record_failed = slot[t].record_failed,
         mover'.slot = s => ~slot'[s].record_failed
  PROVE  Guards'
<1>1. ASSUME NEW i \in 1 .. Len(stream)
      PROVE  GuardedOp(i)' /\ CoveredOp(i)'
  <2>1. stream[i].slot # 0 /\ stream[i].slot # s /\ stream[i].slot \in Slots
    BY InStream DEF Free
  <2>2. GuardedOp(i) /\ CoveredOp(i)
    BY DEF PInv, InFlightGuarded, Covered, GuardedOp, CoveredOp
  <2>3. GuardedOp(i)'
    BY <2>1, <2>2 DEF GuardedOp
  <2>4. CoveredOp(i)'
    BY <2>1, <2>2 DEF CoveredOp
  <2> QED  BY <2>3, <2>4
<1>2. InFlightGuarded'
  BY <1>1 DEF InFlightGuarded, GuardedOp
<1>3. Covered'
  BY <1>1 DEF Covered, CoveredOp
<1>4. HeldSlot'
  BY DEF HeldSlot, Free
<1> QED  BY <1>2, <1>3, <1>4 DEF Guards

\* Operations of the slot in hand are added: it is marked before it is given back,
\* with its event behind them or as one that has none.
LEMMA AddedToSlot ==
  ASSUME Base, Base', PInv, NEW s \in Slots, mover.slot = s, mover'.slot \in {s, 0},
         mapped' = mapped, s \in mapped, Len(stream') >= Len(stream),
         \A i \in 1 .. Len(stream) : stream'[i] = stream[i],
         \A i \in 1 .. Len(stream') : i > Len(stream) => stream'[i].slot = s,
         \A t \in Slots : t # s =>
           /\ slot'[t].pending = slot[t].pending
           /\ slot'[t].record_failed = slot[t].record_failed,
         mover'.slot = 0 => slot'[s].pending,
         mover'.slot = s =>
           ~slot'[s].record_failed /\ mover'.at \notin {"copy", "write", "publish"},
         \/ slot'[s].record_failed
         \/ mover'.slot = s /\ mover'.at \in {"place", "record"}
         \/ /\ Len(stream') > Len(stream)
            /\ stream'[Len(stream')].kind = "event" /\ stream'[Len(stream')].slot = s
  PROVE  Guards'
<1>1. Len(stream) \in Nat /\ Len(stream') \in Nat
  BY DEF Base, TypeOK, PoolOK
<1>2. ASSUME NEW i \in 1 .. Len(stream')
      PROVE  GuardedOp(i)' /\ CoveredOp(i)'
  <2>1. CASE stream'[i].slot = s
    <3>1. GuardedOp(i)'
      BY <2>1 DEF GuardedOp
    <3>2. CoveredOp(i)'
      BY <1>1, <2>1 DEF CoveredOp
    <3> QED  BY <3>1, <3>2
  <2>2. CASE stream'[i].slot # s
    <3>1. i \in 1 .. Len(stream) /\ stream'[i] = stream[i]
      BY <1>1, <2>2
    <3>2. GuardedOp(i) /\ CoveredOp(i) /\ stream[i].slot \in Slots /\ stream[i].slot # 0
      BY <3>1, InStream DEF PInv, InFlightGuarded, Covered, GuardedOp, CoveredOp
    <3>3. GuardedOp(i)'
      BY <2>2, <3>1, <3>2 DEF GuardedOp
    <3>4. CASE slot[stream[i].slot].record_failed
      <4>1. slot'[stream'[i].slot].record_failed
        BY <2>2, <3>1, <3>2, <3>4
      <4> QED  BY <3>3, <4>1 DEF CoveredOp
    <3>5. CASE \E j \in i .. Len(stream) :
                 stream[j].kind = "event" /\ stream[j].slot = stream[i].slot
      <4>1. PICK j \in i .. Len(stream) :
              stream[j].kind = "event" /\ stream[j].slot = stream[i].slot
        BY <3>5
      <4>2. j \in 1 .. Len(stream) /\ j \in i .. Len(stream')
        BY <1>1, <3>1
      <4>3. stream'[j] = stream[j]
        BY <4>2
      <4>4. stream'[j].kind = "event" /\ stream'[j].slot = stream'[i].slot
        BY <3>1, <4>1, <4>3
      <4> QED  BY <3>3, <4>2, <4>4 DEF CoveredOp
    <3> QED  BY <2>2, <3>2, <3>4, <3>5 DEF CoveredOp
  <2> QED  BY <2>1, <2>2
<1>3. InFlightGuarded'
  BY <1>2 DEF InFlightGuarded, GuardedOp
<1>4. Covered'
  BY <1>2 DEF Covered, CoveredOp
<1>5. HeldSlot'
  BY DEF HeldSlot
<1> QED  BY <1>3, <1>4, <1>5 DEF Guards

\* No step of vLLM's thread leaves an operation unguarded.
LEMMA MoverStepGuards ==
  ASSUME Base, Base', PInv, MoverStep
  PROVE  Guards'
<1>1. /\ MoverOK /\ mover \in MoverRecord /\ PoolOK /\ slot \in [Slots -> SlotRecord]
      /\ stream \in Seq(Operation) /\ Len(stream) \in Nat
  BY DEF Base, TypeOK, MoverOK, PoolOK
<1>2. worker = "running" /\ mapped = Slots
  BY SameTransfer DEF Base, PInv, Quiet
<1>3. mover.slot \in Slots \cup {0} /\ 0 \notin Slots
  BY <1>1, TransferAssumption DEF MoverRecord, Slots
<1>4. mover'.at \notin Holding \cup {"publish"} => mover'.slot = 0
  BY DEF Base, MoverHolds
<1>5. CASE OpenView \/ Open \/ TouchFails \/ Reject \/ LeaveView
  <2>1. UNCHANGED pool /\ mover.slot = 0
    BY <1>5 DEF OpenView, Open, TouchFails, Reject, LeaveView, At, Base, MoverHolds, Holding
  <2>2. mover'.slot = 0
    <3>1. CASE OpenView
      BY <1>1, <2>1, <3>1 DEF OpenView, MoverRecord
    <3>2. CASE Open
      BY <1>1, <2>1, <3>2 DEF Open, MoverRecord
    <3>3. CASE TouchFails \/ Reject
      BY <1>1, <2>1, <3>3 DEF TouchFails, Reject, Goto, MoverRecord
    <3>4. CASE LeaveView
      BY <1>1, <2>1, <3>4 DEF LeaveView, IdleMover, MoverRecord
    <3> QED  BY <1>5, <3>1, <3>2, <3>3, <3>4
  <2> QED  BY <2>1, <2>2, EmptyHanded
<1>6. CASE TakeLock \/ BorrowCpu \/ Announce \/ Skip
  <2>1. UNCHANGED pool /\ mover.slot = 0
    BY <1>6 DEF TakeLock, BorrowCpu, Announce, Skip, At, Base, MoverHolds, Holding
  <2>2. mover'.slot = 0
    BY <1>1, <1>6, <2>1 DEF TakeLock, BorrowCpu, Announce, Skip, Goto, IdleMover, MoverRecord
  <2> QED  BY <2>1, <2>2, EmptyHanded
<1>7. CASE Check \/ Verdict
  <2>1. UNCHANGED pool /\ mover.slot = 0
    BY <1>7 DEF Check, Verdict, At, Base, MoverHolds, Holding
  <2>2. mover'.slot = 0
    <3>1. CASE mover' = [mover EXCEPT !.at = "authenticate"]
      BY <1>1, <2>1, <3>1 DEF MoverRecord
    <3>2. CASE \E m : mover' = Checked(m)
      BY <1>1, <2>1, <3>2, CheckedKeeps
    <3> QED  BY <1>7, <3>1, <3>2 DEF Check, Verdict, Goto
  <2> QED  BY <2>1, <2>2, EmptyHanded
<1>8. CASE Exit
  BY <1>8, EmptyStream DEF Exit, EndProcess, IdleMover
<1>9. CASE Drain
  <2>1. stream' = <<>> /\ mover'.slot = 0
    BY <1>1, <1>4, <1>9 DEF Drain, Goto, At, MoverRecord, Holding
  <2> QED  BY <2>1, EmptyStream
<1>10. CASE BorrowFails
  <2>1. stream' = stream /\ slot' = slot /\ mapped' = mapped /\ mover.slot = 0
    BY <1>10 DEF BorrowFails, At, Base, MoverHolds, Holding
  <2>2. mover'.slot = 0
    BY <1>1, <1>10, <2>1 DEF BorrowFails, MoverRecord
  <2>3. PICK s \in Slots : s = Head(available)
    BY <1>1, <1>10 DEF BorrowFails, PoolOK
  <2>4. ASSUME NEW i \in 1 .. Len(stream)
        PROVE  GuardedOp(i)' /\ CoveredOp(i)'
    <3>1. stream[i].slot # 0 /\ GuardedOp(i) /\ CoveredOp(i)
      BY InStream DEF PInv, InFlightGuarded, Covered, GuardedOp, CoveredOp
    <3>2. GuardedOp(i)'
      BY <2>1, <3>1 DEF GuardedOp
    <3>3. CoveredOp(i)'
      BY <2>1, <3>1 DEF CoveredOp
    <3> QED  BY <3>2, <3>3
  <2> QED  BY <2>1, <2>2, <2>4 DEF Guards, InFlightGuarded, Covered, HeldSlot, GuardedOp,
                                   CoveredOp
<1>11. CASE Borrow
  <2>1. PICK s \in Slots : s = Head(available)
    BY <1>1, <1>11 DEF Borrow, PoolOK
  <2>2. mover.slot = 0 /\ mover'.slot = s
    BY <1>1, <1>11, <2>1 DEF Borrow, At, Base, MoverHolds, Holding, MoverRecord
  <2>3. ~slot[s].record_failed /\ (slot[s].pending => Completed(s))
    BY <1>11, <2>1 DEF Borrow
  <2>4. Free(s)
    BY <1>3, <2>2, <2>3, FreeWhenReusable
  <2>5. slot' = [slot EXCEPT ![s] = EmptySlot] /\ stream' = stream /\ mapped' = mapped
    BY <1>11, <2>1 DEF Borrow
  <2>6. /\ ~slot'[s].record_failed
        /\ \A t \in Slots : t # s => slot'[t] = slot[t]
    BY <1>1, <2>5, PiecesAre
  <2> QED  BY <2>2, <2>4, <2>5, <2>6, FreeSlot
<1>12. CASE Place \/ PlaceFails \/ ReceiveFails
  <2>1. PICK s \in Slots : s = mover.slot /\ mover.at = "place"
    BY <1>3, <1>12 DEF Place, PlaceFails, ReceiveFails, At, Base, MoverHolds, Holding
  <2>2. mover'.slot = s /\ mover'.at \in {"place", "record"}
    BY <1>1, <1>12, <2>1 DEF Place, PlaceFails, ReceiveFails, MoverRecord
  <2>3. \A t \in Slots : /\ slot'[t].pending = slot[t].pending
                         /\ slot'[t].record_failed = slot[t].record_failed
    BY <1>1, <1>12 DEF Place, PlaceFails, ReceiveFails, SlotRecord
  <2>4. ~slot[s].record_failed
    BY <1>3, <2>1 DEF PInv, HeldSlot
  <2>5. PICK op \in Operation :
          op = Copy("h2d", mover.slot, mover.next - mover.cursor + 1, <<Key, mover.block>>)
          /\ op.slot = s
    BY <1>1, <2>1, PlacedIs
  <2>6. stream' = stream \/ stream' = Append(stream, op)
    BY <1>12, <2>5 DEF Place, PlaceFails, ReceiveFails
  <2>7. /\ Len(stream') >= Len(stream)
        /\ \A i \in 1 .. Len(stream) : stream'[i] = stream[i]
        /\ \A i \in 1 .. Len(stream') : i > Len(stream) => stream'[i].slot = s
    BY <1>1, <2>5, <2>6, Appended
  <2>8. mapped' = mapped
    BY <1>12 DEF Place, PlaceFails, ReceiveFails
  <2> QED  BY <1>2, <1>3, <2>1, <2>2, <2>3, <2>4, <2>7, <2>8, AddedToSlot
<1>13. CASE RecordUse
  <2>1. PICK s \in Slots : s = mover.slot
    BY <1>3, <1>13 DEF RecordUse, At, Base, MoverHolds, Holding
  <2>2. stream' = Append(stream, Event(s)) /\ slot' = Pending(s) /\ mapped' = mapped
    BY <1>13, <2>1 DEF RecordUse, Pending
  <2>3. mover'.slot = 0
    <3>1. MoverHolds'
      BY DEF Base
    <3>2. mover'.at \in {"reject", "get", "open", "drain"}
      <4>1. AfterBatch.at \in {"reject", "get", "open", "drain"}
        BY <1>1 DEF AfterBatch, FirstStep, MoverRecord, MoverOK
      <4>2. mover'.at = AfterBatch.at
        BY <1>13 DEF RecordUse, Released
      <4> QED  BY <4>1, <4>2
    <3> QED  BY <3>1, <3>2 DEF MoverHolds, Holding
  <2>4. /\ \A t \in Slots : t # s =>
             /\ slot'[t].pending = slot[t].pending
             /\ slot'[t].record_failed = slot[t].record_failed
        /\ slot'[s].pending
    BY <1>1, <2>2, MarkedAre
  <2>5. /\ Event(s) \in Operation /\ Event(s).slot = s /\ Event(s).kind = "event"
    BY PiecesAre
  <2>6. /\ Len(stream') = Len(stream) + 1
        /\ \A i \in 1 .. Len(stream) : stream'[i] = stream[i]
        /\ stream'[Len(stream) + 1] = Event(s)
    BY <1>1, <2>2, <2>5, Appended
  <2>7. \A i \in 1 .. Len(stream') : i > Len(stream) => stream'[i].slot = s
    BY <1>1, <2>5, <2>6
  <2>8. stream'[Len(stream')].kind = "event" /\ stream'[Len(stream')].slot = s
    BY <2>5, <2>6
  <2> QED  BY <1>1, <1>2, <1>3, <2>1, <2>2, <2>3, <2>4, <2>6, <2>7, <2>8, AddedToSlot
<1>14. CASE RecordUseFails
  <2>1. PICK s \in Slots : s = mover.slot
    BY <1>3, <1>14 DEF RecordUseFails, At, Base, MoverHolds, Holding
  <2>2. stream' = stream /\ slot' = Lost(s) /\ mapped' = mapped /\ mover'.slot = 0
    BY <1>1, <1>14, <2>1 DEF RecordUseFails, Lost, Released, MoverRecord
  <2>3. /\ \A t \in Slots : t # s =>
             /\ slot'[t].pending = slot[t].pending
             /\ slot'[t].record_failed = slot[t].record_failed
        /\ slot'[s].pending /\ slot'[s].record_failed
    BY <1>1, <2>2, MarkedAre
  <2> QED  BY <1>1, <1>2, <1>3, <2>1, <2>2, <2>3, AddedToSlot
<1>15. CASE Capture
  <2>1. PICK s \in Slots : s = mover.slot /\ mover.at = "copy"
    BY <1>3, <1>15 DEF Capture, At, Base, MoverHolds, Holding
  <2>2. /\ stream' = Append(stream \o Copies, Event(s)) /\ slot' = Pending(s) /\ mapped' = mapped
        /\ mover'.slot = s /\ mover'.at = "wait"
    BY <1>1, <1>15, <2>1 DEF Capture, Pending, Goto, MoverRecord
  <2>3. ~slot[s].record_failed
    BY <1>3, <2>1 DEF PInv, HeldSlot
  <2>4. /\ \A t \in Slots : t # s =>
             /\ slot'[t].pending = slot[t].pending
             /\ slot'[t].record_failed = slot[t].record_failed
        /\ ~slot'[s].record_failed
    BY <1>1, <2>2, <2>3, MarkedAre
  <2>5. Event(s) \in Operation /\ Event(s).slot = s /\ Event(s).kind = "event"
    BY PiecesAre
  <2>6. /\ Copies \in Seq(Operation) /\ Len(Copies) \in Nat
        /\ \A i \in 1 .. Len(Copies) : Copies[i].slot = s
    BY <1>1, <2>1, CopiesAre
  <2>7. PICK q \in Seq(Operation) : q = stream \o Copies
    <3> HIDE DEF Copies
    <3>1. stream \o Copies \in Seq(Operation)
      BY <1>1, <2>6
    <3> QED  BY <3>1
  <2>8. /\ Len(q) = Len(stream) + Len(Copies) /\ Len(q) \in Nat
        /\ \A i \in 1 .. Len(stream) : q[i] = stream[i]
        /\ \A i \in 1 .. Len(q) : i > Len(stream) => q[i].slot = s
    <3>1. \A i \in 1 .. Len(q) : i > Len(stream) =>
             q[i] = Copies[i - Len(stream)] /\ i - Len(stream) \in 1 .. Len(Copies)
      BY <1>1, <2>6, <2>7
    <3> QED  BY <1>1, <2>6, <2>7, <3>1, Joined
  <2>9. /\ Len(stream') = Len(q) + 1
        /\ \A i \in 1 .. Len(q) : stream'[i] = q[i]
        /\ stream'[Len(q) + 1] = Event(s)
    BY <2>2, <2>5, <2>7, Appended
  <2>10. /\ Len(stream') > Len(stream)
         /\ \A i \in 1 .. Len(stream) : stream'[i] = stream[i]
         /\ \A i \in 1 .. Len(stream') : i > Len(stream) => stream'[i].slot = s
         /\ stream'[Len(stream')].kind = "event" /\ stream'[Len(stream')].slot = s
    <3>1. Len(stream') > Len(stream) /\ Len(stream') = Len(q) + 1
      BY <1>1, <2>6, <2>8, <2>9
    <3>2. ASSUME NEW i \in 1 .. Len(stream)
          PROVE  stream'[i] = stream[i]
      <4>1. i \in 1 .. Len(q)
        BY <1>1, <2>6, <2>8
      <4> QED  BY <2>8, <2>9, <4>1
    <3>3. ASSUME NEW i \in 1 .. Len(stream'), i > Len(stream)
          PROVE  stream'[i].slot = s
      <4>1. i \in 1 .. Len(q) \/ i = Len(q) + 1
        BY <2>8, <3>1
      <4> QED  BY <2>5, <2>8, <2>9, <3>3, <4>1
    <3>4. stream'[Len(stream')] = Event(s)
      BY <2>9, <3>1
    <3> QED  BY <2>5, <3>1, <3>2, <3>3, <3>4
  <2>11. Len(stream') >= Len(stream)
    BY <1>1, <2>6, <2>8, <2>9
  <2> QED  BY <1>2, <1>3, <2>1, <2>2, <2>4, <2>10, <2>11, AddedToSlot
<1>16. CASE CaptureFails
  <2>1. PICK s \in Slots : s = mover.slot /\ mover.at = "copy"
    BY <1>3, <1>16 DEF CaptureFails, At, Base, MoverHolds, Holding
  <2>2. /\ stream' = stream \o Copies /\ slot' = Lost(s) /\ mapped' = mapped /\ mover'.slot = 0
    BY <1>1, <1>16, <2>1 DEF CaptureFails, Lost, Released, MoverRecord
  <2>3. /\ \A t \in Slots : t # s =>
             /\ slot'[t].pending = slot[t].pending
             /\ slot'[t].record_failed = slot[t].record_failed
        /\ slot'[s].pending /\ slot'[s].record_failed
    BY <1>1, <2>2, MarkedAre
  <2>4. /\ Copies \in Seq(Operation) /\ Len(Copies) \in Nat
        /\ \A i \in 1 .. Len(Copies) : Copies[i].slot = s
    BY <1>1, <2>1, CopiesAre
  <2>5. /\ Len(stream') >= Len(stream)
        /\ \A i \in 1 .. Len(stream) : stream'[i] = stream[i]
        /\ \A i \in 1 .. Len(stream') : i > Len(stream) => stream'[i].slot = s
    <3>1. \A i \in 1 .. Len(stream') : i > Len(stream) =>
             stream'[i] = Copies[i - Len(stream)] /\ i - Len(stream) \in 1 .. Len(Copies)
      BY <1>1, <2>2, <2>4
    <3> QED  BY <1>1, <2>2, <2>4, <3>1, Joined
  <2> QED  BY <1>2, <1>3, <2>1, <2>2, <2>3, <2>5, AddedToSlot
<1>17. CASE Captured
  <2>1. PICK s \in Slots : s = mover.slot /\ mover.at = "wait" /\ Completed(s)
    BY <1>3, <1>17 DEF Captured, At, Base, MoverHolds, Holding
  <2>2. ~slot[s].record_failed
    BY <1>3, <2>1 DEF PInv, HeldSlot
  <2>3. Free(s)
    BY <2>1, <2>2, FreeWhenDone
  <2>4. /\ stream' = stream /\ mapped' = mapped /\ mover'.slot = s
        /\ slot' = [slot EXCEPT ![s].pending = FALSE]
    BY <1>1, <1>17, <2>1 DEF Captured, Goto, MoverRecord
  <2>5. /\ \A t \in Slots : t # s => slot'[t] = slot[t]
        /\ ~slot'[s].record_failed
    BY <1>1, <2>2, <2>4 DEF SlotRecord
  <2> QED  BY <2>1, <2>3, <2>4, <2>5, FreeSlot
<1>18. ASSUME ReturnSlot, UNCHANGED <<stream, mapped>>, mover'.slot = 0,
              mover.slot # 0 => Free(mover.slot)
       PROVE  Guards'
  <2>1. CASE mover.slot = 0
    BY <1>18, <2>1, EmptyHanded DEF ReturnSlot, pool
  <2>2. CASE mover.slot # 0
    <3>1. PICK s \in Slots : s = mover.slot
      BY <1>3, <2>2
    <3>2. \A t \in Slots : t # s => slot'[t] = slot[t]
      BY <1>1, <1>18, <2>2, <3>1 DEF ReturnSlot
    <3> QED  BY <1>3, <1>18, <2>2, <3>1, <3>2, FreeSlot
  <2> QED  BY <2>1, <2>2
<1>19. CASE CopyFails
  <2>1. PICK s \in Slots : s = mover.slot /\ mover.at = "wait" /\ Completed(s)
    BY <1>3, <1>19 DEF CopyFails, At, Base, MoverHolds, Holding
  <2>2. ~slot[s].record_failed
    BY <1>3, <2>1 DEF PInv, HeldSlot
  <2>3. Free(s)
    BY <2>1, <2>2, FreeWhenDone
  <2>4. ReturnSlot /\ UNCHANGED <<stream, mapped>> /\ mover'.slot = 0
    BY <1>1, <1>19 DEF CopyFails, Released, MoverRecord
  <2> QED  BY <1>18, <2>1, <2>3, <2>4
<1>20. CASE WriteBlock
  <2>1. mover.slot # 0 => Free(mover.slot)
    BY <1>20 DEF WriteBlock, At, PInv, HeldSlot
  <2>2. ReturnSlot /\ UNCHANGED <<stream, mapped>> /\ mover'.slot = 0
    BY <1>1, <1>20 DEF WriteBlock, Released, MoverRecord
  <2> QED  BY <1>18, <2>1, <2>2
<1>21. CASE PublishFails
  <2>1. mover.slot # 0 => Free(mover.slot)
    BY <1>21 DEF PublishFails, At, PInv, HeldSlot
  <2>2. ReturnSlot /\ UNCHANGED <<stream, mapped>> /\ mover'.slot = 0
    BY <1>1, <1>21 DEF PublishFails, Released, MoverRecord
  <2> QED  BY <1>18, <2>1, <2>2
<1>22. CASE Publish
  <2>1. (mover.slot # 0 => Free(mover.slot)) /\ UNCHANGED <<stream, mapped>>
    BY <1>22 DEF Publish, At, PInv, HeldSlot
  <2>2. CASE mover' = NextBatch(Released(mover)) /\ ReturnSlot
    <3>1. mover'.slot = 0
      BY <1>1, <2>2, NextBatchKeeps, ReleasedIs
    <3> QED  BY <1>18, <2>1, <2>2, <3>1
  <2>3. CASE /\ mover' = [mover EXCEPT !.next = Min({i \in mover.missing : i > mover.next})]
             /\ UNCHANGED <<available, slot>>
    <3>1. mover'.slot = mover.slot
      BY <1>1, <2>3 DEF MoverRecord
    <3>2. CASE mover.slot = 0
      BY <2>1, <2>3, <3>1, <3>2, EmptyHanded DEF pool
    <3>3. CASE mover.slot # 0
      <4>1. PICK s \in Slots : s = mover.slot
        BY <1>3, <3>3
      <4>2. ~slot[s].record_failed
        BY <1>3, <4>1 DEF PInv, HeldSlot
      <4> QED  BY <2>1, <2>3, <3>1, <3>3, <4>1, <4>2, FreeSlot
    <3> QED  BY <3>2, <3>3
  <2> QED  BY <1>22, <2>2, <2>3 DEF Publish
<1> QED  BY <1>5, <1>6, <1>7, <1>8, <1>9, <1>10, <1>11, <1>12, <1>13, <1>14, <1>15,
            <1>16, <1>17, <1>19, <1>20, <1>21, <1>22 DEF MoverStep

\* A step of the GPU takes an operation off the stream and changes bytes only.
LEMMA GpuGuards ==
  ASSUME Base, Base', PInv, Gpu
  PROVE  Guards'
<1>1. /\ PoolOK /\ stream \in Seq(Operation) /\ slot \in [Slots -> SlotRecord]
      /\ Len(stream) \in Nat
  BY DEF Base, TypeOK, PoolOK
<1>2. /\ stream # <<>> /\ stream' = Tail(stream)
      /\ mover' = mover /\ mapped' = mapped
  BY <1>1, GpuDoes DEF Gpu
<1>3. /\ Len(stream') = Len(stream) - 1 /\ Len(stream) >= 1
      /\ \A i \in 1 .. Len(stream) - 1 : stream'[i] = stream[i + 1]
  BY <1>1, <1>2, Tailed
<1>4. \A t \in Slots : /\ slot'[t].pending = slot[t].pending
                       /\ slot'[t].record_failed = slot[t].record_failed
  BY <1>1, GpuDoes DEF SlotRecord
<1>5. ASSUME NEW i \in 1 .. Len(stream')
      PROVE  GuardedOp(i)' /\ CoveredOp(i)'
  <2>1. i + 1 \in 1 .. Len(stream) /\ stream'[i] = stream[i + 1]
    BY <1>1, <1>3
  <2>2. GuardedOp(i + 1) /\ CoveredOp(i + 1) /\ stream[i + 1].slot \in Slots
    BY <2>1, InStream DEF PInv, InFlightGuarded, Covered, GuardedOp, CoveredOp
  <2>3. GuardedOp(i)'
    BY <1>2, <1>4, <2>1, <2>2 DEF GuardedOp
  <2>4. CASE slot[stream[i + 1].slot].record_failed
    BY <1>4, <2>1, <2>2, <2>3, <2>4 DEF CoveredOp
  <2>5. CASE \E j \in i + 1 .. Len(stream) :
               stream[j].kind = "event" /\ stream[j].slot = stream[i + 1].slot
    <3>1. PICK j \in i + 1 .. Len(stream) :
            stream[j].kind = "event" /\ stream[j].slot = stream[i + 1].slot
      BY <2>5
    <3>2. j - 1 \in i .. Len(stream') /\ j - 1 \in 1 .. Len(stream) - 1 /\ (j - 1) + 1 = j
      BY <1>1, <1>3
    <3>3. stream'[j - 1] = stream[j]
      BY <1>3, <3>2
    <3> QED  BY <2>1, <2>3, <3>1, <3>2, <3>3 DEF CoveredOp
  <2>6. CASE stream[i + 1].slot = mover.slot /\ mover.at \in {"place", "record"}
    BY <1>2, <2>1, <2>3, <2>6 DEF CoveredOp
  <2> QED  BY <2>2, <2>4, <2>5, <2>6 DEF CoveredOp
<1>6. InFlightGuarded'
  BY <1>5 DEF InFlightGuarded, GuardedOp
<1>7. Covered'
  BY <1>5 DEF Covered, CoveredOp
<1>8. HeldSlot'
  <2> SUFFICES ASSUME mover.slot # 0
               PROVE  /\ ~slot'[mover.slot].record_failed
                      /\ mover.at \in {"copy", "write", "publish"} => Free(mover.slot)'
    BY <1>2 DEF HeldSlot
  <2>1. mover.slot \in Slots
    BY DEF Base, TypeOK, MoverOK, MoverRecord
  <2>2. /\ ~slot[mover.slot].record_failed
        /\ mover.at \in {"copy", "write", "publish"} => Free(mover.slot)
    BY DEF PInv, HeldSlot
  <2>3. Free(mover.slot) => \A i \in 1 .. Len(stream') : stream'[i].slot # mover.slot
    <3> SUFFICES ASSUME Free(mover.slot), NEW i \in 1 .. Len(stream')
                 PROVE  stream'[i].slot # mover.slot
      OBVIOUS
    <3>1. i + 1 \in 1 .. Len(stream) /\ stream'[i] = stream[i + 1]
      BY <1>1, <1>3
    <3> QED  BY <3>1 DEF Free
  <2> QED  BY <1>2, <1>4, <2>1, <2>2, <2>3 DEF Free
<1> QED  BY <1>6, <1>7, <1>8 DEF Guards

\* A slot is unregistered when nothing of it is in the stream any more.
LEMMA CloseGuards ==
  ASSUME Base, Base', PInv, NEW s \in Slots, CloseSlot(s)
  PROVE  Guards'
<1>1. /\ mover' = mover /\ stream' = stream /\ mapped' = mapped \ {s}
      /\ slot' = [slot EXCEPT ![s].pending = FALSE]
      /\ ~slot[s].record_failed /\ (slot[s].pending => Completed(s))
  BY DEF CloseSlot
<1>2. mover.slot = 0 /\ 0 \notin Slots /\ slot \in [Slots -> SlotRecord]
  <2>1. mover.at = "idle" /\ 0 \notin Slots
    BY TransferAssumption DEF PInv, Quiet, CloseSlot, Slots
  <2> QED  BY <2>1 DEF Base, MoverHolds, Holding, TypeOK, PoolOK
<1>3. Free(s)
  BY <1>1, <1>2, FreeWhenReusable
<1>4. \A t \in Slots : t # s => slot'[t] = slot[t]
  BY <1>1, <1>2
<1>5. ASSUME NEW i \in 1 .. Len(stream)
      PROVE  GuardedOp(i)' /\ CoveredOp(i)'
  <2>1. stream[i].slot \in Slots /\ stream[i].slot # s
    BY <1>3, InStream DEF Free
  <2>2. GuardedOp(i) /\ CoveredOp(i)
    BY DEF PInv, InFlightGuarded, Covered, GuardedOp, CoveredOp
  <2>3. GuardedOp(i)'
    BY <1>1, <1>4, <2>1, <2>2 DEF GuardedOp
  <2>4. CoveredOp(i)'
    BY <1>1, <1>4, <2>1, <2>2 DEF CoveredOp
  <2> QED  BY <2>3, <2>4
<1>6. InFlightGuarded' /\ Covered'
  BY <1>1, <1>5 DEF InFlightGuarded, Covered, GuardedOp, CoveredOp
<1>7. HeldSlot'
  BY <1>1, <1>2 DEF HeldSlot
<1> QED  BY <1>6, <1>7 DEF Guards

\* Every step keeps the guards.
LEMMA PInvKept ==
  ASSUME Base, PInv, Next
  PROVE  PInv'
<1>1. Base'
  BY BaseKept
<1>2. CASE \E n \in Prefixes : BeginRestore(n) \/ BeginCommit(n)
  <2>1. UNCHANGED pool /\ mover.slot = 0 /\ mover'.slot = 0
    BY <1>2 DEF BeginRestore, BeginCommit, At, Base, MoverHolds, Holding, IdleMover
  <2> QED  BY <2>1, QuietKept, EmptyHanded DEF PInv, Guards
<1>3. CASE Killed
  BY <1>3, QuietKept, EmptyStream DEF PInv, Guards, Killed, EndProcess, IdleMover
<1>4. CASE MoverStep \/ Gpu \/ \E s \in 1 .. SlotCount : CloseSlot(s)
  BY <1>1, <1>4, QuietKept, MoverStepGuards, GpuGuards, CloseGuards DEF PInv, Guards, Slots
<1>5. CASE UNCHANGED <<mover, pool, placed>>
  <2>1. Guards'
    BY <1>5 DEF PInv, Guards, InFlightGuarded, Covered, HeldSlot, Free, pool
  <2> QED  BY <2>1, QuietKept DEF PInv, Guards
<1> QED  BY <1>2, <1>3, <1>4, <1>5, OtherSteps

\* Types, locks and guards hold from the start and in every step.
LEMMA BaseAndGuards ==
  Spec => [](Base /\ PInv)
<1>1. Init => Base /\ PInv
  <2> SUFFICES ASSUME Init
               PROVE  Base /\ PInv
    OBVIOUS
  <2>1. /\ stream = <<>> /\ mover.slot = 0 /\ mover.at = "idle"
        /\ mapped = Slots /\ placed = {}
    BY DEF Init, IdleMover, Slots
  <2>2. PInv
    BY <2>1 DEF PInv, InFlightGuarded, Quiet, Covered, HeldSlot
  <2> QED  BY <2>2, BaseInitially
<1>2. Base /\ PInv /\ [Next]_vars => (Base /\ PInv)'
  <2>1. CASE Next
    BY <2>1, BaseKept, PInvKept
  <2>2. CASE UNCHANGED vars
    <3>1. Base /\ PInv => PInv'
      BY <2>2 DEF PInv, InFlightGuarded, Quiet, Covered, HeldSlot, Free, vars
    <3> QED  BY <2>2, <3>1, BaseStutters
  <2> QED  BY <2>1, <2>2
<1> QED  BY <1>1, <1>2, PTL DEF Spec

\* A slot with work of the GPU on it is registered memory, and is marked for whoever
\* could borrow it (gpu.py: _PinnedSlot, record_use, wait_until_reusable, close).
THEOREM InFlightAlwaysGuarded ==
  Spec => []InFlightGuarded
<1>1. Base /\ PInv => InFlightGuarded
  BY DEF PInv
<1> QED  BY <1>1, BaseAndGuards, PTL

---------------------------------------------------------------------------
(* The bytes are right: the invariant.                                     *)

\* A copy to the GPU belongs to a restore that has not been drained, and finds its
\* bytes in the slot as long as nothing has failed.
RestoreOp(i) ==
  stream[i].kind = "h2d" =>
    /\ mover.task = "restore" /\ mover.at \notin {"view", "leave", "exit"}
    /\ stream[i].unit \in UnitsOf(mover.n)
    /\ stream[i].offset \in 1 .. SlotFiles
    /\ mover.good => slot[stream[i].slot].data[stream[i].offset] = stream[i].unit

OnlyRestores == \A i \in 1 .. Len(stream) : RestoreOp(i)

\* No slot is read by the GPU and written by it at the same time.
Unmixed ==
  \A i, j \in 1 .. Len(stream) :
    stream[i].kind = "h2d" /\ stream[j].kind = "d2h" => stream[i].slot # stream[j].slot

\* Where a restore is in its batch, and that the file it reads next has a place of
\* its own in the slot.
BatchPlaces ==
  /\ mover.task = "restore" /\ mover.at \in {"view", "open", "get"} =>
       mover.next = mover.cursor
  /\ mover.at \in {"place", "record"} =>
       /\ mover.next - mover.cursor < SlotFiles
       /\ mover.next = mover.cursor \/ Blocks(Key) = 1
  /\ mover.at = "place" =>
       \A i \in 1 .. Len(stream) : stream[i].slot = mover.slot =>
         stream[i].kind = "h2d" /\ stream[i].offset <= mover.next - mover.cursor

\* Block b of the file at position i of the prefix has been read.
Behind(i, b) ==
  \/ i < mover.next
  \/ i = mover.next /\ b < mover.block
  \/ i = mover.next /\ b = mover.block /\ mover.at = "record"
  \/ mover.at \in {"drain", "leave"}

\* It is in its pages, or on its way there.
Arrives(i, b) ==
  \/ <<Objects(mover.n)[i], b>> \in placed
  \/ \E j \in 1 .. Len(stream) :
       stream[j].kind = "h2d" /\ stream[j].unit = <<Objects(mover.n)[i], b>>

\* In a restore that is good so far everything that was read arrives.
Arriving ==
  mover.task = "restore" =>
    /\ mover.at \in {"view", "open", "get", "place"} => mover.good
    /\ placed \subseteq UnitsOf(mover.n)
    /\ mover.good /\ mover.at # "exit" =>
         \A i \in 1 .. Len(Objects(mover.n)) : \A b \in 1 .. Blocks(Objects(mover.n)[i]) :
           Behind(i, b) => Arrives(i, b)

Present(i) == file[Objects(mover.n)[i]] # "none"

\* What a commit has passed over is there, unless it is noted as missing.
Gathered ==
  /\ mover.at = "lock" => mover.cursor = 1 /\ mover.next = 1 /\ mover.missing = {}
  /\ mover.task = "commit" /\ mover.at \in LockedSteps =>
       /\ \A i \in 1 .. mover.cursor - 1 : Present(i)
       /\ mover.at \in {"check", "authenticate", "verdict"} =>
            /\ mover.missing \subseteq mover.cursor .. mover.next - 1
            /\ \A i \in mover.cursor .. mover.next - 1 : i \in mover.missing \/ Present(i)
       /\ mover.at \in {"authenticate", "verdict"} => Present(mover.next)
       /\ mover.at \in {"get", "copy", "wait", "write", "publish"} =>
            /\ mover.next \in mover.missing
            /\ \A i \in Batch : i \in mover.missing \/ Present(i)
            /\ \A i \in mover.missing : i < mover.next => Present(i)
       /\ mover.at = "announce" =>
            \A i \in 1 .. Len(Objects(mover.n)) : Present(i)

\* A copy of the capture that is waited for, and a lane of the slot.
CaptureOp(i) ==
  stream[i].slot = mover.slot /\ stream[i].kind = "d2h" =>
    stream[i].offset \in Lanes /\ stream[i].unit = Wanted(stream[i].offset)

Filled(o) == slot[mover.slot].data[o] = Wanted(o)

Comes(o) ==
  \E i \in 1 .. Len(stream) :
    stream[i].slot = mover.slot /\ stream[i].kind = "d2h" /\ stream[i].offset = o

\* Capturing: what is on its way to the slot, and what has arrived.
Captures ==
  mover.task = "commit" =>
    /\ placed = UnitsOf(mover.n)
    /\ mover.at \in {"get", "copy", "wait", "write", "publish"} => mover.right
    /\ mover.at = "write" => Blocks(Key) > 1
    /\ mover.at = "publish" => (mover.slot = 0 <=> Blocks(Key) > 1)
    /\ mover.at = "wait" =>
         /\ \A i \in 1 .. Len(stream) : CaptureOp(i)
         /\ \A o \in Lanes : Filled(o) \/ Comes(o)
    /\ (mover.at = "write" \/ (mover.at = "publish" /\ Blocks(Key) = 1)) =>
         \A o \in Lanes : Filled(o)

NeverWrong == \A k \in Keys : file[k] # "wrong"

DInv == OnlyRestores /\ Unmixed /\ BatchPlaces /\ Arriving /\ Gathered /\ Captures /\ NeverWrong

---------------------------------------------------------------------------
(* How the steps move vLLM's thread.                                       *)

\* It stays at its file.
SamePosition ==
  /\ mover'.task = mover.task /\ mover'.n = mover.n /\ mover'.next = mover.next
  /\ mover'.cursor = mover.cursor /\ mover'.block = mover.block
  /\ mover'.missing = mover.missing

\* The steps of a restore.
LEMMA RestoreMoves ==
  ASSUME mover \in MoverRecord
  PROVE  /\ OpenView =>
              /\ SamePosition /\ mover.at = "view"
              /\ \/ mover'.at \in {"open", "get"} /\ mover'.good = mover.good
                 \/ mover'.at = "leave" /\ ~mover'.good
         /\ Open =>
              /\ SamePosition /\ mover.at = "open"
              /\ \/ mover'.at = "get" /\ mover'.good = mover.good
                 \/ mover'.at = "reject" /\ ~mover'.good
         /\ PlaceFails \/ ReceiveFails =>
              /\ SamePosition /\ mover.at = "place" /\ mover'.at = "record"
              /\ ~mover'.good /\ mover'.slot = mover.slot
         /\ RecordUseFails =>
              /\ SamePosition /\ mover.at = "record" /\ mover'.at \in {"reject", "drain"}
              /\ ~mover'.good
         /\ Reject =>
              /\ SamePosition /\ mover.at = "reject" /\ mover'.at = "drain"
              /\ mover'.good = mover.good /\ mover'.failed = mover.failed
         /\ Drain =>
              /\ SamePosition /\ mover.at = "drain" /\ mover'.at = "leave"
              /\ mover'.good = mover.good
         /\ LeaveView =>
              /\ mover.at = "leave"
              /\ \/ mover.good /\ mover' = IdleMover
                 \/ SamePosition /\ mover'.at = "exit" /\ mover'.good = mover.good
<1>1. OpenView =>
        /\ SamePosition /\ mover.at = "view"
        /\ \/ mover'.at \in {"open", "get"} /\ mover'.good = mover.good
           \/ mover'.at = "leave" /\ ~mover'.good
  BY DEF OpenView, At, FirstStep, SamePosition, MoverRecord
<1>2. Open =>
        /\ SamePosition /\ mover.at = "open"
        /\ \/ mover'.at = "get" /\ mover'.good = mover.good
           \/ mover'.at = "reject" /\ ~mover'.good
  BY DEF Open, At, SamePosition, MoverRecord
<1>3. PlaceFails \/ ReceiveFails =>
        /\ SamePosition /\ mover.at = "place" /\ mover'.at = "record"
        /\ ~mover'.good /\ mover'.slot = mover.slot
  BY DEF PlaceFails, ReceiveFails, At, SamePosition, MoverRecord
<1>4. RecordUseFails =>
        /\ SamePosition /\ mover.at = "record" /\ mover'.at \in {"reject", "drain"}
        /\ ~mover'.good
  BY DEF RecordUseFails, Released, At, SamePosition, MoverRecord
<1>5. Reject =>
        /\ SamePosition /\ mover.at = "reject" /\ mover'.at = "drain"
        /\ mover'.good = mover.good /\ mover'.failed = mover.failed
  BY DEF Reject, Goto, At, SamePosition, MoverRecord
<1>6. Drain =>
        /\ SamePosition /\ mover.at = "drain" /\ mover'.at = "leave"
        /\ mover'.good = mover.good
  BY DEF Drain, Goto, At, SamePosition, MoverRecord
<1>7. LeaveView =>
        /\ mover.at = "leave"
        /\ \/ mover.good /\ mover' = IdleMover
           \/ SamePosition /\ mover'.at = "exit" /\ mover'.good = mover.good
  BY DEF LeaveView, At, SamePosition, MoverRecord
<1> QED  BY <1>1, <1>2, <1>3, <1>4, <1>5, <1>6, <1>7

\* The steps that a restore and a commit share.
LEMMA SharedMoves ==
  ASSUME mover \in MoverRecord, available \in Seq(Slots)
  PROVE  /\ Borrow =>
              /\ SamePosition /\ mover.at = "get" /\ mover'.slot = Head(available)
              /\ mover'.good = mover.good /\ mover'.right = mover.right
              /\ mover'.at = IF mover.task = "restore" THEN "place" ELSE "copy"
         /\ BorrowFails =>
              /\ SamePosition /\ mover.at = "get" /\ ~mover'.good
              /\ mover'.at = IF mover.task = "restore" THEN "drain" ELSE "skip"
         /\ TouchFails =>
              /\ SamePosition
              /\ \/ mover.at = "leave" /\ mover'.at = "leave" /\ ~mover'.good
                 \/ mover.at = "announce" /\ mover'.at = "skip"
<1>1. Borrow => available # <<>> /\ Head(available) \in Slots
  BY DEF Borrow
<1>2. Borrow =>
        /\ SamePosition /\ mover.at = "get" /\ mover'.slot = Head(available)
        /\ mover'.good = mover.good /\ mover'.right = mover.right
        /\ mover'.at = IF mover.task = "restore" THEN "place" ELSE "copy"
  BY <1>1 DEF Borrow, At, SamePosition, MoverRecord
<1>3. BorrowFails =>
        /\ SamePosition /\ mover.at = "get" /\ ~mover'.good
        /\ mover'.at = IF mover.task = "restore" THEN "drain" ELSE "skip"
  BY DEF BorrowFails, At, SamePosition, MoverRecord
<1>4. TouchFails =>
        /\ SamePosition
        /\ \/ mover.at = "leave" /\ mover'.at = "leave" /\ ~mover'.good
           \/ mover.at = "announce" /\ mover'.at = "skip"
  BY DEF TouchFails, Goto, At, SamePosition, MoverRecord
<1> QED  BY <1>2, <1>3, <1>4

\* A file has been read: the next one of the batch, or its end.
LEMMA PlaceMoves ==
  ASSUME mover \in MoverRecord, Place
  PROVE  /\ mover.at = "place" /\ mover'.task = mover.task /\ mover'.n = mover.n
         /\ mover'.cursor = mover.cursor /\ mover'.block = mover.block
         /\ mover'.slot = mover.slot /\ mover'.good = mover.good
         /\ SameBatch => mover'.next = mover.next + 1 /\ mover'.at = "place"
         /\ ~SameBatch => mover'.next = mover.next /\ mover'.at = "record"
BY DEF Place, At, MoverRecord

\* The slot of a batch or a block is back: the next block, the next file, or the end.
LEMMA BatchMoves ==
  ASSUME MoverOK, RecordUse
  PROVE  /\ mover.at = "record" /\ mover'.task = mover.task /\ mover'.n = mover.n
         /\ mover'.good = mover.good /\ mover'.slot = 0
         /\ \/ /\ mover.failed # 0 /\ mover'.at = "reject"
            \/ /\ mover.good /\ mover.block < Blocks(Key)
               /\ mover'.block = mover.block + 1 /\ mover'.next = mover.next
               /\ mover'.cursor = mover.cursor /\ mover'.at = "get"
            \/ /\ mover.good /\ mover.block = Blocks(Key)
               /\ mover.next < Len(Objects(mover.n))
               /\ mover'.block = 1 /\ mover'.next = mover.next + 1
               /\ mover'.cursor = mover.next + 1 /\ mover'.at \in {"open", "get"}
            \/ /\ mover'.at = "drain"
               /\ mover.good => mover.block = Blocks(Key) /\ mover.next = Len(Objects(mover.n))
<1>1. mover \in MoverRecord /\ mover.at = "record" /\ mover' = Released(AfterBatch)
  BY DEF MoverOK, RecordUse, At
<1>2. /\ mover.next \in Nat /\ mover.block \in Nat /\ Blocks(Key) \in Nat
      /\ mover.block \in 1 .. Blocks(Key) /\ Len(Objects(mover.n)) \in Nat
      /\ mover.next \in 1 .. Len(Objects(mover.n)) /\ (mover.good => mover.failed = 0)
  BY <1>1, MoverKey DEF MoverOK
<1>3. CASE mover.failed # 0
  <2>1. AfterBatch = [mover EXCEPT !.at = "reject"]
    BY <1>2, <1>3 DEF AfterBatch
  <2> QED  BY <1>1, <1>3, <2>1 DEF Released, MoverRecord
<1>4. CASE mover.good /\ mover.block < Blocks(Key)
  <2>1. AfterBatch = [mover EXCEPT !.block = mover.block + 1, !.at = "get"]
    BY <1>2, <1>4 DEF AfterBatch
  <2> QED  BY <1>1, <1>4, <2>1 DEF Released, MoverRecord
<1>5. CASE mover.good /\ mover.block = Blocks(Key) /\ mover.next < Len(Objects(mover.n))
  <2>1. PICK step \in {"open", "get"} :
          AfterBatch = [mover EXCEPT !.block = 1, !.next = mover.next + 1,
                                     !.cursor = mover.next + 1, !.at = step]
    <3>1. PICK step \in {"open", "get"} : step = FirstStep(Objects(mover.n)[mover.next + 1])
      BY DEF FirstStep
    <3>2. mover.failed = 0 /\ ~(mover.block < Blocks(Key))
      BY <1>2, <1>5
    <3>3. AfterBatch = [mover EXCEPT !.block = 1, !.next = mover.next + 1,
                                     !.cursor = mover.next + 1, !.at = step]
      BY <1>5, <3>1, <3>2 DEF AfterBatch
    <3> QED  BY <3>3
  <2> QED  BY <1>1, <1>5, <2>1 DEF Released, MoverRecord
<1>6. CASE /\ mover.failed = 0
           /\ ~(mover.good /\ mover.block < Blocks(Key))
           /\ ~(mover.good /\ mover.block = Blocks(Key) /\ mover.next < Len(Objects(mover.n)))
  <2>1. AfterBatch = [mover EXCEPT !.at = "drain"]
    BY <1>2, <1>6 DEF AfterBatch
  <2>2. mover.good => mover.block = Blocks(Key) /\ mover.next = Len(Objects(mover.n))
    BY <1>2, <1>6
  <2> QED  BY <1>1, <2>1, <2>2 DEF Released, MoverRecord
<1> QED  BY <1>3, <1>4, <1>5, <1>6

\* The steps of a commit.
LEMMA CommitMoves ==
  ASSUME mover \in MoverRecord
  PROVE  /\ TakeLock => SamePosition /\ mover.at = "lock" /\ mover'.at = "check"
         /\ BorrowCpu => SamePosition /\ mover.at = "authenticate" /\ mover'.at = "verdict"
         /\ Capture => /\ SamePosition /\ mover.at = "copy" /\ mover'.at = "wait"
                       /\ mover'.slot = mover.slot /\ mover'.right = mover.right
         /\ Captured => /\ SamePosition /\ mover.at = "wait" /\ mover'.slot = mover.slot
                        /\ mover'.right = mover.right
                        /\ mover'.at = IF Blocks(Key) > 1 THEN "write" ELSE "publish"
         /\ CaptureFails => SamePosition /\ mover.at = "copy" /\ mover'.at = "skip"
         /\ CopyFails => SamePosition /\ mover.at = "wait" /\ mover'.at = "skip"
         /\ PublishFails => SamePosition /\ mover.at = "publish" /\ mover'.at = "skip"
         /\ WriteBlock =>
              /\ mover.at = "write"
              /\ mover'.task = mover.task /\ mover'.n = mover.n /\ mover'.next = mover.next
              /\ mover'.cursor = mover.cursor /\ mover'.missing = mover.missing
              /\ mover'.slot = 0
              /\ \/ mover'.at = "skip"
                 \/ /\ mover'.at \in {"get", "publish"}
                    /\ mover'.right =
                         (mover.right /\ slot[mover.slot].data[1] = <<Key, mover.block>>)
<1>1. /\ TakeLock => SamePosition /\ mover.at = "lock" /\ mover'.at = "check"
      /\ BorrowCpu => SamePosition /\ mover.at = "authenticate" /\ mover'.at = "verdict"
      /\ Capture => /\ SamePosition /\ mover.at = "copy" /\ mover'.at = "wait"
                    /\ mover'.slot = mover.slot /\ mover'.right = mover.right
  BY DEF TakeLock, BorrowCpu, Capture, Goto, At, SamePosition, MoverRecord
<1>2. Captured => /\ SamePosition /\ mover.at = "wait" /\ mover'.slot = mover.slot
                  /\ mover'.right = mover.right
                  /\ mover'.at = IF Blocks(Key) > 1 THEN "write" ELSE "publish"
  BY DEF Captured, Goto, At, SamePosition, MoverRecord
<1>3. /\ CaptureFails => SamePosition /\ mover.at = "copy" /\ mover'.at = "skip"
      /\ CopyFails => SamePosition /\ mover.at = "wait" /\ mover'.at = "skip"
      /\ PublishFails => SamePosition /\ mover.at = "publish" /\ mover'.at = "skip"
  BY DEF CaptureFails, CopyFails, PublishFails, Released, At, SamePosition, MoverRecord
<1>4. WriteBlock =>
        /\ mover.at = "write"
        /\ mover'.task = mover.task /\ mover'.n = mover.n /\ mover'.next = mover.next
        /\ mover'.cursor = mover.cursor /\ mover'.missing = mover.missing
        /\ mover'.slot = 0
        /\ \/ mover'.at = "skip"
           \/ /\ mover'.at \in {"get", "publish"}
              /\ mover'.right =
                   (mover.right /\ slot[mover.slot].data[1] = <<Key, mover.block>>)
  BY DEF WriteBlock, Released, At, MoverRecord
<1> QED  BY <1>1, <1>2, <1>3, <1>4

---------------------------------------------------------------------------
(* Restoring.                                                              *)

\* While operations are only added, and no byte under way is touched, every copy
\* to the GPU stays one of the restore.
LEMMA RestoresGrow ==
  ASSUME Base, Base', DInv,
         Len(stream') >= Len(stream),
         \A i \in 1 .. Len(stream) : stream'[i] = stream[i],
         mover'.task = mover.task, mover'.n = mover.n,
         mover.at \in {"view", "leave", "exit"} \/ mover'.at \notin {"view", "leave", "exit"},
         mover'.good => mover.good,
         \A i \in 1 .. Len(stream) : mover'.good /\ stream[i].kind = "h2d" =>
           slot'[stream[i].slot].data[stream[i].offset]
             = slot[stream[i].slot].data[stream[i].offset],
         \A i \in 1 .. Len(stream') : i > Len(stream) =>
           /\ RestoreOp(i)' /\ stream'[i].kind # "d2h"
           /\ stream'[i].kind = "h2d" =>
                \A j \in 1 .. Len(stream) :
                  stream[j].kind = "d2h" => stream[j].slot # stream'[i].slot
  PROVE  OnlyRestores' /\ Unmixed'
<1>1. Len(stream) \in Nat /\ Len(stream') \in Nat
  BY DEF Base, TypeOK, PoolOK
<1>2. ASSUME NEW i \in 1 .. Len(stream')
      PROVE  RestoreOp(i)'
  <2>1. CASE i > Len(stream)
    BY <2>1
  <2>2. CASE ~(i > Len(stream))
    <3>1. i \in 1 .. Len(stream) /\ stream'[i] = stream[i]
      BY <1>1, <2>2
    <3>2. RestoreOp(i)
      BY <3>1 DEF DInv, OnlyRestores
    <3> QED  BY <3>1, <3>2 DEF RestoreOp
  <2> QED  BY <2>1, <2>2
<1>3. ASSUME NEW i \in 1 .. Len(stream'), NEW j \in 1 .. Len(stream'),
             stream'[i].kind = "h2d", stream'[j].kind = "d2h"
      PROVE  stream'[i].slot # stream'[j].slot
  <2>1. ~(j > Len(stream))
    BY <1>3
  <2>2. j \in 1 .. Len(stream) /\ stream'[j] = stream[j]
    BY <1>1, <2>1
  <2>3. CASE i > Len(stream)
    BY <1>3, <2>2, <2>3
  <2>4. CASE ~(i > Len(stream))
    <3>1. i \in 1 .. Len(stream) /\ stream'[i] = stream[i]
      BY <1>1, <2>4
    <3> QED  BY <1>3, <2>2, <3>1 DEF DInv, Unmixed
  <2> QED  BY <2>3, <2>4
<1>4. OnlyRestores'
  BY <1>2 DEF OnlyRestores
<1>5. Unmixed'
  BY <1>3 DEF Unmixed
<1> QED  BY <1>4, <1>5

\* Without a restore there is no copy to the GPU.
LEMMA NoneToGpu ==
  ASSUME DInv, mover.task # "restore" \/ mover.at \in {"view", "leave", "exit"}
  PROVE  \A i \in 1 .. Len(stream) : stream[i].kind # "h2d"
BY DEF DInv, OnlyRestores, RestoreOp

\* Nor does one appear.
LEMMA NoRestores ==
  ASSUME \A i \in 1 .. Len(stream') : stream'[i].kind # "h2d"
  PROVE  OnlyRestores' /\ Unmixed'
BY DEF OnlyRestores, RestoreOp, Unmixed

\* The GPU takes the first operation; it writes only into slots it does not read.
LEMMA GpuRestores ==
  ASSUME Base, Base', DInv, Gpu
  PROVE  OnlyRestores' /\ Unmixed'
<1>1. /\ PoolOK /\ stream \in Seq(Operation) /\ slot \in [Slots -> SlotRecord]
      /\ Len(stream) \in Nat
  BY DEF Base, TypeOK, PoolOK
<1>2. /\ stream # <<>> /\ stream' = Tail(stream) /\ mover' = mover
      /\ Head(stream) \in Operation
  BY <1>1, GpuDoes DEF Gpu
<1>3. /\ Len(stream') = Len(stream) - 1 /\ Len(stream) >= 1
      /\ \A i \in 1 .. Len(stream) - 1 : stream'[i] = stream[i + 1]
      /\ Head(stream) = stream[1]
  BY <1>1, <1>2, Tailed
<1>4. \A i \in 1 .. Len(stream') : i + 1 \in 1 .. Len(stream) /\ stream'[i] = stream[i + 1]
  BY <1>1, <1>3
<1>5. ASSUME NEW i \in 1 .. Len(stream')
      PROVE  RestoreOp(i)'
  <2> SUFFICES ASSUME stream'[i].kind = "h2d"
               PROVE  RestoreOp(i)'
    BY DEF RestoreOp
  <2>1. /\ RestoreOp(i + 1) /\ stream[i + 1].kind = "h2d"
        /\ stream[i + 1].slot \in Slots
    BY <1>4, InStream DEF DInv, OnlyRestores
  <2>2. slot'[stream[i + 1].slot] = slot[stream[i + 1].slot]
    <3>1. CASE Head(stream).kind # "d2h"
      <4>1. slot' = slot
        BY <1>1, <3>1, GpuDoes
      <4> QED  BY <4>1
    <3>2. CASE Head(stream).kind = "d2h"
      <4>1. stream[i + 1].slot # stream[1].slot
        BY <1>1, <1>3, <1>4, <2>1, <3>2 DEF DInv, Unmixed
      <4>2. slot' = [slot EXCEPT ![stream[1].slot].data[stream[1].offset] =
                       IF stream[1].unit \in placed THEN stream[1].unit ELSE Junk]
        BY <1>1, <1>3, <3>2, GpuDoes
      <4> QED  BY <1>1, <2>1, <4>1, <4>2
    <3> QED  BY <3>1, <3>2
  <2> QED  BY <1>2, <1>4, <2>1, <2>2 DEF RestoreOp
<1>6. OnlyRestores'
  BY <1>5 DEF OnlyRestores
<1>7. Unmixed'
  BY <1>4 DEF DInv, Unmixed
<1> QED  BY <1>6, <1>7

\* Which steps submit operations.
LEMMA WhoSubmits ==
  ASSUME Next
  PROVE  \/ UNCHANGED stream \/ stream' = <<>> \/ Gpu
         \/ Place \/ ReceiveFails \/ RecordUse \/ Capture \/ CaptureFails
<1>1. CASE Borrow \/ BorrowFails \/ PlaceFails \/ RecordUseFails \/ Captured
  BY <1>1 DEF Borrow, BorrowFails, PlaceFails, RecordUseFails, Captured
<1>2. CASE CopyFails \/ WriteBlock \/ Publish \/ PublishFails \/ Drain
  BY <1>2 DEF CopyFails, WriteBlock, Publish, PublishFails, Drain
<1>3. CASE \E n \in Prefixes : BeginRestore(n) \/ BeginCommit(n)
  BY <1>3 DEF BeginRestore, BeginCommit, pool
<1>4. CASE Exit \/ Killed
  BY <1>4 DEF Exit, Killed, EndProcess
<1>5. CASE \E s \in 1 .. SlotCount : CloseSlot(s)
  BY <1>5 DEF CloseSlot
<1> QED  BY <1>1, <1>2, <1>3, <1>4, <1>5, WhoChangesPool DEF pool

\* The steps that vLLM's thread takes in a restore, and in a commit.
LEMMA WhoRestores ==
  ASSUME MoverOK, MoverStep, mover.task = "restore"
  PROVE  \/ OpenView \/ Open \/ Borrow \/ BorrowFails \/ Place \/ PlaceFails \/ ReceiveFails
         \/ RecordUse \/ RecordUseFails \/ Reject \/ Drain \/ LeaveView \/ Exit
         \/ TouchFails /\ mover.at = "leave"
<1>1. mover.at \in RestoreSteps
  BY DEF MoverOK, IdleMover
<1>2. mover.at \notin {"announce", "lock", "check", "authenticate", "verdict", "copy", "wait",
                       "write", "publish", "skip"}
  BY <1>1, StepsAre
<1> QED  BY <1>2 DEF MoverStep, At, TouchFails, CopyFails, TakeLock, Check, BorrowCpu,
            Verdict, Capture, CaptureFails, Captured, WriteBlock, Publish, PublishFails,
            Announce, Skip

\* What vLLM's thread may do inside a commit.
LEMMA WhoCommits ==
  ASSUME MoverOK, MoverStep, mover.task = "commit"
  PROVE  \/ Borrow \/ BorrowFails \/ TakeLock \/ Check \/ BorrowCpu \/ Verdict
         \/ Capture \/ CaptureFails \/ Captured \/ CopyFails \/ WriteBlock
         \/ Publish \/ PublishFails \/ Announce \/ Skip
         \/ TouchFails /\ mover.at = "announce"
<1>1. mover.at \in LockedSteps \cup {"lock"}
  BY DEF MoverOK, IdleMover
<1>2. mover.at \notin {"view", "open", "place", "record", "reject", "drain", "leave", "exit"}
  BY <1>1, StepsAre
<1> QED  BY <1>2 DEF MoverStep, At, TouchFails, OpenView, Open, Place, PlaceFails,
            ReceiveFails, RecordUse, RecordUseFails, Reject, Drain, LeaveView, Exit

\* Outside of a transfer vLLM's thread takes no step of its own.
LEMMA NobodyMoves ==
  ASSUME MoverOK, MoverStep
  PROVE  mover.task \in {"restore", "commit"} /\ mover.at # "idle"
<1>1. mover.at # "idle"
  BY DEF MoverStep, At, Borrow, BorrowFails, OpenView, Open, Place, PlaceFails, ReceiveFails,
     TouchFails, CopyFails, RecordUse, RecordUseFails, Reject, Drain, LeaveView, Exit,
     TakeLock, Check, BorrowCpu, Verdict, Capture, CaptureFails, Captured, WriteBlock,
     Publish, PublishFails, Announce, Skip
<1> QED  BY <1>1, TaskIs

\* Every copy to the GPU belongs to the restore in hand, and finds its bytes.
LEMMA RestoresKept ==
  ASSUME Base, Base', PInv, DInv, Next
  PROVE  OnlyRestores' /\ Unmixed'
<1>1. /\ MoverOK /\ mover \in MoverRecord /\ PoolOK /\ slot \in [Slots -> SlotRecord]
      /\ stream \in Seq(Operation) /\ Len(stream) \in Nat /\ available \in Seq(Slots)
  BY DEF Base, TypeOK, MoverOK, PoolOK
<1>2. CASE stream' = <<>>
  BY <1>2, NoRestores
<1>3. CASE mover.task # "restore" /\ ~Gpu
  <2>1. \A i \in 1 .. Len(stream) : stream[i].kind # "h2d"
    BY <1>3, NoneToGpu
  <2>2. CASE stream' = stream
    BY <2>1, <2>2, NoRestores
  <2>3. ~Place /\ ~ReceiveFails /\ ~RecordUse
    BY <1>1, <1>3, StepsAre, TaskIs DEF Place, ReceiveFails, RecordUse, At
  <2>4. CASE Capture \/ CaptureFails
    <3>1. mover.at = "copy" /\ mover.slot \in Slots
      BY <1>1, <2>4 DEF Capture, CaptureFails, At, Base, MoverHolds, Holding, MoverRecord
    <3>2. /\ Copies \in Seq(Operation) /\ Len(Copies) \in Nat
          /\ \A i \in 1 .. Len(Copies) : Copies[i].kind = "d2h"
      BY <1>1, <3>1, CopiesAre
    <3>3. PICK q \in Seq(Operation) : q = stream \o Copies
      <4>1. stream \o Copies \in Seq(Operation)
        BY <1>1, <3>2
      <4> QED  BY <4>1
    <3>4. /\ Len(q) = Len(stream) + Len(Copies) /\ Len(q) \in Nat
          /\ \A i \in 1 .. Len(q) : q[i].kind # "h2d"
      <4>1. \A i \in 1 .. Len(q) : i > Len(stream) =>
               q[i] = Copies[i - Len(stream)] /\ i - Len(stream) \in 1 .. Len(Copies)
        BY <1>1, <3>2, <3>3
      <4>2. \A i \in 1 .. Len(q) : ~(i > Len(stream)) => i \in 1 .. Len(stream) /\ q[i] = stream[i]
        BY <1>1, <3>2, <3>3
      <4>3. Len(q) = Len(stream) + Len(Copies) /\ Len(q) \in Nat
        BY <1>1, <3>2, <3>3, Joined
      <4> QED  BY <2>1, <3>2, <4>1, <4>2, <4>3
    <3>5. Event(mover.slot) \in Operation /\ Event(mover.slot).kind = "event"
      BY <3>1, PiecesAre
    <3>6. CASE stream' = q
      BY <3>4, <3>6, NoRestores
    <3>7. CASE stream' = Append(q, Event(mover.slot))
      <4>1. /\ Len(stream') = Len(q) + 1
            /\ \A i \in 1 .. Len(q) : stream'[i] = q[i]
            /\ stream'[Len(q) + 1] = Event(mover.slot)
        BY <3>5, <3>7, Appended
      <4>2. \A i \in 1 .. Len(stream') : stream'[i].kind # "h2d"
        BY <3>4, <3>5, <4>1
      <4> QED  BY <4>2, NoRestores
    <3> QED  BY <2>4, <3>3, <3>6, <3>7 DEF Capture, CaptureFails
  <2> QED  BY <1>2, <1>3, <2>2, <2>3, <2>4, WhoSubmits
<1>4. CASE mover.task = "restore" /\ ~Gpu /\ stream' # <<>>
  <2>1. mover.at # "idle" /\ worker = "running"
    BY <1>1, <1>4, TaskIs DEF PInv, Quiet
  <2>2. CASE UNCHANGED <<mover, pool, placed>>
    BY <2>2 DEF DInv, OnlyRestores, RestoreOp, Unmixed, pool
  <2>3. CASE OpenView \/ Open \/ BorrowFails \/ Reject \/ TouchFails \/ LeaveView
    <3>1. UNCHANGED <<slot, stream>>
      BY <2>3 DEF OpenView, Open, BorrowFails, Reject, TouchFails, LeaveView, pool
    <3>2. CASE LeaveView
      BY <1>2, <3>1, <3>2, NoneToGpu, NoRestores DEF LeaveView, At
    <3>3. CASE ~LeaveView
      <4>1. /\ mover'.task = mover.task /\ mover'.n = mover.n
            /\ mover.at \in {"view", "leave", "exit"} \/ mover'.at \notin {"view", "leave", "exit"}
            /\ mover'.good => mover.good
        <5>1. CASE OpenView \/ Open \/ Reject
          BY <1>1, <5>1, RestoreMoves DEF SamePosition
        <5>2. CASE BorrowFails \/ TouchFails
          BY <1>1, <1>4, <5>2, StepsAre, TaskIs, SharedMoves DEF SamePosition
        <5> QED  BY <2>3, <3>3, <5>1, <5>2
      <4> QED  BY <1>1, <3>1, <4>1, RestoresGrow
    <3> QED  BY <3>2, <3>3
  <2>4. CASE Borrow
    <3>1. PICK s \in Slots : s = Head(available)
      BY <1>1, <2>4 DEF Borrow
    <3>2. mover.slot = 0 /\ s # 0
      BY <2>4, TransferAssumption DEF Borrow, At, Base, MoverHolds, Holding, Slots
    <3>3. Free(s)
      BY <2>4, <3>1, <3>2, FreeWhenReusable DEF Borrow
    <3>4. stream' = stream /\ \A t \in Slots : t # s => slot'[t] = slot[t]
      BY <1>1, <2>4, <3>1 DEF Borrow
    <3>5. \A i \in 1 .. Len(stream) : slot'[stream[i].slot] = slot[stream[i].slot]
      BY <3>3, <3>4, InStream DEF Free
    <3>6. /\ mover'.task = mover.task /\ mover'.n = mover.n
          /\ mover'.at = "place" /\ mover'.good = mover.good
      BY <1>1, <1>4, <2>4, SharedMoves DEF SamePosition
    <3> QED  BY <1>1, <3>4, <3>5, <3>6, RestoresGrow
  <2>5. CASE PlaceFails \/ RecordUseFails
    <3>1. /\ mover'.task = mover.task /\ mover'.n = mover.n /\ ~mover'.good
          /\ mover'.at \in {"record", "reject", "drain"}
      BY <1>1, <2>5, RestoreMoves DEF SamePosition
    <3>2. stream' = stream
      BY <2>5 DEF PlaceFails, RecordUseFails
    <3> QED  BY <1>1, <3>1, <3>2, RestoresGrow
  <2>6. CASE RecordUse
    <3>1. PICK s \in Slots : s = mover.slot
      BY <1>1, <2>6 DEF RecordUse, At, Base, MoverHolds, Holding, MoverRecord
    <3>2. stream' = Append(stream, Event(s)) /\ slot' = Pending(s)
      BY <2>6, <3>1 DEF RecordUse, Pending
    <3>3. \A t \in Slots : slot'[t].data = slot[t].data
      BY <1>1, <3>2, MarkedAre
    <3>4. Event(s) \in Operation /\ Event(s).slot = s /\ Event(s).kind = "event"
      BY PiecesAre
    <3>5. /\ Len(stream') = Len(stream) + 1
          /\ \A i \in 1 .. Len(stream) : stream'[i] = stream[i]
          /\ stream'[Len(stream) + 1] = Event(s)
      BY <1>1, <3>2, <3>4, Appended
    <3>6. \A i \in 1 .. Len(stream') : i > Len(stream) => stream'[i].kind = "event"
      BY <1>1, <3>4, <3>5
    <3>7. /\ mover'.task = mover.task /\ mover'.n = mover.n /\ mover'.good = mover.good
          /\ mover'.at \in {"reject", "get", "open", "drain"}
      BY <1>1, <2>6, BatchMoves
    <3>8. \A i \in 1 .. Len(stream) : slot'[stream[i].slot].data = slot[stream[i].slot].data
      BY <3>3, InStream
    <3>9. Len(stream') >= Len(stream)
      BY <1>1, <3>5
    <3> QED  BY <3>5, <3>6, <3>7, <3>8, <3>9, RestoresGrow DEF RestoreOp
  <2>7. CASE Place \/ ReceiveFails
    <3>1. PICK s \in Slots : s = mover.slot /\ mover.at = "place"
      BY <1>1, <2>7 DEF Place, ReceiveFails, At, Base, MoverHolds, Holding, MoverRecord
    <3>2. PICK o \in Nat : o = mover.next - mover.cursor + 1 /\ o \in 1 .. SlotFiles
      <4>1. mover.next - mover.cursor < SlotFiles /\ SlotFiles \in Nat
        BY <3>1, TransferAssumption DEF DInv, BatchPlaces
      <4>2. mover.next \in Nat /\ mover.cursor \in Nat /\ mover.cursor \in 1 .. mover.next
        BY <1>1, <2>1, MoverKey DEF MoverOK
      <4> QED  BY <4>1, <4>2
    <3>3. PICK u \in UnitsOf(mover.n) : u = <<Key, mover.block>> /\ u \in Unit
      BY <1>1, <2>1, UnitAt
    <3>4. PICK op \in Operation : /\ op = Copy("h2d", s, o, u) /\ op.slot = s
                                  /\ op.kind = "h2d" /\ op.offset = o /\ op.unit = u
      BY <1>1, <3>1, <3>2, <3>3, PlacedIs
    <3>5. stream' = Append(stream, op)
      BY <2>7, <3>1, <3>2, <3>3, <3>4 DEF Place, ReceiveFails
    <3>6. /\ Len(stream') = Len(stream) + 1 /\ Len(stream') >= Len(stream)
          /\ \A i \in 1 .. Len(stream) : stream'[i] = stream[i]
          /\ stream'[Len(stream) + 1] = op
      BY <1>1, <3>4, <3>5, Appended
    <3>7. \A i \in 1 .. Len(stream') : i > Len(stream) => stream'[i] = op
      BY <1>1, <3>6
    <3>8. /\ mover'.task = mover.task /\ mover'.n = mover.n
          /\ mover'.at \in {"place", "record"}
          /\ mover'.good => mover.good /\ Place
      BY <1>1, <2>7, RestoreMoves, PlaceMoves DEF SamePosition
    <3>9. ASSUME Place
          PROVE  slot' = [slot EXCEPT ![s].data[o] = u]
      <4>1. file[Key] # "wrong"
        BY <1>1, <2>1, MoverKey DEF DInv, NeverWrong
      <4> QED  BY <3>1, <3>2, <3>3, <3>9, <4>1 DEF Place
    <3>10. mover'.good => slot'[s].data[o] = u
      <4>1. slot[s] \in SlotRecord /\ slot[s].data \in [1 .. SlotFiles -> Unit]
        BY <1>1 DEF SlotRecord
      <4>2. Place => slot'[s].data = [slot[s].data EXCEPT ![o] = u]
        BY <1>1, <3>9, <4>1 DEF SlotRecord
      <4> QED  BY <3>2, <3>8, <4>1, <4>2
    <3>11. \A j \in 1 .. Len(stream) : stream[j].slot = s =>
             stream[j].kind = "h2d" /\ stream[j].offset # o
      <4>1. mover.next \in Nat /\ mover.cursor \in Nat
        BY <1>1, <2>1, MoverKey
      <4>2. \A j \in 1 .. Len(stream) : stream[j].offset \in Nat
        BY InStream DEF Operation
      <4>3. \A j \in 1 .. Len(stream) : stream[j].slot = s =>
              stream[j].kind = "h2d" /\ stream[j].offset <= mover.next - mover.cursor
        BY <3>1 DEF DInv, BatchPlaces
      <4> QED  BY <3>2, <4>1, <4>2, <4>3
    <3>12. ASSUME NEW i \in 1 .. Len(stream), mover'.good, stream[i].kind = "h2d"
           PROVE  slot'[stream[i].slot].data[stream[i].offset]
                    = slot[stream[i].slot].data[stream[i].offset]
      <4>1. slot' = [slot EXCEPT ![s].data[o] = u] /\ stream[i].slot \in Slots
        BY <3>8, <3>9, <3>12, InStream
      <4>2. stream[i].offset \in 1 .. SlotFiles
        BY <3>12 DEF DInv, OnlyRestores, RestoreOp
      <4>3. stream[i].slot # s \/ stream[i].offset # o
        BY <3>11
      <4> QED  BY <1>1, <4>1, <4>2, <4>3 DEF SlotRecord
    <3>13. ASSUME NEW i \in 1 .. Len(stream'), i > Len(stream)
           PROVE  /\ RestoreOp(i)' /\ stream'[i].kind # "d2h"
                  /\ \A j \in 1 .. Len(stream) :
                       stream[j].kind = "d2h" => stream[j].slot # stream'[i].slot
      <4>1. stream'[i] = op
        BY <3>7, <3>13
      <4>2. RestoreOp(i)'
        BY <1>4, <3>2, <3>3, <3>4, <3>8, <3>10, <4>1 DEF RestoreOp
      <4> QED  BY <3>4, <3>11, <4>1, <4>2
    <3> QED  BY <3>6, <3>8, <3>12, <3>13, RestoresGrow
  <2>8. CASE Drain \/ Exit
    BY <1>4, <2>8 DEF Drain, Exit, EndProcess
  <2>9. ~\E n \in Prefixes : BeginRestore(n) \/ BeginCommit(n)
    BY <2>1 DEF BeginRestore, BeginCommit, At
  <2>10. ~\E t \in 1 .. SlotCount : CloseSlot(t)
    BY <2>1 DEF CloseSlot
  <2>11. ~Killed
    BY <1>4 DEF Killed, EndProcess
  <2> QED  BY <1>1, <1>4, <2>2, <2>3, <2>4, <2>5, <2>6, <2>7, <2>8, <2>9, <2>10, <2>11,
              OtherSteps, WhoRestores
<1> QED  BY <1>2, <1>3, <1>4, GpuRestores

\* The files of a batch have places of their own in its slot.
LEMMA PlacesKept ==
  ASSUME Base, Base', PInv, DInv, Next
  PROVE  BatchPlaces'
<1>1. /\ MoverOK /\ mover \in MoverRecord /\ PoolOK /\ slot \in [Slots -> SlotRecord]
      /\ stream \in Seq(Operation) /\ Len(stream) \in Nat /\ available \in Seq(Slots)
  BY DEF Base, TypeOK, MoverOK, PoolOK
<1>2. BatchPlaces
  BY DEF DInv
<1>3. ASSUME \/ mover'.at \notin {"view", "open", "get", "place", "record"}
             \/ mover'.at \notin {"place", "record"} /\ mover'.task # "restore"
      PROVE  BatchPlaces'
  BY <1>3 DEF BatchPlaces
<1>4. CASE UNCHANGED mover /\ (UNCHANGED stream \/ Gpu)
  <2>1. Key' = Key
    BY <1>4 DEF Key
  <2>2. CASE UNCHANGED stream
    BY <1>2, <1>4, <2>1, <2>2 DEF BatchPlaces
  <2>3. CASE Gpu
    <3>1. stream # <<>> /\ stream' = Tail(stream)
      BY <1>1, <2>3, GpuDoes
    <3>2. \A i \in 1 .. Len(stream') : i + 1 \in 1 .. Len(stream) /\ stream'[i] = stream[i + 1]
      BY <1>1, <3>1, Tailed
    <3> QED  BY <1>2, <1>4, <2>1, <3>2 DEF BatchPlaces
  <2> QED  BY <1>4, <2>2, <2>3
<1>5. ASSUME NEW n \in Prefixes, BeginRestore(n) \/ BeginCommit(n)
      PROVE  BatchPlaces'
  <2>1. mover'.next = 1 /\ mover'.cursor = 1 /\ mover'.at \in {"view", "exit", "lock"}
    BY <1>5 DEF BeginRestore, BeginCommit, IdleMover
  <2> QED  BY <2>1 DEF BatchPlaces
<1>6. CASE MoverStep /\ mover.task = "commit"
  <2>1. mover'.task # "restore"
    BY <1>6, SameTransfer DEF Base, IdleMover
  <2>2. mover'.at \notin {"place", "record"}
    BY <2>1, StepsAre DEF Base, TypeOK, MoverOK, IdleMover
  <2> QED  BY <1>3, <2>1, <2>2
<1>7. CASE MoverStep /\ mover.task = "restore"
  <2>1. /\ mover.next \in Nat /\ mover.cursor \in Nat /\ mover.cursor \in 1 .. mover.next
        /\ SlotFiles \in Nat \ {0} /\ mover.at # "idle"
        /\ mover.block \in 1 .. Blocks(Key) /\ Blocks(Key) \in Nat
    BY <1>1, <1>7, MoverKey, TaskIs, TransferAssumption DEF MoverOK
  <2>2. CASE OpenView \/ Open
    <3>1. SamePosition /\ mover.at \in {"view", "open"} /\ mover'.at \notin {"place", "record"}
      BY <1>1, <2>2, RestoreMoves
    <3> QED  BY <1>2, <1>7, <3>1 DEF BatchPlaces, SamePosition
  <2>3. CASE BorrowFails \/ RecordUseFails \/ Reject \/ Drain \/ LeaveView \/ Exit \/ TouchFails
    <3>1. mover'.at \notin {"view", "open", "get", "place", "record"}
      <4>1. CASE BorrowFails \/ TouchFails
        BY <1>1, <1>7, <4>1, SharedMoves
      <4>2. CASE RecordUseFails \/ Reject \/ Drain \/ LeaveView
        BY <1>1, <4>2, RestoreMoves DEF IdleMover
      <4>3. CASE Exit
        BY <4>3 DEF Exit, EndProcess, IdleMover
      <4> QED  BY <2>3, <4>1, <4>2, <4>3
    <3> QED  BY <1>3, <3>1
  <2>4. CASE Borrow
    <3>1. PICK s \in Slots : s = Head(available)
      BY <1>1, <2>4 DEF Borrow
    <3>2. mover.slot = 0 /\ s # 0
      BY <2>4, TransferAssumption DEF Borrow, At, Base, MoverHolds, Holding, Slots
    <3>3. Free(s) /\ stream' = stream
      BY <2>4, <3>1, <3>2, FreeWhenReusable DEF Borrow
    <3>4. SamePosition /\ mover'.slot = s /\ mover'.at = "place" /\ mover.next = mover.cursor
      BY <1>1, <1>2, <1>7, <2>4, <3>1, SharedMoves DEF BatchPlaces
    <3>5. mover'.next - mover'.cursor < SlotFiles /\ mover'.next = mover'.cursor
      BY <2>1, <3>4 DEF SamePosition
    <3> QED  BY <3>3, <3>4, <3>5 DEF BatchPlaces, Free
  <2>5. CASE PlaceFails \/ ReceiveFails
    <3>1. SamePosition /\ mover.at = "place" /\ mover'.at = "record"
      BY <1>1, <2>5, RestoreMoves
    <3>2. Key' = Key
      BY <3>1 DEF Key, SamePosition
    <3> QED  BY <1>2, <3>1, <3>2 DEF BatchPlaces, SamePosition
  <2>6. CASE Place /\ ~SameBatch
    <3>1. /\ mover.at = "place" /\ mover'.at = "record" /\ mover'.n = mover.n
          /\ mover'.next = mover.next /\ mover'.cursor = mover.cursor
      BY <1>1, <2>6, PlaceMoves
    <3>2. Key' = Key
      BY <3>1 DEF Key
    <3> QED  BY <1>2, <3>1, <3>2 DEF BatchPlaces
  <2>7. CASE Place /\ SameBatch
    <3>1. /\ mover.at = "place" /\ mover'.at = "place" /\ mover'.n = mover.n
          /\ mover'.next = mover.next + 1 /\ mover'.cursor = mover.cursor
          /\ mover'.slot = mover.slot
      BY <1>1, <2>7, PlaceMoves
    <3>2. Blocks(Key') = 1 /\ mover'.next - mover'.cursor < SlotFiles
      BY <2>1, <2>7, <3>1 DEF Key, SameBatch
    <3>3. PICK op \in Operation :
            /\ op = Copy("h2d", mover.slot, mover.next - mover.cursor + 1, <<Key, mover.block>>)
            /\ op.kind = "h2d" /\ op.offset = mover.next - mover.cursor + 1
      <4>1. mover.slot \in Slots
        BY <1>1, <3>1 DEF Base, MoverHolds, Holding, MoverRecord
      <4> QED  BY <1>1, <3>1, <4>1, PlacedIs
    <3>4. stream' = Append(stream, op)
      BY <2>7, <3>3 DEF Place
    <3>5. ASSUME NEW i \in 1 .. Len(stream'), stream'[i].slot = mover'.slot
          PROVE  stream'[i].kind = "h2d" /\ stream'[i].offset <= mover'.next - mover'.cursor
      <4>1. i \in 1 .. Len(stream) \/ i = Len(stream) + 1
        BY <1>1, <3>3, <3>4, Appended
      <4>2. CASE i \in 1 .. Len(stream)
        <5>1. stream'[i] = stream[i] /\ stream[i].offset \in Nat
          BY <1>1, <3>3, <3>4, <4>2, Appended, InStream DEF Operation
        <5>2. stream[i].kind = "h2d" /\ stream[i].offset <= mover.next - mover.cursor
          BY <1>2, <3>1, <3>5, <4>2, <5>1 DEF BatchPlaces
        <5> QED  BY <2>1, <3>1, <5>1, <5>2
      <4>3. CASE i = Len(stream) + 1
        <5>1. stream'[i] = op
          BY <1>1, <3>3, <3>4, <4>3, Appended
        <5> QED  BY <2>1, <3>1, <3>3, <5>1
      <4> QED  BY <4>1, <4>2, <4>3
    <3> QED  BY <3>1, <3>2, <3>5 DEF BatchPlaces
  <2>8. CASE RecordUse
    <3>1. mover.at = "record" /\ (mover.next = mover.cursor \/ Blocks(Key) = 1)
      BY <1>1, <1>2, <2>8, BatchMoves DEF BatchPlaces
    <3>2. mover'.at \in {"get", "open"} => mover'.next = mover'.cursor
      BY <1>1, <2>1, <2>8, <3>1, BatchMoves
    <3>3. mover'.at \in {"reject", "get", "open", "drain"}
      BY <1>1, <2>8, BatchMoves
    <3> QED  BY <3>2, <3>3 DEF BatchPlaces
  <2> QED  BY <1>1, <1>7, <2>2, <2>3, <2>4, <2>5, <2>6, <2>7, <2>8, WhoRestores
<1>8. CASE Killed
  BY <1>3, <1>8 DEF Killed, EndProcess, IdleMover
<1>9. CASE \E s \in 1 .. SlotCount : CloseSlot(s)
  BY <1>4, <1>9 DEF CloseSlot
<1> QED  BY <1>1, <1>4, <1>5, <1>6, <1>7, <1>8, <1>9, OtherSteps, NobodyMoves DEF pool, Gpu

\* As long as copies are only added, and what has been read was read before or
\* arrives, all of it arrives.
LEMMA ArrivingGrows ==
  ASSUME Base, Base', DInv, mover.task = "restore", mover'.n = mover.n, placed' = placed,
         Len(stream') >= Len(stream), \A i \in 1 .. Len(stream) : stream'[i] = stream[i],
         mover'.at \in {"view", "open", "get", "place"} => mover'.good,
         mover'.good => mover.good /\ mover.at # "exit",
         \A i \in 1 .. Len(Objects(mover.n)) : \A b \in 1 .. Blocks(Objects(mover.n)[i]) :
           mover'.good /\ Behind(i, b)' => Behind(i, b) \/ Arrives(i, b)'
  PROVE  Arriving'
<1>1. Len(stream) \in Nat /\ Len(stream') \in Nat
  BY DEF Base, TypeOK, PoolOK
<1>2. ASSUME mover'.good, NEW i \in 1 .. Len(Objects(mover.n)),
             NEW b \in 1 .. Blocks(Objects(mover.n)[i]), Behind(i, b)'
      PROVE  Arrives(i, b)'
  <2>1. CASE Behind(i, b)
    <3>1. Arrives(i, b)
      BY <1>2, <2>1 DEF DInv, Arriving
    <3>2. ASSUME NEW j \in 1 .. Len(stream)
          PROVE  j \in 1 .. Len(stream') /\ stream'[j] = stream[j]
      BY <1>1
    <3> QED  BY <3>1, <3>2 DEF Arrives
  <2> QED  BY <1>2, <2>1
<1>3. placed \subseteq UnitsOf(mover.n)
  BY DEF DInv, Arriving
<1> QED  BY <1>2, <1>3 DEF Arriving

\* The GPU takes a copy off the stream and puts its bytes into its pages.
LEMMA GpuArrives ==
  ASSUME Base, Base', DInv, Gpu
  PROVE  Arriving'
<1>1. /\ PoolOK /\ stream \in Seq(Operation) /\ slot \in [Slots -> SlotRecord]
      /\ Len(stream) \in Nat
  BY DEF Base, TypeOK, PoolOK
<1>2. /\ stream # <<>> /\ stream' = Tail(stream) /\ mover' = mover
  BY <1>1, GpuDoes DEF Gpu
<1>3. /\ Len(stream') = Len(stream) - 1 /\ Len(stream) >= 1
      /\ \A i \in 1 .. Len(stream) - 1 : stream'[i] = stream[i + 1]
      /\ Head(stream) = stream[1] /\ 1 \in 1 .. Len(stream)
  BY <1>1, <1>2, Tailed
<1> SUFFICES ASSUME mover.task = "restore"
             PROVE  Arriving'
  BY <1>2 DEF Arriving
<1>4. stream[1].kind = "h2d" =>
        /\ stream[1].unit \in UnitsOf(mover.n)
        /\ placed' = placed \cup {stream[1].unit} \/ placed' = placed \ {stream[1].unit}
        /\ mover.good => placed' = placed \cup {stream[1].unit}
  <2>1. RestoreOp(1)
    BY <1>3 DEF DInv, OnlyRestores
  <2> QED  BY <1>1, <1>3, <2>1, GpuDoes DEF RestoreOp
<1>5. stream[1].kind # "h2d" => placed' = placed
  BY <1>1, <1>3, GpuDoes
<1>6. placed' \subseteq UnitsOf(mover.n)
  BY <1>4, <1>5 DEF DInv, Arriving
<1>7. ASSUME mover.good, mover.at # "exit", NEW i \in 1 .. Len(Objects(mover.n)),
             NEW b \in 1 .. Blocks(Objects(mover.n)[i]), Behind(i, b)
      PROVE  Arrives(i, b)'
  <2>1. Arrives(i, b)
    BY <1>7 DEF DInv, Arriving
  <2>2. CASE <<Objects(mover.n)[i], b>> \in placed
    BY <1>2, <1>4, <1>5, <1>7, <2>2 DEF Arrives
  <2>3. CASE \E j \in 1 .. Len(stream) :
               stream[j].kind = "h2d" /\ stream[j].unit = <<Objects(mover.n)[i], b>>
    <3>1. PICK j \in 1 .. Len(stream) :
            stream[j].kind = "h2d" /\ stream[j].unit = <<Objects(mover.n)[i], b>>
      BY <2>3
    <3>2. CASE j = 1
      BY <1>2, <1>4, <1>7, <3>1, <3>2 DEF Arrives
    <3>3. CASE j # 1
      <4>1. j - 1 \in 1 .. Len(stream') /\ stream'[j - 1] = stream[j]
        <5>1. j - 1 \in 1 .. Len(stream) - 1 /\ (j - 1) + 1 = j
          BY <1>1, <3>3
        <5> QED  BY <1>3, <5>1
      <4> QED  BY <1>2, <3>1, <4>1 DEF Arrives
    <3> QED  BY <3>2, <3>3
  <2> QED  BY <2>1, <2>2, <2>3 DEF Arrives
<1>8. mover.at \in {"view", "open", "get", "place"} => mover.good
  BY DEF DInv, Arriving
<1>9. \A i, b : Behind(i, b)' = Behind(i, b)
  BY <1>2 DEF Behind
<1> QED  BY <1>2, <1>6, <1>7, <1>8, <1>9 DEF Arriving

\* Everything that a good restore has read is in its pages or on its way there.
LEMMA ArrivingKept ==
  ASSUME Base, Base', PInv, DInv, Next
  PROVE  Arriving'
<1>1. /\ MoverOK /\ mover \in MoverRecord /\ PoolOK /\ slot \in [Slots -> SlotRecord]
      /\ stream \in Seq(Operation) /\ Len(stream) \in Nat /\ available \in Seq(Slots)
  BY DEF Base, TypeOK, MoverOK, PoolOK
<1>2. CASE mover'.task # "restore"
  BY <1>2 DEF Arriving
<1>3. CASE UNCHANGED <<mover, stream, placed>>
  <2>1. \A i, b : Behind(i, b)' = Behind(i, b)
    BY <1>3 DEF Behind
  <2>2. \A i, b : Arrives(i, b)' = Arrives(i, b)
    BY <1>3 DEF Arrives
  <2> QED  BY <1>3, <2>1, <2>2 DEF DInv, Arriving
<1>4. ASSUME NEW n \in Prefixes, BeginRestore(n) \/ BeginCommit(n), mover'.task = "restore"
      PROVE  Arriving'
  <2>1. /\ mover'.next = 1 /\ mover'.at \in {"view", "exit"} /\ mover'.block = 1
        /\ mover'.good /\ placed' = {}
    BY <1>4 DEF BeginRestore, BeginCommit, IdleMover
  <2>2. \A i, b \in Nat \ {0} : ~Behind(i, b)'
    BY <2>1 DEF Behind
  <2>3. mover'.n \in Prefixes
    BY <2>1 DEF Base, TypeOK, MoverOK
  <2>4. /\ Len(Objects(mover'.n)) \in Nat
        /\ \A i \in 1 .. Len(Objects(mover'.n)) : Blocks(Objects(mover'.n)[i]) \in Nat
    BY <2>3, ObjectsAre, FilesAre
  <2>5. \A i \in 1 .. Len(Objects(mover'.n)) : \A b \in 1 .. Blocks(Objects(mover'.n)[i]) :
          i \in Nat \ {0} /\ b \in Nat \ {0}
    BY <2>4
  <2> QED  BY <2>1, <2>2, <2>5 DEF Arriving
<1>5. CASE MoverStep /\ mover.task = "restore" /\ mover'.task = "restore"
  <2>1. /\ mover.next \in Nat /\ mover.at # "idle" /\ mover.n \in Prefixes
        /\ mover.block \in 1 .. Blocks(Key) /\ Blocks(Key) \in Nat
        /\ mover.next \in 1 .. Len(Objects(mover.n))
        /\ Len(Objects(mover.n)) \in Nat
        /\ mover.good => mover.failed = 0
        /\ mover.at = "reject" => mover.failed # 0
        /\ mover.at \in {"view", "open", "get", "place"} => mover.good
    BY <1>1, <1>5, MoverKey, TaskIs DEF MoverOK, DInv, Arriving
  <2>2. /\ \A i \in 1 .. Len(Objects(mover.n)) : Blocks(Objects(mover.n)[i]) \in Nat /\ i \in Nat
        /\ \A i \in 1 .. Len(Objects(mover.n)) :
             \A b \in 1 .. Blocks(Objects(mover.n)[i]) : b \in Nat \ {0}
    BY <2>1, FilesAre
  <2>3. ASSUME SamePosition, UNCHANGED <<stream, placed>>,
               mover'.at \in {"view", "open", "get", "place"} => mover'.good,
               mover'.good => mover.good /\ mover.at # "exit",
               mover'.good => mover'.at \in {"open", "get", "place"} \/ mover.at = "drain"
        PROVE  Arriving'
    <3>1. \A i, b : mover'.good /\ Behind(i, b)' => Behind(i, b)
      BY <2>3 DEF Behind, SamePosition
    <3> QED  BY <1>1, <1>5, <2>3, <3>1, ArrivingGrows DEF SamePosition
  <2>4. CASE OpenView \/ Open
    <3>1. UNCHANGED <<stream, placed>>
      BY <2>4 DEF OpenView, Open, pool
    <3>2. /\ SamePosition /\ mover.at \in {"view", "open"}
          /\ \/ mover'.at \in {"open", "get"} /\ mover'.good = mover.good
             \/ mover'.at \in {"leave", "reject"} /\ ~mover'.good
      BY <1>1, <2>4, RestoreMoves
    <3> QED  BY <2>1, <2>3, <3>1, <3>2
  <2>5. CASE BorrowFails \/ TouchFails
    <3>1. UNCHANGED <<stream, placed>>
      BY <2>5 DEF BorrowFails, TouchFails, pool
    <3>2. SamePosition /\ ~mover'.good /\ mover'.at \in {"drain", "leave"}
      BY <1>1, <1>5, <2>5, SharedMoves, StepsAre, TaskIs
    <3> QED  BY <2>3, <3>1, <3>2
  <2>6. CASE PlaceFails \/ RecordUseFails
    <3>1. UNCHANGED <<stream, placed>>
      BY <2>6 DEF PlaceFails, RecordUseFails
    <3>2. SamePosition /\ ~mover'.good /\ mover'.at \in {"record", "reject", "drain"}
      BY <1>1, <2>6, RestoreMoves
    <3> QED  BY <2>3, <3>1, <3>2
  <2>7. CASE Reject \/ LeaveView
    <3>1. UNCHANGED <<stream, placed>>
      BY <2>7 DEF Reject, LeaveView, pool
    <3>2. SamePosition /\ ~mover'.good /\ mover'.at \in {"drain", "exit"}
      <4>1. CASE Reject
        BY <1>1, <2>1, <4>1, RestoreMoves
      <4>2. CASE LeaveView
        BY <1>1, <1>5, <4>2 DEF LeaveView, At, IdleMover, SamePosition, MoverRecord
      <4> QED  BY <2>7, <4>1, <4>2
    <3> QED  BY <2>3, <3>1, <3>2
  <2>8. CASE Drain
    <3>1. UNCHANGED <<stream, placed>>
      BY <2>8 DEF Drain
    <3>2. SamePosition /\ mover.at = "drain" /\ mover'.at = "leave" /\ mover'.good = mover.good
      BY <1>1, <2>8, RestoreMoves
    <3> QED  BY <2>3, <3>1, <3>2
  <2>9. CASE Borrow
    <3>1. UNCHANGED <<stream, placed>>
      BY <2>9 DEF Borrow
    <3>2. SamePosition /\ mover.at = "get" /\ mover'.at = "place" /\ mover'.good = mover.good
      BY <1>1, <1>5, <2>9, SharedMoves
    <3> QED  BY <2>1, <2>3, <3>1, <3>2
  <2>10. CASE ReceiveFails
    <3>1. mover.at = "place" /\ mover.slot \in Slots
      BY <1>1, <2>10 DEF ReceiveFails, At, Base, MoverHolds, Holding, MoverRecord
    <3>2. PICK op \in Operation : stream' = Append(stream, op)
      BY <1>1, <2>10, <3>1, PlacedIs DEF ReceiveFails
    <3>3. Len(stream') >= Len(stream) /\ \A i \in 1 .. Len(stream) : stream'[i] = stream[i]
      BY <1>1, <3>2, Appended
    <3>4. SamePosition /\ ~mover'.good /\ mover'.at = "record" /\ placed' = placed
      BY <1>1, <2>10, RestoreMoves DEF ReceiveFails
    <3> QED  BY <1>5, <3>3, <3>4, ArrivingGrows DEF SamePosition
  <2>11. CASE Place
    <3>1. /\ mover.at = "place" /\ mover.slot \in Slots /\ placed' = placed
          /\ mover'.at \in {"place", "record"} /\ mover'.good = mover.good
          /\ mover'.n = mover.n /\ mover'.block = mover.block /\ mover.good
      BY <1>1, <2>1, <2>11, PlaceMoves
         DEF Place, At, Base, MoverHolds, Holding, MoverRecord
    <3>2. PICK op \in Operation :
            stream' = Append(stream, op) /\ op.kind = "h2d" /\ op.unit = <<Key, mover.block>>
      BY <1>1, <2>11, <3>1, PlacedIs DEF Place
    <3>3. /\ Len(stream') = Len(stream) + 1 /\ stream'[Len(stream) + 1] = op
          /\ \A i \in 1 .. Len(stream) : stream'[i] = stream[i]
      BY <1>1, <3>2, Appended
    <3>4. ASSUME NEW i, NEW b, i = mover.next, b = mover.block
          PROVE  Arrives(i, b)'
      <4>1. Len(stream) + 1 \in 1 .. Len(stream')
        BY <1>1, <3>3
      <4>2. op.unit = <<Objects(mover'.n)[i], b>>
        BY <3>1, <3>2, <3>4 DEF Key
      <4> QED  BY <3>2, <3>3, <4>1, <4>2 DEF Arrives
    <3>5. ASSUME NEW i \in 1 .. Len(Objects(mover.n)),
                 NEW b \in 1 .. Blocks(Objects(mover.n)[i]), Behind(i, b)'
          PROVE  Behind(i, b) \/ Arrives(i, b)'
      <4>1. i \in Nat /\ b \in Nat \ {0}
        BY <2>2
      <4>2. CASE SameBatch
        <5>1. mover'.next = mover.next + 1 /\ mover'.at = "place" /\ Blocks(Key) = 1
          BY <1>1, <2>11, <4>2, PlaceMoves DEF SameBatch, Key
        <5>2. mover.block = 1
          BY <2>1, <5>1
        <5>3. i <= mover.next
          BY <2>1, <3>1, <3>5, <4>1, <5>1, <5>2 DEF Behind
        <5>4. CASE i = mover.next
          <6>1. b = 1
            BY <5>1, <5>4 DEF Key
          <6> QED  BY <3>4, <5>2, <5>4, <6>1
        <5>5. CASE i < mover.next
          BY <5>5 DEF Behind
        <5> QED  BY <2>1, <4>1, <5>3, <5>4, <5>5
      <4>3. CASE ~SameBatch
        <5>1. mover'.next = mover.next /\ mover'.at = "record"
          BY <1>1, <2>11, <4>3, PlaceMoves
        <5> QED  BY <3>1, <3>4, <3>5, <5>1 DEF Behind
      <4> QED  BY <4>2, <4>3
    <3>6. Len(stream') >= Len(stream)
      BY <1>1, <3>3
    <3> QED  BY <1>5, <3>1, <3>3, <3>5, <3>6, ArrivingGrows
  <2>12. CASE RecordUse
    <3>1. /\ mover.at = "record" /\ mover'.n = mover.n /\ placed' = placed
          /\ mover'.good = mover.good
      BY <1>1, <2>12, BatchMoves DEF RecordUse
    <3>2. PICK s \in Slots : s = mover.slot
      BY <1>1, <2>12 DEF RecordUse, At, Base, MoverHolds, Holding, MoverRecord
    <3>3. PICK op \in Operation : stream' = Append(stream, op)
      BY <2>12, <3>2, PiecesAre DEF RecordUse
    <3>4. Len(stream') >= Len(stream) /\ \A i \in 1 .. Len(stream) : stream'[i] = stream[i]
      BY <1>1, <3>3, Appended
    <3>5. mover'.at \in {"view", "open", "get", "place"} => mover'.good
      BY <1>1, <2>12, BatchMoves
    <3>6. ASSUME NEW i \in 1 .. Len(Objects(mover.n)),
                 NEW b \in 1 .. Blocks(Objects(mover.n)[i]), mover.good, Behind(i, b)'
          PROVE  Behind(i, b)
      <4>1. i \in Nat /\ b \in Nat \ {0} /\ (i = mover.next => b <= Blocks(Key))
        BY <2>2 DEF Key
      <4>2. /\ mover.failed = 0
            /\ \/ /\ mover'.block = mover.block + 1 /\ mover'.next = mover.next
                  /\ mover'.at = "get"
               \/ /\ mover.block = Blocks(Key)
                  /\ mover'.block = 1 /\ mover'.next = mover.next + 1
                  /\ mover'.at \in {"open", "get"}
               \/ /\ mover'.at = "drain" /\ mover.block = Blocks(Key)
                  /\ mover.next = Len(Objects(mover.n))
        BY <1>1, <2>1, <2>12, <3>6, BatchMoves
      <4>3. i < mover.next \/ (i = mover.next /\ b <= mover.block)
        BY <2>1, <3>6, <4>1, <4>2 DEF Behind
      <4> QED  BY <2>1, <3>1, <4>1, <4>3 DEF Behind
    <3> QED  BY <1>5, <3>1, <3>4, <3>5, <3>6, ArrivingGrows
  <2>13. ~Exit
    BY <1>5 DEF Exit, EndProcess, IdleMover
  <2> QED  BY <1>1, <1>5, <2>4, <2>5, <2>6, <2>7, <2>8, <2>9, <2>10, <2>11, <2>12, <2>13,
              WhoRestores
<1>6. CASE MoverStep /\ mover.task = "commit"
  <2>1. mover'.task # "restore"
    BY <1>6, SameTransfer DEF Base, IdleMover
  <2> QED  BY <1>2, <2>1
<1>7. CASE Killed
  BY <1>2, <1>7 DEF Killed, EndProcess, IdleMover
<1>8. CASE \E s \in 1 .. SlotCount : CloseSlot(s)
  BY <1>3, <1>8 DEF CloseSlot
<1> QED  BY <1>1, <1>2, <1>3, <1>4, <1>5, <1>6, <1>7, <1>8, OtherSteps, NobodyMoves,
            GpuArrives DEF pool

---------------------------------------------------------------------------
(* Storing: what is there.                                                 *)

\* While a commit holds the lock no file goes away but the one it condemns.
LEMMA FilesStay ==
  ASSUME Base, Next, mover.task = "commit", mover.at \in LockedSteps,
         NEW k \in Keys, file[k] # "none", ~((Check \/ Verdict) /\ k = Key)
  PROVE  file'[k] # "none"
<1>1. /\ lock = Mover /\ file \in [Keys -> {"none", "right", "wrong", "rotten"}] /\ MoverOK
  BY DEF Base, Locks, TypeOK, DiskOK
<1>2. mover.at \notin {"idle", "view", "reject"}
  BY StepsAre
<1>3. /\ NoThread # Mover /\ Mover \notin Scrubbers
  BY TransferAssumption
<1>4. ASSUME NEW x \in Keys, Condemn(x), k # x
      PROVE  file'[k] # "none"
  BY <1>1, <1>4 DEF Condemn
<1>5. CASE UNCHANGED file
  BY <1>5
<1>6. CASE Check \/ Verdict
  <2>1. Key \in Keys /\ k # Key
    BY <1>1, <1>2, <1>6, MoverKey
  <2> QED  BY <1>4, <1>5, <1>6, <2>1 DEF Check, Verdict, disk
<1>7. CASE Publish \/ PublishFails
  <2>1. UNCHANGED file \/ file' = Written
    BY <1>7 DEF Publish, PublishFails, disk
  <2> QED  BY <1>1, <1>5, <2>1 DEF Written
<1>8. CASE OpenView \/ Reject \/ \E x \in Keys : Evict(x)
  BY <1>2, <1>8 DEF OpenView, Reject, Evict, At
<1>9. CASE \E x \in Keys : Damage(x)
  BY <1>1, <1>9 DEF Damage
<1>10. CASE \E r \in Readers : ReaderView(r) \/ ReaderReject(r)
  BY <1>1, <1>3, <1>10 DEF ReaderView, ReaderReject
<1>11. CASE \E s \in Scrubbers : ScrubVerdict(s)
  BY <1>1, <1>3, <1>11 DEF ScrubVerdict, Base, Locks
<1>12. CASE Announce \/ Restart
  BY <1>5, <1>12 DEF Announce, Restart
<1> QED  BY <1>5, <1>6, <1>7, <1>8, <1>9, <1>10, <1>11, <1>12, WhoChangesDisk DEF disk

\* The positions of a commit are those of its prefix.
LEMMA CommitAt ==
  ASSUME MoverOK, mover.task = "commit"
  PROVE  /\ mover.at # "idle" /\ mover.n \in Prefixes
         /\ Len(Objects(mover.n)) \in Nat /\ BatchEnd \in Nat
         /\ mover.next \in Nat /\ mover.cursor \in Nat
         /\ 1 <= mover.cursor /\ mover.cursor <= mover.next /\ mover.next <= BatchEnd
         /\ BatchEnd <= Len(Objects(mover.n))
         /\ mover.missing \subseteq Batch /\ mover.next \in Batch
         /\ mover.missing \in SUBSET Nat
         /\ \A i \in Batch : /\ i \in 1 .. Len(Objects(mover.n))
                              /\ Blocks(Objects(mover.n)[i]) = Blocks(Key)
         /\ Batch = mover.cursor .. BatchEnd
<1>1. /\ mover.at # "idle" /\ mover.n \in Prefixes /\ mover.next \in Nat
      /\ mover.cursor \in Nat /\ Len(Objects(mover.n)) \in Nat
  BY MoverKey, TaskIs
<1>2. /\ mover.next \in Batch /\ mover.missing \subseteq Batch
      /\ mover.cursor \in 1 .. Len(Objects(mover.n)) /\ mover.missing \in SUBSET Nat
  <2>1. mover.next \in 1 .. Len(Objects(mover.n)) /\ mover.cursor \in 1 .. mover.next
    BY <1>1 DEF MoverOK
  <2> QED  BY <1>1, <2>1 DEF MoverOK, MoverRecord
<1>3. /\ BatchEnd \in Nat /\ BatchEnd \in mover.cursor .. Len(Objects(mover.n))
      /\ \A i \in Batch : /\ i \in 1 .. Len(Objects(mover.n))
                          /\ Blocks(Objects(mover.n)[i]) = Blocks(Objects(mover.n)[mover.cursor])
  BY <1>1, <1>2, BatchIs
<1>4. Blocks(Key) = Blocks(Objects(mover.n)[mover.cursor])
  BY <1>2, <1>3 DEF Key
<1> QED  BY <1>1, <1>2, <1>3, <1>4 DEF Batch

\* Where a commit goes after a check, and after a batch.
LEMMA CheckedMoves ==
  ASSUME mover \in MoverRecord, NEW m, mover' = Checked(m)
  PROVE  /\ mover'.task = mover.task /\ mover'.n = mover.n
         /\ \/ /\ mover.next < BatchEnd
               /\ mover'.missing = m /\ mover'.next = mover.next + 1
               /\ mover'.cursor = mover.cursor /\ mover'.at = "check"
            \/ /\ ~(mover.next < BatchEnd) /\ m = {} /\ BatchEnd < Len(Objects(mover.n))
               /\ mover'.missing = {} /\ mover'.next = BatchEnd + 1
               /\ mover'.cursor = BatchEnd + 1 /\ mover'.at = "check"
            \/ /\ ~(mover.next < BatchEnd) /\ m = {} /\ ~(BatchEnd < Len(Objects(mover.n)))
               /\ mover'.cursor = mover.cursor /\ mover'.at = "announce"
            \/ /\ ~(mover.next < BatchEnd) /\ m # {}
               /\ mover'.missing = m /\ mover'.next = Min(m) /\ mover'.cursor = mover.cursor
               /\ mover'.at \in {"skip", "get"} /\ mover'.right = TRUE
<1>1. CASE mover.next < BatchEnd
  <2>1. mover' = [mover EXCEPT !.missing = m, !.next = mover.next + 1, !.at = "check"]
    BY <1>1 DEF Checked
  <2> QED  BY <1>1, <2>1 DEF MoverRecord
<1>2. CASE ~(mover.next < BatchEnd) /\ m = {} /\ BatchEnd < Len(Objects(mover.n))
  <2>1. mover' = [mover EXCEPT !.cursor = BatchEnd + 1, !.next = BatchEnd + 1, !.block = 1,
                               !.missing = {}, !.at = "check"]
    BY <1>2 DEF Checked, NextBatch
  <2> QED  BY <1>2, <2>1 DEF MoverRecord
<1>3. CASE ~(mover.next < BatchEnd) /\ m = {} /\ ~(BatchEnd < Len(Objects(mover.n)))
  <2>1. mover' = [mover EXCEPT !.at = "announce"]
    BY <1>3 DEF Checked, NextBatch
  <2> QED  BY <1>3, <2>1 DEF MoverRecord
<1>4. CASE ~(mover.next < BatchEnd) /\ m # {}
  <2>1. PICK step \in {"skip", "get"} :
          mover' = [mover EXCEPT !.missing = m, !.block = 1, !.right = TRUE,
                                 !.next = Min(m), !.at = step]
    BY <1>4 DEF Checked
  <2> QED  BY <1>4, <2>1 DEF MoverRecord
<1> QED  BY <1>1, <1>2, <1>3, <1>4

\* Where a commit goes after a file is published: the next missing one, the next
\* batch, or the announcement.
LEMMA PublishMoves ==
  ASSUME mover \in MoverRecord, Publish
  PROVE  LET rest == {i \in mover.missing : i > mover.next} IN
         /\ mover.at = "publish"
         /\ mover'.task = mover.task /\ mover'.n = mover.n
         /\ \/ /\ rest # {} /\ mover'.next = Min(rest) /\ mover'.cursor = mover.cursor
               /\ mover'.missing = mover.missing /\ mover'.at = "publish"
               /\ mover'.block = mover.block
               /\ mover'.slot = mover.slot /\ mover'.right = mover.right
               /\ UNCHANGED slot
            \/ /\ rest = {} /\ BatchEnd < Len(Objects(mover.n))
               /\ mover'.missing = {} /\ mover'.next = BatchEnd + 1
               /\ mover'.cursor = BatchEnd + 1 /\ mover'.at = "check"
            \/ /\ rest = {} /\ ~(BatchEnd < Len(Objects(mover.n)))
               /\ mover'.cursor = mover.cursor /\ mover'.at = "announce"
<1> DEFINE rest == {i \in mover.missing : i > mover.next}
<1>1. mover.at = "publish"
  BY DEF Publish, At
<1>2. CASE rest # {}
  <2>1. mover' = [mover EXCEPT !.next = Min(rest)] /\ UNCHANGED slot
    BY <1>2 DEF Publish
  <2> HIDE DEF rest
  <2>2. /\ mover'.task = mover.task /\ mover'.n = mover.n
        /\ mover'.next = Min(rest) /\ mover'.cursor = mover.cursor
        /\ mover'.missing = mover.missing /\ mover'.at = mover.at /\ mover'.block = mover.block
        /\ mover'.slot = mover.slot /\ mover'.right = mover.right
    BY <2>1 DEF MoverRecord
  <2> USE DEF rest
  <2> QED  BY <1>1, <1>2, <2>1, <2>2
<1>3. CASE rest = {} /\ BatchEnd < Len(Objects(mover.n))
  <2>1. Released(mover).n = mover.n
    BY ReleasedIs
  <2>2. mover' = [Released(mover) EXCEPT !.cursor = BatchEnd + 1, !.next = BatchEnd + 1,
                    !.block = 1, !.missing = {}, !.at = "check"]
    BY <1>3, <2>1 DEF Publish, NextBatch
  <2> QED  BY <1>1, <1>3, <2>2 DEF Released, MoverRecord
<1>4. CASE rest = {} /\ ~(BatchEnd < Len(Objects(mover.n)))
  <2>1. Released(mover).n = mover.n
    BY ReleasedIs
  <2>2. mover' = [Released(mover) EXCEPT !.at = "announce"]
    BY <1>4, <2>1 DEF Publish, NextBatch
  <2> QED  BY <1>1, <1>4, <2>2 DEF Released, MoverRecord
<1> QED  BY <1>2, <1>3, <1>4

\* A commit that stays where it is, or goes on to the next step of the same kind,
\* still has what it had gathered.
LEMMA GatheredStays ==
  ASSUME Base, Base', DInv, mover.task = "commit", mover.at \in LockedSteps,
         mover'.task = mover.task, mover'.n = mover.n, mover'.next = mover.next,
         mover'.cursor = mover.cursor, mover'.missing = mover.missing,
         \A k \in Keys : file[k] # "none" => file'[k] # "none",
         mover'.at \in LockedSteps,
         mover'.at \in {"check", "authenticate", "verdict"} =>
           mover.at \in {"check", "authenticate", "verdict"},
         mover'.at \in {"authenticate", "verdict"} => Present(mover.next),
         mover'.at \in {"get", "copy", "wait", "write", "publish"} =>
           mover.at \in {"get", "copy", "wait", "write", "publish"},
         mover'.at = "announce" => mover.at = "announce"
  PROVE  Gathered'
<1>1. MoverOK /\ mover'.at # "lock"
  BY StepsAre DEF Base, TypeOK
<1>2. ASSUME NEW i \in 1 .. Len(Objects(mover.n)), Present(i)
      PROVE  Present(i)'
  <2>1. Objects(mover.n)[i] \in Keys
    BY <1>1, CommitAt, FilesAre
  <2> QED  BY <1>2, <2>1 DEF Present
<1>3. BatchEnd' = BatchEnd /\ Batch' = Batch
  BY DEF BatchEnd, Batch
<1>4. /\ \A i \in 1 .. mover.cursor - 1 : i \in 1 .. Len(Objects(mover.n))
      /\ \A i \in mover.cursor .. mover.next - 1 : i \in 1 .. Len(Objects(mover.n))
      /\ mover.next \in 1 .. Len(Objects(mover.n))
      /\ \A i \in Batch : i \in 1 .. Len(Objects(mover.n))
      /\ \A i \in mover.missing : i \in 1 .. Len(Objects(mover.n))
  BY <1>1, CommitAt
<1>5. Gathered
  BY DEF DInv
<1>6. \A i \in 1 .. mover.cursor - 1 : Present(i)'
  BY <1>2, <1>4, <1>5 DEF Gathered
<1>7. mover'.at \in {"check", "authenticate", "verdict"} =>
        /\ mover.missing \subseteq mover.cursor .. mover.next - 1
        /\ \A i \in mover.cursor .. mover.next - 1 : i \in mover.missing \/ Present(i)'
  BY <1>2, <1>4, <1>5 DEF Gathered
<1>8. mover'.at \in {"authenticate", "verdict"} => Present(mover.next)'
  <2>1. ASSUME NEW i, i = mover.next, Present(mover.next)
        PROVE  Present(i)'
    BY <1>2, <1>4, <2>1
  <2> QED  BY <2>1
<1>9. mover'.at \in {"get", "copy", "wait", "write", "publish"} =>
        /\ mover.next \in mover.missing
        /\ \A i \in Batch : i \in mover.missing \/ Present(i)'
        /\ \A i \in mover.missing : i < mover.next => Present(i)'
  BY <1>2, <1>4, <1>5 DEF Gathered
<1>10. mover'.at = "announce" =>
         \A i \in 1 .. Len(Objects(mover.n)) : Present(i)'
  BY <1>2, <1>5 DEF Gathered
<1> QED  BY <1>1, <1>3, <1>6, <1>7, <1>8, <1>9, <1>10 DEF Gathered

\* A check, or an authentication, decides about one file of the batch.
LEMMA CheckedGathers ==
  ASSUME Base, Base', DInv, mover.task = "commit", mover.at \in {"check", "verdict"},
         NEW m, mover' = Checked(m),
         \/ m = mover.missing \cup {mover.next}
         \/ m = mover.missing /\ file'[Key] # "none",
         \A k \in Keys : k # Key /\ file[k] # "none" => file'[k] # "none"
  PROVE  Gathered'
<1>1. MoverOK /\ mover \in MoverRecord /\ mover.at \in LockedSteps
  BY StepsAre DEF Base, TypeOK, MoverOK
<1>2. ASSUME NEW i \in 1 .. Len(Objects(mover.n)), i # mover.next, Present(i)
      PROVE  Present(i)'
  <2>1. Objects(mover.n)[i] \in Keys /\ Objects(mover.n)[i] # Key
    BY <1>1, <1>2, CommitAt, FilesAre DEF Key, MoverOK
  <2>2. mover'.n = mover.n
    BY <1>1, CheckedMoves
  <2> QED  BY <1>2, <2>1, <2>2 DEF Present
<1>3. /\ mover.next \in Nat /\ mover.cursor \in Nat /\ BatchEnd \in Nat
      /\ Len(Objects(mover.n)) \in Nat
      /\ 1 <= mover.cursor /\ mover.cursor <= mover.next /\ mover.next <= BatchEnd
      /\ BatchEnd <= Len(Objects(mover.n))
  BY <1>1, CommitAt
<1>4. /\ \A i \in 1 .. mover.cursor - 1 : Present(i)
      /\ mover.missing \subseteq mover.cursor .. mover.next - 1
      /\ \A i \in mover.cursor .. mover.next - 1 : i \in mover.missing \/ Present(i)
  BY <1>1 DEF DInv, Gathered
<1>5. ASSUME NEW i \in 1 .. mover.cursor - 1
      PROVE  Present(i)'
  <2>1. i \in 1 .. Len(Objects(mover.n)) /\ i # mover.next
    BY <1>3
  <2> QED  BY <1>2, <1>4, <2>1
<1>6. m \subseteq mover.cursor .. mover.next
  BY <1>3, <1>4
<1>7. ASSUME NEW i \in mover.cursor .. mover.next, i \notin m
      PROVE  Present(i)'
  <2>1. CASE i = mover.next
    <3>1. m = mover.missing /\ file'[Key] # "none"
      BY <1>7, <2>1
    <3>2. mover'.n = mover.n
      BY <1>1, CheckedMoves
    <3> QED  BY <2>1, <3>1, <3>2 DEF Present, Key
  <2>2. CASE i # mover.next
    <3>1. i \in mover.cursor .. mover.next - 1 /\ i \in 1 .. Len(Objects(mover.n))
      BY <1>3, <2>2
    <3>2. i \notin mover.missing
      BY <1>7
    <3> QED  BY <1>2, <1>4, <2>2, <3>1, <3>2
  <2> QED  BY <2>1, <2>2
<1>8. CASE /\ mover.next < BatchEnd
           /\ mover'.missing = m /\ mover'.next = mover.next + 1
           /\ mover'.cursor = mover.cursor /\ mover'.at = "check"
  <2>1. mover'.next - 1 = mover.next
    BY <1>3, <1>8
  <2> QED  BY <1>5, <1>6, <1>7, <1>8, <2>1 DEF Gathered
<1>9. ASSUME ~(mover.next < BatchEnd), m = {}, NEW i \in 1 .. BatchEnd
      PROVE  Present(i)'
  <2>1. i \in 1 .. mover.cursor - 1 \/ i \in mover.cursor .. mover.next
    BY <1>3, <1>9
  <2> QED  BY <1>5, <1>7, <1>9, <2>1
<1>10. CASE /\ ~(mover.next < BatchEnd) /\ m = {} /\ BatchEnd < Len(Objects(mover.n))
            /\ mover'.missing = {} /\ mover'.next = BatchEnd + 1
            /\ mover'.cursor = BatchEnd + 1 /\ mover'.at = "check"
  <2>1. mover'.cursor - 1 = BatchEnd /\ mover'.cursor .. mover'.next - 1 = {}
    BY <1>3, <1>10
  <2> QED  BY <1>9, <1>10, <2>1 DEF Gathered
<1>11. CASE /\ ~(mover.next < BatchEnd) /\ m = {} /\ ~(BatchEnd < Len(Objects(mover.n)))
            /\ mover'.cursor = mover.cursor /\ mover'.at = "announce"
  <2>1. BatchEnd = Len(Objects(mover.n))
    BY <1>3, <1>11
  <2>2. mover'.n = mover.n
    BY <1>1, CheckedMoves
  <2> QED  BY <1>5, <1>9, <1>11, <2>1, <2>2 DEF Gathered
<1>12. CASE /\ ~(mover.next < BatchEnd) /\ m # {}
            /\ mover'.missing = m /\ mover'.next = Min(m) /\ mover'.cursor = mover.cursor
            /\ mover'.at \in {"skip", "get"}
  <2>1. m \in SUBSET Nat
    BY <1>3, <1>6
  <2>2. Min(m) \in m /\ \A i \in m : ~(i < Min(m))
    <3>1. Min(m) \in m /\ \A i \in m : Min(m) <= i
      BY <1>12, <2>1, LeastOf
    <3>2. Min(m) \in Nat /\ \A i \in m : i \in Nat
      BY <2>1, <3>1
    <3> QED  BY <3>1, <3>2
  <2>3. mover'.n = mover.n
    BY <1>1, CheckedMoves
  <2>4. Batch' = mover.cursor .. mover.next
    <3>1. BatchEnd' = BatchEnd /\ BatchEnd = mover.next
      BY <1>3, <1>12, <2>3 DEF BatchEnd
    <3> QED  BY <1>12, <3>1 DEF Batch
  <2> QED  BY <1>5, <1>7, <1>12, <2>2, <2>4 DEF Gathered
<1> QED  BY <1>1, <1>8, <1>10, <1>11, <1>12, CheckedMoves

\* The file in hand has been published; the rest of the batch, or the next one.
LEMMA PublishGathers ==
  ASSUME Base, Base', DInv, Publish
  PROVE  Gathered'
<1>1. MoverOK /\ mover \in MoverRecord /\ mover.at = "publish" /\ mover.at \in LockedSteps
  BY StepsAre DEF Base, TypeOK, MoverOK, Publish, At
<1>2. mover.task = "commit"
  BY <1>1, StepsAre, TaskIs
<1> DEFINE rest == {i \in mover.missing : i > mover.next}
<1>3. file' = Written /\ file \in [Keys -> {"none", "right", "wrong", "rotten"}]
  BY DEF Publish, Base, TypeOK, DiskOK
<1>4. ASSUME NEW i \in 1 .. Len(Objects(mover.n)), i = mover.next \/ Present(i)
      PROVE  Present(i)'
  <2>1. Objects(mover.n)[i] \in Keys /\ (i = mover.next => Objects(mover.n)[i] = Key)
    BY <1>1, <1>2, CommitAt, FilesAre DEF Key
  <2>2. mover'.n = mover.n
    BY <1>1, PublishMoves
  <2> QED  BY <1>3, <1>4, <2>1, <2>2 DEF Present, Written
<1>5. /\ mover.next \in Nat /\ mover.cursor \in Nat /\ BatchEnd \in Nat
      /\ Len(Objects(mover.n)) \in Nat
      /\ 1 <= mover.cursor /\ mover.cursor <= mover.next /\ mover.next <= BatchEnd
      /\ BatchEnd <= Len(Objects(mover.n)) /\ mover.missing \in SUBSET Nat
      /\ Batch = mover.cursor .. BatchEnd
      /\ \A i \in Batch : i \in 1 .. Len(Objects(mover.n))
      /\ mover.missing \subseteq Batch
  BY <1>1, <1>2, CommitAt
<1>6. /\ \A i \in 1 .. mover.cursor - 1 : Present(i)
      /\ \A i \in Batch : i \in mover.missing \/ Present(i)
      /\ \A i \in mover.missing : i < mover.next => Present(i)
  BY <1>1, <1>2 DEF DInv, Gathered
<1>7. ASSUME NEW i \in 1 .. mover.cursor - 1
      PROVE  Present(i)'
  <2>1. i \in 1 .. Len(Objects(mover.n))
    BY <1>5
  <2> QED  BY <1>4, <1>6, <2>1
<1>8. ASSUME NEW i \in Batch, i \notin rest
      PROVE  Present(i)'
  <2>1. i \in 1 .. Len(Objects(mover.n)) /\ i \in Nat
    BY <1>5
  <2>2. i \in mover.missing => i < mover.next \/ i = mover.next
    BY <1>5, <1>8, <2>1
  <2> QED  BY <1>4, <1>6, <2>1, <2>2
<1>9. CASE /\ rest # {} /\ mover'.next = Min(rest) /\ mover'.cursor = mover.cursor
           /\ mover'.missing = mover.missing /\ mover'.at = "publish"
  <2>1. rest \in SUBSET Nat /\ rest \subseteq mover.missing
    BY <1>5
  <2>2. Min(rest) \in rest /\ \A i \in rest : ~(i < Min(rest))
    <3> HIDE DEF rest
    <3>1. Min(rest) \in rest /\ \A i \in rest : Min(rest) <= i
      BY <1>9, <2>1, LeastOf
    <3>2. Min(rest) \in Nat /\ \A i \in rest : i \in Nat
      BY <2>1, <3>1
    <3> QED  BY <3>1, <3>2
  <2>3. mover'.n = mover.n
    BY <1>1, PublishMoves
  <2>4. Batch' = Batch
    BY <1>9, <2>3 DEF Batch, BatchEnd
  <2>5. \A i \in Batch : i \in mover.missing \/ Present(i)'
    BY <1>8, <2>1
  <2>6. ASSUME NEW i \in mover.missing, i < Min(rest)
        PROVE  Present(i)'
    <3>1. i \notin rest
      BY <2>2, <2>6
    <3> QED  BY <1>5, <1>8, <3>1
  <2> HIDE DEF rest
  <2> QED  BY <1>7, <1>9, <2>1, <2>2, <2>4, <2>5, <2>6 DEF Gathered
<1>10. ASSUME rest = {}, NEW i \in 1 .. BatchEnd
       PROVE  Present(i)'
  <2>1. i \in 1 .. mover.cursor - 1 \/ i \in Batch
    BY <1>5
  <2> QED  BY <1>7, <1>8, <1>10, <2>1
<1>11. CASE /\ rest = {} /\ BatchEnd < Len(Objects(mover.n))
            /\ mover'.missing = {} /\ mover'.next = BatchEnd + 1
            /\ mover'.cursor = BatchEnd + 1 /\ mover'.at = "check"
  <2>1. mover'.cursor - 1 = BatchEnd /\ mover'.cursor .. mover'.next - 1 = {}
    BY <1>5, <1>11
  <2> QED  BY <1>10, <1>11, <2>1 DEF Gathered
<1>12. CASE /\ rest = {} /\ ~(BatchEnd < Len(Objects(mover.n)))
            /\ mover'.cursor = mover.cursor /\ mover'.at = "announce"
  <2>1. BatchEnd = Len(Objects(mover.n))
    BY <1>5, <1>12
  <2>2. mover'.n = mover.n
    BY <1>1, PublishMoves
  <2> QED  BY <1>7, <1>10, <1>12, <2>1, <2>2 DEF Gathered
<1> QED  BY <1>1, <1>9, <1>11, <1>12, PublishMoves

\* A commit knows which of its files are there.
LEMMA GatheredKept ==
  ASSUME Base, Base', PInv, DInv, Next
  PROVE  Gathered'
<1>1. MoverOK /\ mover \in MoverRecord /\ available \in Seq(Slots)
  BY DEF Base, TypeOK, MoverOK, PoolOK
<1>2. CASE mover'.task # "commit"
  <2>1. mover'.at # "lock"
    BY <1>2, StepsAre DEF Base, TypeOK, MoverOK, IdleMover
  <2> QED  BY <1>2, <2>1 DEF Gathered
<1>3. ASSUME NEW n \in Prefixes, BeginRestore(n) \/ BeginCommit(n)
      PROVE  Gathered'
  <2>1. /\ mover'.next = 1 /\ mover'.cursor = 1 /\ mover'.missing = {}
        /\ mover'.at \in {"view", "exit", "lock"}
    BY <1>3 DEF BeginRestore, BeginCommit, IdleMover
  <2> QED  BY <2>1, StepsAre DEF Gathered
<1>4. ASSUME mover.task = "commit", mover.at \in LockedSteps, ~Check, ~Verdict
      PROVE  \A k \in Keys : file[k] # "none" => file'[k] # "none"
  BY <1>4, FilesStay
<1>5. CASE UNCHANGED mover /\ mover.task = "commit" /\ ~MoverStep
  <2>1. CASE mover.at = "lock"
    BY <1>5, <2>1, StepsAre DEF DInv, Gathered
  <2>2. CASE mover.at # "lock"
    <3>1. mover.at \in LockedSteps
      BY <1>1, <1>5, <2>2 DEF MoverOK, IdleMover
    <3>2. ~Check /\ ~Verdict
      BY <1>5 DEF MoverStep
    <3>3. \A k \in Keys : file[k] # "none" => file'[k] # "none"
      BY <1>4, <1>5, <3>1, <3>2
    <3> QED  BY <1>5, <3>1, <3>3, GatheredStays DEF DInv, Gathered
  <2> QED  BY <2>1, <2>2
<1>6. CASE MoverStep /\ mover.task = "commit" /\ mover'.task = "commit"
  <2>1. CASE TakeLock
    <3>1. SamePosition /\ mover.at = "lock" /\ mover'.at = "check"
      BY <1>1, <2>1, CommitMoves
    <3>2. mover'.next = 1 /\ mover'.cursor = 1 /\ mover'.missing = {}
      BY <3>1 DEF SamePosition, DInv, Gathered
    <3> QED  BY <3>1, <3>2 DEF Gathered
  <2>2. mover.at = "lock" \/ mover.at \in LockedSteps
    BY <1>1, <1>6 DEF MoverOK, IdleMover
  <2>3. ASSUME mover'.n = mover.n, mover'.next = mover.next, mover'.cursor = mover.cursor,
               mover'.missing = mover.missing, mover.at # "lock", ~Check, ~Verdict,
               \/ mover'.at = "skip"
               \/ mover.at = "authenticate" /\ mover'.at = "verdict"
               \/ /\ mover.at \in {"get", "copy", "wait", "write", "publish"}
                  /\ mover'.at \in {"get", "copy", "wait", "write", "publish"}
        PROVE  Gathered'
    <3>1. mover.at \in LockedSteps /\ mover'.at \in LockedSteps
      BY <2>2, <2>3, StepsAre
    <3>2. mover.at = "authenticate" => Present(mover.next)
      BY <1>6, <3>1 DEF DInv, Gathered
    <3> QED  BY <1>4, <1>6, <2>3, <3>1, <3>2, GatheredStays
  <2>4. CASE BorrowCpu \/ Capture \/ Captured
    <3>1. /\ SamePosition
          /\ \/ mover.at = "authenticate" /\ mover'.at = "verdict"
             \/ mover.at = "copy" /\ mover'.at = "wait"
             \/ mover.at = "wait" /\ mover'.at \in {"write", "publish"}
      BY <1>1, <2>4, CommitMoves
    <3> QED  BY <2>3, <3>1 DEF SamePosition, Check, Verdict, At
  <2>5. CASE CaptureFails \/ CopyFails \/ PublishFails
    <3>1. SamePosition /\ mover'.at = "skip" /\ mover.at \in {"copy", "wait", "publish"}
      BY <1>1, <2>5, CommitMoves
    <3> QED  BY <2>3, <3>1 DEF SamePosition, Check, Verdict, At
  <2>6. CASE WriteBlock
    <3>1. /\ mover.at = "write" /\ mover'.n = mover.n /\ mover'.next = mover.next
          /\ mover'.cursor = mover.cursor /\ mover'.missing = mover.missing
          /\ mover'.at \in {"skip", "get", "publish"}
      BY <1>1, <2>6, CommitMoves
    <3> QED  BY <2>3, <3>1 DEF Check, Verdict, At
  <2>7. CASE Borrow \/ BorrowFails \/ (TouchFails /\ mover.at = "announce")
    <3>1. /\ SamePosition
          /\ \/ mover.at = "get" /\ mover'.at \in {"copy", "skip"}
             \/ mover.at = "announce" /\ mover'.at = "skip"
      BY <1>1, <1>6, <2>7, SharedMoves
    <3> QED  BY <2>3, <3>1 DEF SamePosition, Check, Verdict, At
  <2>8. CASE Check
    <3>1. mover.at = "check" /\ mover.at \in LockedSteps /\ Key \in Keys
      BY <1>1, <2>8, StepsAre, MoverKey DEF Check, At
    <3>2. \A k \in Keys : k # Key /\ file[k] # "none" => file'[k] # "none"
      BY <1>6, <3>1, FilesStay
    <3>3. CASE mover' = Checked(mover.missing \cup {mover.next})
      BY <1>6, <3>1, <3>2, <3>3, CheckedGathers
    <3>4. CASE Readable(Key) /\ Goto("authenticate") /\ UNCHANGED disk
      <4>1. SamePosition /\ mover'.at = "authenticate"
        BY <1>1, <3>4 DEF Goto, SamePosition, MoverRecord
      <4>2. Present(mover.next) /\ file' = file /\ mover'.at \in LockedSteps
        BY <3>4, <4>1, StepsAre DEF Readable, Present, Key, disk
      <4> QED  BY <1>6, <3>1, <4>1, <4>2, GatheredStays DEF SamePosition
    <3> QED  BY <2>8, <3>3, <3>4 DEF Check
  <2>9. CASE Verdict
    <3>1. mover.at = "verdict" /\ mover.at \in LockedSteps /\ Key \in Keys
      BY <1>1, <2>9, StepsAre, MoverKey DEF Verdict, At
    <3>2. \A k \in Keys : k # Key /\ file[k] # "none" => file'[k] # "none"
      BY <1>6, <3>1, FilesStay
    <3>3. CASE mover' = Checked(mover.missing \cup {mover.next})
      BY <1>6, <3>1, <3>2, <3>3, CheckedGathers
    <3>4. CASE mover' = Checked(mover.missing) /\ UNCHANGED disk
      <4>1. file'[Key] # "none"
        BY <1>6, <3>1, <3>4 DEF DInv, Gathered, Present, Key, disk
      <4> QED  BY <1>6, <3>1, <3>2, <3>4, <4>1, CheckedGathers
    <3> QED  BY <2>9, <3>3, <3>4 DEF Verdict
  <2>10. ~Announce /\ ~Skip
    BY <1>6 DEF Announce, Skip, IdleMover
  <2> QED  BY <1>1, <1>6, <2>1, <2>4, <2>5, <2>6, <2>7, <2>8, <2>9, <2>10, PublishGathers,
              WhoCommits
<1>7. CASE MoverStep /\ mover.task = "restore"
  <2>1. mover'.task # "commit"
    BY <1>7, SameTransfer DEF Base, IdleMover
  <2> QED  BY <1>2, <2>1
<1>8. CASE Killed
  BY <1>2, <1>8 DEF Killed, EndProcess, IdleMover
<1>9. CASE UNCHANGED mover /\ mover.task # "commit"
  BY <1>2, <1>9
<1>10. UNCHANGED mover \/ MoverStep \/ Killed
       \/ \E n \in Prefixes : BeginRestore(n) \/ BeginCommit(n)
  BY WhoMovesTheMover
<1> QED  BY <1>1, <1>2, <1>3, <1>5, <1>6, <1>7, <1>8, <1>9, <1>10, NobodyMoves

---------------------------------------------------------------------------
(* Storing: the bytes.                                                     *)

\* What a capture wants depends on the mover's place alone.
LEMMA SameCapture ==
  ASSUME mover'.n = mover.n, mover'.next = mover.next, mover'.block = mover.block,
         mover'.missing = mover.missing
  PROVE  Lanes' = Lanes /\ Key' = Key /\ \A o : Wanted(o)' = Wanted(o)
<1>1. Key' = Key
  BY DEF Key
<1> QED  BY <1>1 DEF Lanes, Wanted

\* A capture fits into its slot and wants units of its prefix; the file in hand has
\* its own lane.
LEMMA WantedIs ==
  ASSUME MoverOK, mover.task = "commit"
  PROVE  /\ \A o \in Lanes : o \in 1 .. SlotFiles /\ Wanted(o) \in UnitsOf(mover.n)
         /\ Blocks(Key) \in Nat \ {0}
         /\ Blocks(Key) > 1 => Lanes = {1} /\ \A o : Wanted(o) = <<Key, mover.block>>
         /\ ~(Blocks(Key) > 1) /\ mover.next \in mover.missing =>
              /\ Offset(mover.next) \in Lanes
              /\ Wanted(Offset(mover.next)) = <<Key, 1>>
<1>1. /\ mover.at # "idle" /\ mover.n \in Prefixes /\ SlotFiles \in Nat \ {0}
      /\ mover.missing \subseteq Batch
      /\ \A i \in Batch : i \in 1 .. Len(Objects(mover.n))
  BY CommitAt, TransferAssumption
<1>2. Blocks(Key) \in Nat \ {0}
  BY <1>1, MoverKey
<1>3. CASE Blocks(Key) > 1
  <2>1. Lanes = {1} /\ \A o : Wanted(o) = <<Key, mover.block>>
    BY <1>3 DEF Lanes, Wanted
  <2>2. <<Key, mover.block>> \in UnitsOf(mover.n) /\ 1 \in 1 .. SlotFiles
    BY <1>1, UnitAt
  <2> QED  BY <1>2, <1>3, <2>1, <2>2
<1>4. CASE ~(Blocks(Key) > 1)
  <2>1. /\ Lanes = 1 .. Cardinality(mover.missing)
        /\ \A o : Wanted(o) = <<Objects(mover.n)[Lane(mover.missing, o)], 1>>
    BY <1>4 DEF Lanes, Wanted
  <2>2. /\ Cardinality(mover.missing) \in Nat /\ Cardinality(mover.missing) <= SlotFiles
        /\ \A i \in mover.missing : Offset(i) \in 1 .. Cardinality(mover.missing)
        /\ \A i, k \in mover.missing : Offset(i) = Offset(k) => i = k
        /\ \A o \in 1 .. Cardinality(mover.missing) :
             Lane(mover.missing, o) \in mover.missing /\ Offset(Lane(mover.missing, o)) = o
    BY <1>1, Offsets
  <2>3. ASSUME NEW o \in Lanes
        PROVE  o \in 1 .. SlotFiles /\ Wanted(o) \in UnitsOf(mover.n)
    <3>1. PICK i \in 1 .. Len(Objects(mover.n)) : i = Lane(mover.missing, o)
      BY <1>1, <2>1, <2>2
    <3>2. 1 \in 1 .. Blocks(Objects(mover.n)[i])
      BY <1>1, FilesAre
    <3>3. Wanted(o) \in UnitsOf(mover.n)
      BY <1>1, <2>1, <3>1, <3>2, UnitsAre
    <3>4. o \in 1 .. SlotFiles
      BY <1>1, <2>1, <2>2
    <3> QED  BY <3>3, <3>4
  <2>4. ASSUME mover.next \in mover.missing
        PROVE  /\ Offset(mover.next) \in Lanes
               /\ Wanted(Offset(mover.next)) = <<Key, 1>>
    <3>1. PICK o \in Lanes : o = Offset(mover.next)
      BY <2>1, <2>2, <2>4
    <3>2. Lane(mover.missing, o) = mover.next
      BY <2>1, <2>2, <2>4, <3>1
    <3> QED  BY <2>1, <3>1, <3>2 DEF Key
  <2> QED  BY <1>2, <1>4, <2>3, <2>4
<1> QED  BY <1>3, <1>4

\* The bytes that a commit publishes are those of the key.
LEMMA PublishesRight ==
  ASSUME Base, DInv, mover.at = "publish"
  PROVE  RightBytes
<1>1. MoverOK /\ mover.task = "commit" /\ mover.at \in LockedSteps
  BY StepsAre, TaskIs DEF Base, TypeOK
<1>2. mover.next \in mover.missing
  BY <1>1 DEF DInv, Gathered
<1>3. CASE Blocks(Key) > 1
  BY <1>1, <1>3 DEF DInv, Captures, RightBytes
<1>4. CASE ~(Blocks(Key) > 1)
  <2>1. Offset(mover.next) \in Lanes /\ Wanted(Offset(mover.next)) = <<Key, 1>>
    BY <1>1, <1>2, <1>4, WantedIs
  <2>2. Blocks(Key) = 1
    BY <1>1, <1>4, WantedIs
  <2>3. Filled(Offset(mover.next))
    BY <1>1, <2>1, <2>2 DEF DInv, Captures
  <2> QED  BY <1>4, <2>1, <2>3 DEF Filled, RightBytes
<1> QED  BY <1>3, <1>4

\* Nothing with other bytes than its key's is ever published.
LEMMA WrongNever ==
  ASSUME Base, PInv, DInv, Next
  PROVE  NeverWrong'
<1>1. /\ NeverWrong /\ file \in [Keys -> {"none", "right", "wrong", "rotten"}]
      /\ DiskOK /\ MoverOK /\ ReadersOK
  BY DEF DInv, Base, TypeOK, DiskOK
<1>2. CASE UNCHANGED file
  BY <1>1, <1>2 DEF NeverWrong
<1>3. ASSUME NEW k, Condemn(k)
      PROVE  NeverWrong'
  BY <1>1, <1>3 DEF Condemn, NeverWrong
<1>4. ASSUME NEW n, LookupEffect(n)
      PROVE  NeverWrong'
  BY <1>2, <1>3, <1>4 DEF LookupEffect, disk
<1>5. CASE Publish \/ PublishFails
  <2>1. RightBytes
    BY <1>5, PublishesRight DEF Publish, PublishFails, At
  <2>2. UNCHANGED file \/ file' = Written
    BY <1>5 DEF Publish, PublishFails, disk
  <2> QED  BY <1>1, <1>2, <2>1, <2>2 DEF Written, NeverWrong
<1>6. CASE OpenView \/ Reject
  BY <1>3, <1>4, <1>6 DEF OpenView, Reject
<1>7. CASE Check \/ Verdict
  BY <1>2, <1>3, <1>7 DEF Check, Verdict, disk
<1>8. CASE Announce \/ Restart
  BY <1>2, <1>8 DEF Announce, Restart
<1>9. CASE \E k \in Keys : Evict(k) \/ Damage(k)
  BY <1>1, <1>9 DEF Evict, Damage, NeverWrong
<1>10. CASE \E r \in Readers : ReaderView(r) \/ ReaderReject(r)
  BY <1>3, <1>4, <1>10 DEF ReaderView, ReaderReject
<1>11. CASE \E s \in Scrubbers : ScrubVerdict(s)
  BY <1>2, <1>3, <1>11 DEF ScrubVerdict
<1> QED  BY <1>2, <1>5, <1>6, <1>7, <1>8, <1>9, <1>10, <1>11, WhoChangesDisk DEF disk

\* The GPU fills one lane at a time, with the unit that belongs there; a slot whose
\* capture has been waited for it leaves alone.
LEMMA GpuCaptures ==
  ASSUME Base, Base', PInv, DInv, Gpu
  PROVE  Captures'
<1> SUFFICES ASSUME mover.task = "commit"
             PROVE  Captures'
  BY DEF Gpu, Captures
<1>1. /\ MoverOK /\ PoolOK /\ slot \in [Slots -> SlotRecord] /\ mover \in MoverRecord
      /\ stream \in Seq(Operation) /\ Len(stream) \in Nat /\ mover' = mover
  BY DEF Base, TypeOK, PoolOK, MoverOK, Gpu
<1>2. PICK op \in Operation :
        /\ op = Head(stream) /\ stream # <<>> /\ stream' = Tail(stream)
        /\ op.kind \in {"event", "h2d", "d2h"}
        /\ op.kind = "event" => slot' = slot /\ placed' = placed
        /\ op.kind = "d2h" =>
             /\ placed' = placed
             /\ slot' = [slot EXCEPT ![op.slot].data[op.offset] =
                           IF op.unit \in placed THEN op.unit ELSE Junk]
  BY <1>1, GpuDoes
<1>3. /\ Len(stream') = Len(stream) - 1 /\ Len(stream) >= 1 /\ op = stream[1]
      /\ \A i \in 1 .. Len(stream) - 1 : stream'[i] = stream[i + 1]
  BY <1>1, <1>2, Tailed
<1>4. op.kind # "h2d" /\ placed' = placed
  <2>1. 1 \in 1 .. Len(stream)
    BY <1>1, <1>3
  <2> QED  BY <1>2, <1>3, <2>1, NoneToGpu
<1>5. /\ Lanes' = Lanes /\ Key' = Key /\ \A o : Wanted(o)' = Wanted(o)
  BY <1>1, SameCapture
<1>6. /\ \A o \in Lanes : o \in 1 .. SlotFiles /\ Wanted(o) \in UnitsOf(mover.n)
      /\ placed = UnitsOf(mover.n)
  BY <1>1, WantedIs DEF DInv, Captures
<1>7. ASSUME NEW s \in Slots, NEW o \in 1 .. SlotFiles,
             ~(op.kind = "d2h" /\ op.slot = s /\ op.offset = o)
      PROVE  slot'[s].data[o] = slot[s].data[o]
  <2>1. CASE op.kind = "event"
    BY <1>2, <2>1
  <2>2. CASE op.kind = "d2h"
    <3>1. PICK t \in Slots : t = op.slot
      BY DEF Operation
    <3>2. PICK p \in Nat : p = op.offset
      BY DEF Operation
    <3>3. PICK v : slot' = [slot EXCEPT ![t].data[p] = v]
      BY <1>2, <2>2, <3>1, <3>2
    <3>4. slot[t].data \in [1 .. SlotFiles -> Unit] /\ slot[t] \in SlotRecord
      BY <1>1 DEF SlotRecord
    <3>5. /\ t # s => slot'[s] = slot[s]
          /\ t = s => slot'[s].data = [slot[s].data EXCEPT ![p] = v]
      BY <1>1, <3>3, <3>4 DEF SlotRecord
    <3> QED  BY <1>7, <2>2, <3>1, <3>2, <3>4, <3>5
  <2> QED  BY <1>2, <1>4, <2>1, <2>2
<1>8. ASSUME NEW s \in Slots, NEW o \in 1 .. SlotFiles,
             op.kind = "d2h", op.slot = s, op.offset = o, op.unit \in placed
      PROVE  slot'[s].data[o] = op.unit
  <2>1. slot' = [slot EXCEPT ![s].data[o] = op.unit]
    BY <1>2, <1>8
  <2>2. slot[s] \in SlotRecord /\ slot[s].data \in [1 .. SlotFiles -> Unit]
    BY <1>1 DEF SlotRecord
  <2>3. slot'[s].data = [slot[s].data EXCEPT ![o] = op.unit]
    BY <1>1, <2>1, <2>2 DEF SlotRecord
  <2> QED  BY <2>2, <2>3
<1>9. ASSUME mover.at = "wait"
      PROVE  /\ \A i \in 1 .. Len(stream') : CaptureOp(i)'
             /\ \A o \in Lanes' : Filled(o)' \/ Comes(o)'
  <2>1. PICK s \in Slots : s = mover.slot
    BY <1>1, <1>9 DEF Base, MoverHolds, Holding, MoverRecord
  <2>2. /\ \A i \in 1 .. Len(stream) : CaptureOp(i)
        /\ \A o \in Lanes : Filled(o) \/ Comes(o)
    BY <1>9 DEF DInv, Captures
  <2>3. ASSUME NEW i \in 1 .. Len(stream')
        PROVE  CaptureOp(i)'
    <3>1. i + 1 \in 1 .. Len(stream) /\ stream'[i] = stream[i + 1]
      BY <1>1, <1>3
    <3>2. CaptureOp(i + 1)
      BY <2>2, <3>1
    <3> QED  BY <1>1, <1>5, <3>1, <3>2 DEF CaptureOp
  <2>4. ASSUME NEW o \in Lanes
        PROVE  Filled(o)' \/ Comes(o)'
    <3>1. o \in 1 .. SlotFiles /\ Wanted(o) \in placed
      BY <1>6
    <3>2. CASE op.kind = "d2h" /\ op.slot = s /\ op.offset = o
      <4>1. CaptureOp(1) /\ op.unit = Wanted(o)
        <5>1. 1 \in 1 .. Len(stream)
          BY <1>1, <1>3
        <5> QED  BY <1>3, <2>1, <2>2, <3>2, <5>1 DEF CaptureOp
      <4>2. slot'[s].data[o] = Wanted(o)
        BY <1>8, <3>1, <3>2, <4>1
      <4> QED  BY <1>1, <1>5, <2>1, <4>2 DEF Filled
    <3>3. CASE ~(op.kind = "d2h" /\ op.slot = s /\ op.offset = o) /\ Filled(o)
      <4>1. slot'[s].data[o] = slot[s].data[o]
        BY <1>7, <3>1, <3>3
      <4> QED  BY <1>1, <1>5, <2>1, <3>3, <4>1 DEF Filled
    <3>4. CASE ~(op.kind = "d2h" /\ op.slot = s /\ op.offset = o) /\ Comes(o)
      <4>1. PICK j \in 1 .. Len(stream) :
              stream[j].slot = s /\ stream[j].kind = "d2h" /\ stream[j].offset = o
        BY <2>1, <3>4 DEF Comes
      <4>2. j # 1
        BY <1>3, <3>4, <4>1
      <4>3. j - 1 \in 1 .. Len(stream') /\ j - 1 \in 1 .. Len(stream) - 1 /\ (j - 1) + 1 = j
        BY <1>1, <1>3, <4>2
      <4>4. stream'[j - 1] = stream[j]
        BY <1>3, <4>3
      <4> QED  BY <1>1, <2>1, <4>1, <4>3, <4>4 DEF Comes
    <3> QED  BY <2>2, <3>2, <3>3, <3>4
  <2> QED  BY <1>5, <2>3, <2>4
<1>10. ASSUME mover.at = "write" \/ (mover.at = "publish" /\ Blocks(Key) = 1), NEW o \in Lanes
       PROVE  Filled(o)'
  <2>1. mover.slot # 0
    BY <1>1, <1>10 DEF Base, MoverHolds, Holding, DInv, Captures
  <2>2. PICK s \in Slots : s = mover.slot /\ Free(s)
    BY <1>1, <1>10, <2>1 DEF MoverRecord, PInv, HeldSlot
  <2>3. op.slot # s
    <3>1. 1 \in 1 .. Len(stream)
      BY <1>1, <1>3
    <3> QED  BY <1>3, <2>2, <3>1 DEF Free
  <2>4. Filled(o)
    BY <1>10 DEF DInv, Captures
  <2>5. slot'[s].data[o] = slot[s].data[o]
    BY <1>6, <1>7, <2>3
  <2> QED  BY <1>1, <1>5, <2>2, <2>4, <2>5 DEF Filled
<1>11. /\ mover.at \in {"get", "copy", "wait", "write", "publish"} => mover.right
       /\ mover.at = "write" => Blocks(Key) > 1
       /\ mover.at = "publish" => (mover.slot = 0 <=> Blocks(Key) > 1)
  BY DEF DInv, Captures
<1> QED  BY <1>1, <1>4, <1>5, <1>6, <1>9, <1>10, <1>11 DEF Captures

\* The copies of a capture go to the lanes of a slot that is free.
LEMMA CaptureCaptures ==
  ASSUME Base, Base', PInv, DInv, Capture
  PROVE  Captures'
<1>1. /\ MoverOK /\ PoolOK /\ slot \in [Slots -> SlotRecord] /\ mover \in MoverRecord
      /\ stream \in Seq(Operation) /\ Len(stream) \in Nat /\ mover.at = "copy"
      /\ placed' = placed
  BY DEF Base, TypeOK, PoolOK, MoverOK, Capture, At
<1>2. /\ mover'.n = mover.n /\ mover'.next = mover.next /\ mover'.block = mover.block
      /\ mover'.missing = mover.missing /\ mover'.slot = mover.slot
      /\ mover'.right = mover.right /\ mover'.at = "wait" /\ mover'.task = mover.task
  BY <1>1, CommitMoves DEF SamePosition
<1>3. mover.task = "commit"
  BY <1>1, StepsAre, TaskIs
<1>4. PICK s \in Slots : s = mover.slot /\ Free(s)
  BY <1>1 DEF Base, MoverHolds, Holding, MoverRecord, PInv, HeldSlot
<1>5. /\ Lanes' = Lanes /\ Key' = Key /\ \A o : Wanted(o)' = Wanted(o)
  BY <1>2, SameCapture
<1>6. /\ Copies \in Seq(Operation) /\ Len(Copies) \in Nat
      /\ \A i \in 1 .. Len(Copies) :
           /\ Copies[i].slot = s /\ Copies[i].kind = "d2h"
           /\ Copies[i].offset = i /\ Copies[i].unit = Wanted(i)
      /\ Lanes = 1 .. Len(Copies)
  BY <1>1, <1>4, CopiesAre
<1>7. PICK e \in Operation : e = Event(s) /\ e.kind = "event"
  BY PiecesAre
<1>8. PICK q \in Seq(Operation) : q = stream \o Copies
  <2>1. PICK t \in Seq(Operation) : t = Copies
    BY <1>6
  <2>2. stream \o t \in Seq(Operation)
    BY <1>1
  <2> QED  BY <2>1, <2>2
<1>9. stream' = Append(q, e)
  BY <1>4, <1>7, <1>8 DEF Capture
<1>10. /\ Len(q) = Len(stream) + Len(Copies) /\ Len(q) \in Nat
       /\ \A i \in 1 .. Len(stream) : q[i] = stream[i]
       /\ \A i \in 1 .. Len(Copies) : q[Len(stream) + i] = Copies[i]
       /\ \A i \in 1 .. Len(q) : i <= Len(stream) \/ (i - Len(stream)) \in 1 .. Len(Copies)
  BY <1>1, <1>6, <1>8, Joined
<1>11. /\ Len(stream') = Len(q) + 1 /\ stream'[Len(q) + 1] = e
       /\ \A i \in 1 .. Len(q) : stream'[i] = q[i]
  BY <1>7, <1>9, Appended
<1>12. ASSUME NEW i \in 1 .. Len(stream')
       PROVE  CaptureOp(i)'
  <2>1. CASE i = Len(q) + 1
    BY <1>7, <1>11, <2>1 DEF CaptureOp
  <2>2. CASE i \in 1 .. Len(stream)
    <3>1. stream'[i] = stream[i]
      BY <1>1, <1>6, <1>10, <1>11, <2>2
    <3> QED  BY <1>2, <1>4, <2>2, <3>1 DEF CaptureOp, Free
  <2>3. CASE i \in 1 .. Len(q) /\ ~(i <= Len(stream))
    <3>1. PICK j \in 1 .. Len(Copies) : j = i - Len(stream) /\ i = Len(stream) + j
      <4>1. i \in Nat /\ i - Len(stream) \in 1 .. Len(Copies) /\ i = Len(stream) + (i - Len(stream))
        BY <1>1, <1>6, <1>10, <2>3
      <4> QED  BY <4>1
    <3>2. stream'[i] = Copies[j]
      BY <1>10, <1>11, <2>3, <3>1
    <3>3. stream'[i].offset = j /\ stream'[i].unit = Wanted(j) /\ j \in Lanes
      BY <1>6, <3>2
    <3> QED  BY <1>5, <3>3 DEF CaptureOp
  <2> QED  BY <1>1, <1>10, <1>11, <2>1, <2>2, <2>3
<1>13. ASSUME NEW o \in Lanes
       PROVE  Comes(o)'
  <2>1. o \in 1 .. Len(Copies) /\ Copies[o].offset = o
    BY <1>6
  <2>2. Len(stream) + o \in 1 .. Len(q) /\ Len(stream) + o \in 1 .. Len(stream')
    BY <1>1, <1>6, <1>10, <1>11, <2>1
  <2>3. stream'[Len(stream) + o] = Copies[o]
    BY <1>10, <1>11, <2>1, <2>2
  <2> QED  BY <1>2, <1>4, <1>6, <2>1, <2>2, <2>3 DEF Comes
<1>14. mover.right /\ placed = UnitsOf(mover.n)
  BY <1>1, <1>3 DEF DInv, Captures
<1> QED  BY <1>1, <1>2, <1>5, <1>12, <1>13, <1>14 DEF Captures

\* What a commit captures is what its files are to hold.
LEMMA CapturesKept ==
  ASSUME Base, Base', PInv, DInv, Next
  PROVE  Captures'
<1>1. /\ MoverOK /\ mover \in MoverRecord /\ PoolOK /\ slot \in [Slots -> SlotRecord]
      /\ stream \in Seq(Operation) /\ Len(stream) \in Nat /\ available \in Seq(Slots)
  BY DEF Base, TypeOK, MoverOK, PoolOK
<1>2. CASE mover'.task # "commit"
  BY <1>2 DEF Captures
<1>3. CASE UNCHANGED <<mover, pool, placed>>
  <2>1. /\ Lanes' = Lanes /\ Key' = Key /\ \A o : Wanted(o)' = Wanted(o)
    BY <1>3, SameCapture
  <2>2. /\ \A i : CaptureOp(i)' = CaptureOp(i)
        /\ \A o : Filled(o)' = Filled(o) /\ Comes(o)' = Comes(o)
    BY <1>3, <2>1 DEF CaptureOp, Filled, Comes, pool
  <2>3. Captures
    BY DEF DInv
  <2> QED  BY <1>3, <2>1, <2>2, <2>3 DEF Captures, pool
<1>4. CASE \E n \in Prefixes : BeginRestore(n) \/ BeginCommit(n)
  BY <1>2, <1>4 DEF BeginRestore, BeginCommit, IdleMover, Captures
<1>5. CASE MoverStep /\ mover.task = "commit" /\ mover'.task = "commit"
  <2>1. /\ placed = UnitsOf(mover.n)
        /\ mover.at \in {"get", "copy", "wait", "write", "publish"} => mover.right
        /\ mover.at = "write" => Blocks(Key) > 1
        /\ mover.at = "publish" => (mover.slot = 0 <=> Blocks(Key) > 1)
    BY <1>5 DEF DInv, Captures
  <2>2. Blocks(Key) \in Nat \ {0} /\ mover.at # "idle"
    BY <1>1, <1>5, MoverKey, TaskIs
  <2>3. ASSUME placed' = placed, mover'.n = mover.n,
               mover'.at \notin {"get", "copy", "wait", "write", "publish"}
        PROVE  Captures'
    BY <2>1, <2>3 DEF Captures
  <2>4. CASE BorrowFails \/ TakeLock \/ BorrowCpu \/ CaptureFails \/ CopyFails \/ PublishFails
             \/ TouchFails
    <3>1. placed' = placed
      BY <2>4 DEF BorrowFails, TakeLock, BorrowCpu, CaptureFails, CopyFails, PublishFails,
                  TouchFails
    <3>2. mover'.n = mover.n /\ mover'.at \in {"skip", "check", "verdict", "leave"}
      BY <1>1, <1>5, <2>4, CommitMoves, SharedMoves DEF SamePosition
    <3> QED  BY <2>3, <3>1, <3>2
  <2>5. CASE Borrow
    <3>1. placed' = placed /\ mover'.n = mover.n /\ mover'.at = "copy" /\ mover'.right
      BY <1>1, <1>5, <2>1, <2>5, SharedMoves DEF SamePosition, Borrow
    <3> QED  BY <2>1, <3>1 DEF Captures
  <2>6. CASE Check \/ Verdict
    <3>1. placed' = placed
      BY <2>6 DEF Check, Verdict
    <3>2. CASE Goto("authenticate")
      BY <1>1, <2>3, <3>1, <3>2 DEF Goto, MoverRecord
    <3>3. ASSUME NEW m, mover' = Checked(m)
          PROVE  Captures'
      <4>1. mover'.n = mover.n /\ mover'.at \in {"check", "announce", "skip", "get"}
            /\ (mover'.at = "get" => mover'.right)
        BY <1>1, <3>3, CheckedMoves
      <4> QED  BY <2>1, <3>1, <4>1 DEF Captures
    <3> QED  BY <2>6, <3>2, <3>3 DEF Check, Verdict
  <2>7. CASE Captured
    <3>1. /\ placed' = placed /\ SamePosition /\ mover.at = "wait" /\ mover'.slot = mover.slot
          /\ mover'.right /\ mover'.at = IF Blocks(Key) > 1 THEN "write" ELSE "publish"
          /\ slot' = [slot EXCEPT ![mover.slot].pending = FALSE]
          /\ Completed(mover.slot)
      BY <1>1, <2>1, <2>7, CommitMoves DEF Captured
    <3>2. PICK s \in Slots : s = mover.slot /\ s # 0 /\ ~slot[s].record_failed
      BY <1>1, <3>1 DEF Base, MoverHolds, Holding, MoverRecord, PInv, HeldSlot
    <3>3. Free(s)
      BY <3>1, <3>2, FreeWhenDone
    <3>4. /\ Lanes' = Lanes /\ Key' = Key /\ \A o : Wanted(o)' = Wanted(o)
      BY <3>1, SameCapture DEF SamePosition
    <3>5. slot'[s].data = slot[s].data
      BY <1>1, <3>1, <3>2 DEF SlotRecord
    <3>6. ASSUME NEW o \in Lanes
          PROVE  Filled(o)'
      <4>1. Filled(o)
        BY <1>5, <3>1, <3>2, <3>3 DEF DInv, Captures, Comes, Free
      <4> QED  BY <3>1, <3>2, <3>4, <3>5, <4>1 DEF Filled
    <3>7. mover'.n = mover.n /\ mover'.at = IF Blocks(Key) > 1 THEN "write" ELSE "publish"
      BY <3>1 DEF SamePosition
    <3> QED  BY <2>1, <2>2, <3>1, <3>2, <3>4, <3>6, <3>7 DEF Captures
  <2>8. CASE WriteBlock
    <3>1. /\ mover.at = "write" /\ mover'.n = mover.n /\ mover'.next = mover.next
          /\ mover'.slot = 0 /\ placed' = placed
          /\ \/ mover'.at = "skip"
             \/ /\ mover'.at \in {"get", "publish"}
                /\ mover'.right =
                     (mover.right /\ slot[mover.slot].data[1] = <<Key, mover.block>>)
      BY <1>1, <2>8, CommitMoves DEF WriteBlock
    <3>2. Key' = Key /\ Blocks(Key) > 1 /\ mover.right
      BY <2>1, <3>1 DEF Key
    <3>3. slot[mover.slot].data[1] = <<Key, mover.block>>
      <4>1. Lanes = {1} /\ Wanted(1) = <<Key, mover.block>>
        BY <1>1, <1>5, <3>2, WantedIs
      <4>2. Filled(1)
        BY <1>5, <3>1, <4>1 DEF DInv, Captures
      <4> QED  BY <4>1, <4>2 DEF Filled
    <3>4. CASE mover'.at \in {"get", "publish"}
      <4>1. mover'.right
        BY <3>1, <3>2, <3>3, <3>4
      <4>2. Blocks(Key') > 1 /\ Blocks(Key') # 1
        BY <2>2, <3>2
      <4> QED  BY <2>1, <3>1, <3>4, <4>1, <4>2 DEF Captures
    <3> QED  BY <2>3, <3>1, <3>4
  <2>9. CASE Publish
    <3>1. placed' = placed /\ mover.at = "publish" /\ mover'.n = mover.n
      BY <1>1, <2>9, PublishMoves DEF Publish
    <3>2. CASE mover'.at # "publish"
      <4>1. mover'.at \in {"check", "announce"}
        BY <1>1, <2>9, <3>2, PublishMoves
      <4> QED  BY <2>3, <3>1, <4>1
    <3>3. CASE mover'.at = "publish"
      <4> DEFINE rest == {i \in mover.missing : i > mover.next}
      <4>1. /\ rest # {} /\ mover'.next = Min(rest) /\ mover'.missing = mover.missing
            /\ mover'.block = mover.block /\ mover'.slot = mover.slot
            /\ mover'.right = mover.right /\ UNCHANGED slot
        BY <1>1, <2>9, <3>3, PublishMoves
      <4>2. mover.missing \in SUBSET Nat /\ mover.missing \subseteq Batch
            /\ \A i \in Batch : Blocks(Objects(mover.n)[i]) = Blocks(Key)
        BY <1>1, <1>5, CommitAt
      <4>3. rest \in SUBSET Nat
        BY <4>2
      <4>4. Min(rest) \in rest
        <5> HIDE DEF rest
        <5> QED  BY <4>1, <4>3, LeastOf
      <4>5. mover'.next \in Batch
        BY <4>1, <4>2, <4>4
      <4>6. Blocks(Key') = Blocks(Key)
        BY <3>1, <4>2, <4>5 DEF Key
      <4>7. CASE Blocks(Key) > 1
        BY <2>1, <3>1, <3>3, <4>1, <4>6, <4>7 DEF Captures
      <4>8. CASE ~(Blocks(Key) > 1)
        <5>1. Lanes' = Lanes /\ \A o : Wanted(o)' = Wanted(o)
          BY <3>1, <4>1, <4>6, <4>8 DEF Lanes, Wanted
        <5>2. \A o \in Lanes : Filled(o)
          BY <1>5, <2>2, <3>1, <4>8 DEF DInv, Captures
        <5>3. \A o \in Lanes : Filled(o)'
          BY <4>1, <5>1, <5>2 DEF Filled
        <5> QED  BY <2>1, <3>1, <3>3, <4>1, <4>6, <4>8, <5>1, <5>3 DEF Captures
      <4> QED  BY <4>7, <4>8
    <3> QED  BY <3>2, <3>3
  <2>10. ~Announce /\ ~Skip
    BY <1>5 DEF Announce, Skip, IdleMover
  <2> QED  BY <1>1, <1>5, <2>4, <2>5, <2>6, <2>7, <2>8, <2>9, <2>10, CaptureCaptures,
              WhoCommits
<1>6. CASE MoverStep /\ mover.task = "restore"
  <2>1. mover'.task # "commit"
    BY <1>6, SameTransfer DEF Base, IdleMover
  <2> QED  BY <1>2, <2>1
<1>7. CASE Killed
  BY <1>2, <1>7 DEF Killed, EndProcess, IdleMover
<1>8. CASE \E s \in 1 .. SlotCount : CloseSlot(s)
  <2>1. mover'.task = "none"
    BY <1>1, <1>8 DEF CloseSlot, PInv, Quiet, MoverOK, IdleMover
  <2> QED  BY <1>2, <2>1
<1> QED  BY <1>1, <1>2, <1>3, <1>4, <1>5, <1>6, <1>7, <1>8, OtherSteps, NobodyMoves,
            GpuCaptures

---------------------------------------------------------------------------
(* The bytes are right.                                                    *)

\* Nothing is on its way at the start.
LEMMA DataInitially ==
  ASSUME Init
  PROVE  DInv
<1>1. /\ stream = <<>> /\ mover = IdleMover /\ file \in [Keys -> {"none", "right"}]
  BY DEF Init
<1>2. OnlyRestores /\ Unmixed /\ NeverWrong
  BY <1>1 DEF OnlyRestores, Unmixed, NeverWrong
<1>3. /\ mover.task = "none" /\ mover.at = "idle"
  BY <1>1 DEF IdleMover
<1> QED  BY <1>2, <1>3 DEF DInv, BatchPlaces, Arriving, Gathered, Captures

\* Stuttering.
LEMMA DataStutters ==
  ASSUME DInv, UNCHANGED vars
  PROVE  DInv'
<1>1. /\ file' = file /\ mover' = mover /\ stream' = stream /\ slot' = slot
      /\ placed' = placed
  BY DEF vars
<1>2. /\ Lanes' = Lanes /\ Key' = Key /\ \A o : Wanted(o)' = Wanted(o)
  BY <1>1, SameCapture
<1>3. /\ \A i : CaptureOp(i)' = CaptureOp(i) /\ RestoreOp(i)' = RestoreOp(i)
      /\ \A i : Present(i)' = Present(i)
      /\ \A o : Filled(o)' = Filled(o) /\ Comes(o)' = Comes(o)
  BY <1>1, <1>2 DEF CaptureOp, Filled, Comes, RestoreOp, Present
<1>4. /\ \A i, b : Behind(i, b)' = Behind(i, b)
      /\ \A i, b : Arrives(i, b)' = Arrives(i, b)
  BY <1>1 DEF Behind, Arrives
<1>5. Captures'
  BY <1>1, <1>2, <1>3 DEF DInv, Captures
<1>6. Gathered' /\ NeverWrong'
  BY <1>1, <1>3 DEF DInv, Gathered, NeverWrong, Batch, BatchEnd
<1>7. Arriving'
  BY <1>1, <1>4 DEF DInv, Arriving
<1>8. OnlyRestores' /\ Unmixed' /\ BatchPlaces'
  BY <1>1, <1>2, <1>3 DEF DInv, OnlyRestores, Unmixed, BatchPlaces
<1> QED  BY <1>5, <1>6, <1>7, <1>8 DEF DInv

\* The whole invariant holds from the start and in every step.
LEMMA TransferInvariant ==
  Spec => [](Base /\ PInv /\ DInv)
<1>1. Init => DInv
  BY DataInitially
<1>2. Base /\ PInv /\ (Base /\ PInv)' /\ DInv /\ [Next]_vars => DInv'
  <2> SUFFICES ASSUME Base, PInv, Base', PInv', DInv, [Next]_vars
               PROVE  DInv'
    OBVIOUS
  <2>1. CASE Next
    BY <2>1, RestoresKept, PlacesKept, ArrivingKept, GatheredKept, CapturesKept, WrongNever
       DEF DInv
  <2>2. CASE UNCHANGED vars
    BY <2>2, DataStutters
  <2> QED  BY <2>1, <2>2
<1> QED  BY <1>1, <1>2, BaseAndGuards, PTL DEF Spec

\* No file is ever published with other bytes than those of its key, so that the
\* checksum under its name vouches for what a restore reads (token_files.py:
\* _commit_streamed, gpu.py: _capture_packed).
THEOREM FilesNeverWrong ==
  Spec => []NeverWrong
<1>1. DInv => NeverWrong
  BY DEF DInv
<1> QED  BY <1>1, TransferInvariant, PTL

---------------------------------------------------------------------------
(* The data path implements its service.                                   *)

\* What the service sees of the worker.
Job == IF worker = "dead" THEN "dead" ELSE mover.task

Pages == IF mover.task = "restore" THEN {} ELSE placed

SameJob == Job' = Job /\ mover'.n = mover.n /\ Pages' = Pages

\* Between the beginning and the end of a transfer nothing is seen of it: the pages
\* of a restore are not looked at before it is over.
LEMMA JobKept ==
  ASSUME Base, PInv, DInv, Next,
         ~\E n \in Prefixes : BeginRestore(n) \/ BeginCommit(n),
         ~Exit, ~Killed, ~Announce, ~Skip, ~Restart, ~(LeaveView /\ mover.good)
  PROVE  SameJob
<1>1. MoverOK /\ mover \in MoverRecord /\ PoolOK /\ TypeOK /\ stream \in Seq(Operation)
  BY DEF Base, TypeOK, MoverOK, PoolOK
<1>2. CASE MoverStep
  <2>1. worker' = worker
    BY <1>2, MoverStepFrame
  <2>2. mover'.task = mover.task /\ mover'.n = mover.n
    BY <1>1, <1>2, SameTransfer, RestoreMoves DEF SamePosition
  <2>3. placed' = placed
    <3>1. CASE Borrow \/ BorrowFails \/ OpenView \/ Open \/ Place \/ PlaceFails \/ ReceiveFails
               \/ TouchFails \/ CopyFails \/ RecordUse \/ RecordUseFails \/ Reject \/ Drain
      BY <3>1 DEF Borrow, BorrowFails, OpenView, Open, Place, PlaceFails, ReceiveFails,
                  TouchFails, CopyFails, RecordUse, RecordUseFails, Reject, Drain
    <3>2. CASE LeaveView \/ TakeLock \/ Check \/ BorrowCpu \/ Verdict \/ Capture \/ CaptureFails
               \/ Captured \/ WriteBlock \/ Publish \/ PublishFails
      BY <3>2 DEF LeaveView, TakeLock, Check, BorrowCpu, Verdict, Capture, CaptureFails,
                  Captured, WriteBlock, Publish, PublishFails
    <3> QED  BY <1>2, <3>1, <3>2 DEF MoverStep
  <2> QED  BY <2>1, <2>2, <2>3 DEF SameJob, Job, Pages
<1>3. CASE Gpu
  <2>1. mover' = mover /\ worker' = worker
    BY <1>3 DEF Gpu
  <2>2. mover.task # "restore" => placed' = placed
    <3>1. 1 \in 1 .. Len(stream) /\ Head(stream) = stream[1]
      BY <1>1, <1>3, Tailed DEF Gpu
    <3>2. mover.task # "restore" => Head(stream).kind # "h2d"
      BY <3>1, NoneToGpu
    <3> QED  BY <1>1, <1>3, <3>2, GpuDoes
  <2> QED  BY <2>1, <2>2 DEF SameJob, Job, Pages
<1>4. CASE UNCHANGED <<mover, placed>>
  <2>1. \/ worker' = worker
        \/ worker \in {"running", "closing"} /\ worker' \in {"closing", "raised", "closed"}
    BY WhoMovesTheMover, MoverStepFrame
  <2>2. (worker' = "dead") <=> (worker = "dead")
    BY <2>1
  <2> QED  BY <1>4, <2>2 DEF SameJob, Job, Pages
<1>5. CASE \E s \in 1 .. SlotCount : CloseSlot(s)
  BY <1>4, <1>5 DEF CloseSlot
<1> QED  BY <1>2, <1>3, <1>4, <1>5, OtherSteps

\* A file that is condemned is withdrawn.
LEMMA CondemnServed ==
  ASSUME DiskOK, SameJob, NEW k \in Keys, Condemn(k)
  PROVE  Service!Next
<1>1. Service!Withdraw(k)
  BY DEF Condemn, Service!Withdraw, SameJob, Job, Pages
<1> QED  BY <1>1 DEF Service!Next

\* Seen from outside, a lookup withdraws one key at most.
LEMMA LookupServed ==
  ASSUME DiskOK, SameJob, NEW n \in Prefixes, LookupEffect(n)
  PROVE  Service!Next \/ UNCHANGED Service!vars
<1>1. CASE UNCHANGED disk
  BY <1>1 DEF disk, Service!vars, SameJob, Job, Pages
<1>2. CASE Obstacle(n) # 0 /\ Condemn(Obstacle(n))
  BY <1>2, ObstacleIs, CondemnServed
<1> QED  BY <1>1, <1>2 DEF LookupEffect

\* A restore ends well only if every unit of its prefix is in its pages.
LEMMA RestoredWhole ==
  ASSUME Base, DInv, mover.at = "leave", mover.good
  PROVE  mover.task = "restore" /\ mover.n \in Prefixes /\ placed = UnitsOf(mover.n)
<1>1. MoverOK /\ mover.task = "restore" /\ mover.n \in Prefixes
  BY StepsAre, TaskIs, MoverKey DEF Base, TypeOK
<1>2. \A i \in 1 .. Len(stream) : stream[i].kind # "h2d"
  BY NoneToGpu
<1>3. /\ placed \subseteq UnitsOf(mover.n)
      /\ \A i \in 1 .. Len(Objects(mover.n)) : \A b \in 1 .. Blocks(Objects(mover.n)[i]) :
           Behind(i, b) => Arrives(i, b)
  BY <1>1 DEF DInv, Arriving
<1>4. ASSUME NEW u \in UnitsOf(mover.n)
      PROVE  u \in placed
  <2>1. PICK i \in 1 .. Len(Objects(mover.n)) : \E b \in 1 .. Blocks(Objects(mover.n)[i]) :
          u = <<Objects(mover.n)[i], b>>
    BY <1>1, UnitsAre
  <2>2. PICK b \in 1 .. Blocks(Objects(mover.n)[i]) : u = <<Objects(mover.n)[i], b>>
    BY <2>1
  <2>3. Arrives(i, b)
    BY <1>3 DEF Behind
  <2> QED  BY <1>2, <2>2, <2>3 DEF Arrives
<1> QED  BY <1>1, <1>3, <1>4

\* A commit that announces its keys has all of their files.
LEMMA CommittedWhole ==
  ASSUME Base, DInv, mover.at = "announce"
  PROVE  mover.task = "commit" /\ \A k \in KeysOf(mover.n) : file[k] # "none"
<1>1. mover.task = "commit" /\ mover.at \in LockedSteps
  BY StepsAre, TaskIs DEF Base, TypeOK
<1> QED  BY <1>1 DEF DInv, Gathered, Present, KeysOf

\* Every step of the data path is a step of the service, or is not seen.
LEMMA ServiceStep ==
  ASSUME Base, PInv, DInv, Next
  PROVE  Service!Next \/ UNCHANGED Service!vars
<1>1. /\ MoverOK /\ DiskOK /\ ReadersOK /\ ThreadsOK /\ TypeOK
      /\ file \in [Keys -> {"none", "right", "wrong", "rotten"}]
  BY DEF Base, TypeOK, DiskOK
<1>2. ASSUME NEW n \in Prefixes, BeginRestore(n) \/ BeginCommit(n)
      PROVE  Service!Next
  <2>1. worker = "running" /\ mover.task = "none"
    BY <1>1, <1>2 DEF BeginRestore, BeginCommit, At, Running, MoverOK, IdleMover
  <2>2. CASE BeginRestore(n)
    <3>1. Service!StartRestore(n)
      BY <2>1, <2>2 DEF BeginRestore, IdleMover, disk, Service!StartRestore
    <3> QED  BY <3>1 DEF Service!Next
  <2>3. CASE BeginCommit(n)
    <3>1. Service!StartCommit(n)
      BY <2>1, <2>3 DEF BeginCommit, IdleMover, disk, Service!StartCommit
    <3> QED  BY <3>1 DEF Service!Next
  <2> QED  BY <1>2, <2>2, <2>3
<1>3. CASE Exit \/ Killed
  <2>1. worker # "dead" /\ EndProcess /\ mover.task # "dead"
    BY <1>1, <1>3 DEF Exit, Killed, At, Running, MoverOK, MoverRecord
  <2>2. Service!Die
    BY <2>1 DEF EndProcess, IdleMover, disk, Service!Die
  <2> QED  BY <2>2 DEF Service!Next
<1>4. CASE LeaveView /\ mover.good
  <2>1. worker = "running" /\ mover.at = "leave"
    BY <1>4 DEF LeaveView, At, Running
  <2>2. mover.task = "restore" /\ placed = UnitsOf(mover.n)
    BY <1>4, <2>1, RestoredWhole
  <2>3. Service!FinishRestore
    BY <1>4, <2>1, <2>2 DEF LeaveView, IdleMover, disk, Service!FinishRestore
  <2> QED  BY <2>3 DEF Service!Next
<1>5. CASE Announce
  <2>1. worker = "running" /\ mover.at = "announce"
    BY <1>5 DEF Announce, At, Running
  <2>2. mover.task = "commit" /\ \A k \in KeysOf(mover.n) : file[k] # "none"
    BY <2>1, CommittedWhole
  <2>3. Service!FinishCommit
    BY <1>5, <2>1, <2>2 DEF Announce, IdleMover, Service!FinishCommit
  <2> QED  BY <2>3 DEF Service!Next
<1>6. CASE Skip
  <2>1. worker = "running" /\ mover.at = "skip"
    BY <1>6 DEF Skip, At, Running
  <2>2. mover.task = "commit"
    BY <1>1, <2>1, StepsAre, TaskIs
  <2>3. Service!FinishCommit
    BY <1>6, <2>1, <2>2 DEF Skip, IdleMover, disk, Service!FinishCommit
  <2> QED  BY <2>3 DEF Service!Next
<1>7. CASE Restart
  <2>1. mover.task = "none"
    BY <1>1, <1>7 DEF Restart, PInv, Quiet, MoverOK, IdleMover
  <2>2. Service!Restart
    BY <1>7, <2>1 DEF Restart, Readable, Service!Restart
  <2> QED  BY <2>2 DEF Service!Next
<1>8. ASSUME SameJob
      PROVE  Service!Next \/ UNCHANGED Service!vars
  <2>1. ASSUME UNCHANGED <<file, offered>>
        PROVE  UNCHANGED Service!vars
    BY <1>8, <2>1 DEF Service!vars, SameJob, Job, Pages
  <2>2. CASE OpenView \/ Reject
    <3>1. mover.at \in {"view", "reject"} /\ mover.n \in Prefixes
      BY <1>1, <2>2 DEF OpenView, Reject, At, MoverOK
    <3>2. mover.at = "reject" => mover.failed \in Keys
      BY <1>1 DEF MoverOK, MoverRecord
    <3> QED  BY <1>1, <1>8, <2>2, <3>1, <3>2, CondemnServed, LookupServed
             DEF OpenView, Reject, At
  <2>3. CASE Check \/ Verdict
    <3>1. Key \in Keys
      BY <1>1, <2>3, MoverKey DEF Check, Verdict, At
    <3> QED  BY <1>1, <1>8, <2>1, <2>3, <3>1, CondemnServed DEF Check, Verdict, disk
  <2>4. CASE Publish \/ PublishFails
    <3>1. /\ worker = "running" /\ mover.at = "publish" /\ mover.task = "commit"
          /\ Key \in Keys /\ Key \in KeysOf(mover.n)
      BY <1>1, <2>4, StepsAre, TaskIs, MoverKey DEF Publish, PublishFails, At, Running
    <3>2. RightBytes
      BY <3>1, PublishesRight
    <3>3. ASSUME file[Key] = "none", file' = Written, offered' \in {offered, offered \ {Key}}
          PROVE  Service!Next
      <4>1. Service!Publish(Key)
        BY <1>8, <3>1, <3>2, <3>3 DEF Written, SameJob, Job, Pages, Service!Publish
      <4> QED  BY <3>1, <4>1 DEF Service!Next
    <3> QED  BY <2>1, <2>4, <3>3 DEF Publish, PublishFails, disk
  <2>5. ASSUME NEW k \in Keys, Evict(k) \/ Damage(k)
        PROVE  Service!Next
    <3>1. CASE Evict(k)
      <4>1. Service!Withdraw(k)
        BY <1>8, <3>1 DEF Evict, SameJob, Job, Pages, Service!Withdraw
      <4> QED  BY <4>1 DEF Service!Next
    <3>2. CASE Damage(k)
      <4>1. file[k] = "right"
        BY <3>2 DEF Damage, DInv, NeverWrong
      <4>2. Service!Rot(k)
        BY <1>8, <3>2, <4>1 DEF Damage, SameJob, Job, Pages, Service!Rot
      <4> QED  BY <4>2 DEF Service!Next
    <3> QED  BY <2>5, <3>1, <3>2
  <2>6. ASSUME NEW r \in Readers, ReaderView(r) \/ ReaderReject(r)
        PROVE  Service!Next \/ UNCHANGED Service!vars
    <3>1. /\ reader[r].at \in {"view", "reject"} /\ reader[r].n \in Prefixes
          /\ reader[r].at = "reject" => reader[r].failed \in Keys
      BY <1>1, <2>6 DEF ReaderView, ReaderReject, ReaderAt, ReadersOK, ReaderRecord
    <3> QED  BY <1>1, <1>8, <2>6, <3>1, CondemnServed, LookupServed
             DEF ReaderView, ReaderReject, ReaderAt
  <2>7. ASSUME NEW s \in Scrubbers, ScrubVerdict(s)
        PROVE  Service!Next \/ UNCHANGED Service!vars
    <3>1. scrubbed[s] \in Keys
      BY <1>1, <2>7 DEF ScrubVerdict, ThreadsOK, Base, Locks
    <3> QED  BY <1>1, <1>8, <2>1, <2>7, <3>1, CondemnServed DEF ScrubVerdict
  <2> QED  BY <1>5, <1>7, <2>1, <2>2, <2>3, <2>4, <2>5, <2>6, <2>7, WhoChangesDisk DEF disk
<1> QED  BY <1>2, <1>3, <1>4, <1>5, <1>6, <1>7, <1>8, JobKept

\* The data path keeps the promise of TransferService: a restore is whole or the
\* worker dies, files appear with their own bytes only, and a commit offers its keys
\* only when all of their files are there (gpu.py: restore_entry; token_files.py:
\* commit_keys, _commit_streamed; connector.py: start_load_kv, _commit_store_plans).
THEOREM ServiceImplemented ==
  Spec => ImplementsService
<1>1. Init => Service!Init
  BY DEF Init, IdleMover, Service!Init
<1>2. Base /\ PInv /\ DInv /\ [Next]_vars => [Service!Next]_(Service!vars)
  <2> SUFFICES ASSUME Base, PInv, DInv, [Next]_vars
               PROVE  Service!Next \/ UNCHANGED Service!vars
    OBVIOUS
  <2>1. CASE UNCHANGED vars
    BY <2>1 DEF vars, Service!vars
  <2> QED  BY <2>1, ServiceStep
<1> QED  BY <1>1, <1>2, TransferInvariant, PTL DEF Spec, Service!Spec, ImplementsService
=============================================================================
