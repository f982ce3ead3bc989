------------------------ MODULE TokenStoreProofs -------------------------
(***************************************************************************)
(* Theorems about the token store, for any number of chunks, damages,      *)
(* errors, crashes and power losses.                                       *)
(***************************************************************************)
EXTENDS TokenStore, FiniteSetTheorems, TLAPS

\* An operation is at one of its steps and, but for a report that is about to
\* choose one, has a key.
OpSteps ==
  /\ op.kind = "none" => op.step = "idle" /\ op.by = "worker"
  /\ op.kind = "withdraw" => op.step \in {"mkdir", "sync_mark"}
  /\ op.kind = "quarantine" =>
       op.step \in {"mkdir", "sync_mark", "remove", "sync_shard", "rmdir",
                   "sync_clear"}
  /\ op.kind = "publish" =>
       op.step \in {"link", "sync_shard", "retire", "rmdir", "sync_clear",
                   "mkdir", "sync_mark"}
  /\ op.kind = "evict" =>
       op.step \in {"mkdir", "sync_mark", "remove", "sync_shard"}
  /\ op.kind = "release" =>
       op.step \in {"rmdir", "sync_clear"} /\ op.by # "startup"
  /\ op.kind = "report" =>
       op.step \in {"ack", "sync_shard", "rmdir", "sync_clear"}
  /\ op.step \notin {"idle", "ack"} => op.key \in Chunks

\* What the file of the operation's key is at each step.
OpFile ==
  /\ op.kind = "publish" /\ op.step # "link" =>
       file[op.key] \in {"good", "damaged"}
  /\ op.kind = "release" => file[op.key] # "absent"
  /\ /\ op.kind \in {"quarantine", "evict", "report"}
     /\ op.step \in {"sync_shard", "rmdir", "sync_clear"}
     => file[op.key] = "absent"

\* What its marker is while the marker directory is synced.
OpMarker ==
  /\ op.step = "sync_mark" => marker[op.key] = "set"
  /\ op.step = "sync_clear" => marker[op.key] = "clear"

\* Between the sync of the shard and the end, no name can lead back to a
\* condemned chunk.
OpSynced ==
  /\ op.kind \in {"publish", "quarantine", "report"}
  /\ op.step \in {"retire", "rmdir", "sync_clear"}
  => "condemned" \notin disk[op.key]

\* A pinned chunk has its file and no operation that removes it.
PinsSafe ==
  /\ \A k \in pins : file[k] # "absent"
  /\ op.kind \in {"quarantine", "evict"} => op.key \notin pins

IInv == TypeOK /\ OpSteps /\ OpFile /\ OpMarker /\ OpSynced /\ PinsSafe

\* A worker that is down holds nothing, and one that starts has only a scan;
\* an operation has the process that runs it.
MemoryPhases ==
  /\ worker = "down" => held = {}
  /\ worker # "starting" => offers = {}
  /\ worker = "starting" =>
       \/ op.kind = "report" /\ offers = {}
       \/ held = {} /\ op.kind # "report" /\ (op.kind = "none" \/ op.by = "maintenance")
  /\ worker \in {"down", "starting"} => pins = {}
  /\ op.by = "startup" => worker = "down"
  /\ op.by = "maintenance" => Maintenance
  /\ op.by = "worker" /\ op.kind # "none" => worker # "down"
  /\ op.kind \in {"publish", "report"} => op.by = "worker"
  /\ op.kind = "quarantine" => op.by # "startup"
  /\ op.kind = "quarantine" /\ op.step \in {"rmdir", "sync_clear"} =>
       op.by = "worker"

\* Whatever is held, or was scanned, has its file or is marked.
HeldFenced == \A k \in held \cup offers : file[k] # "absent" \/ marker[k] = "set"

\* An operation has withdrawn its key before it removes the file: from the
\* reporter if it has the hook, by a marker if not.
OpWithdrawn ==
  /\ op.kind \in {"quarantine", "evict"}
  /\ op.step \in {"remove", "sync_shard", "rmdir", "sync_clear"}
  => IF op.by = "worker" THEN op.key \notin held ELSE marker[op.key] = "set"

\* Nothing in a report is marked, and no key being acknowledged is held.
ReportClean ==
  op.kind = "report" =>
    /\ \A k \in held : file[k] # "absent" /\ marker[k] = "clear"
    /\ op.queue \cap held = {}
    /\ op.step # "ack" => op.key \notin held

HInv == IInv /\ MemoryPhases /\ HeldFenced /\ OpWithdrawn /\ ReportClean

\* The operation that a call begins, field by field.
LEMMA BeginFields ==
  ASSUME NEW kind \in Kinds, NEW k \in Chunks \cup {0}, NEW step \in Steps,
         NEW by \in {"worker", "maintenance", "startup"}
  PROVE  /\ Begin(kind, k, step, by) \in Op
         /\ Begin(kind, k, step, by).kind = kind
         /\ Begin(kind, k, step, by).key = k
         /\ Begin(kind, k, step, by).step = step
         /\ Begin(kind, k, step, by).by = by
  BY DEF Begin, NoOp, Op

\* _quarantine_bad removes only a chunk that no view has pinned.
LEMMA QuarantineFields ==
  ASSUME NEW k \in Chunks, NEW by \in {"worker", "maintenance"}
  PROVE  LET o == quarantine_bad(k, by)
         IN /\ o \in Op
            /\ o.kind = IF k \in pins THEN "withdraw" ELSE "quarantine"
            /\ o.key = k
            /\ o.step = "mkdir"
            /\ o.by = by
  BY BeginFields DEF quarantine_bad, Busy, Kinds, Steps

\* A report starts with the markers of one page.
LEMMA ReportFields ==
  ASSUME IInv, NEW image \in SUBSET Chunks, BeginReport(image)
  PROVE  /\ op' \in Op
         /\ op'.kind = "report"
         /\ op'.step = "ack"
         /\ op'.by = "worker"
         /\ op'.queue \subseteq {k \in Chunks : marker[k] = "set"}
         /\ held' = {k \in image : marker[k] = "clear"}
<1> DEFINE page == MarkerPage(cursor)
<1>1. page \subseteq {k \in Chunks : marker[k] = "set"}
  BY DEF MarkerPage
<1>2. NextCursor(page) \subseteq Chunks \cup {0}
  BY <1>1 DEF NextCursor
<1>3. PICK next \in Chunks \cup {0} :
        op' = [Begin("report", 0, "ack", "worker") EXCEPT
                 !.queue = page, !.next = next]
  BY <1>2 DEF BeginReport
<1> HIDE DEF page
<1> QED BY <1>1, <1>3 DEF BeginReport, page, Begin, NoOp, Op, Kinds, Steps

\* The empty store of a machine that has not run a worker yet.
LEMMA InitHolds == Init => HInv
  BY DEF Init, HInv, IInv, TypeOK, OpSteps, OpFile, OpMarker, OpSynced,
         PinsSafe, MarkerState, FileState, Op, Kinds, Steps, NoOp,
         MemoryPhases, HeldFenced, OpWithdrawn, ReportClean

\* Every step of every operation, and every fault, keeps the part of the
\* invariant that does not speak of what is held.
LEMMA NextKeeps == IInv /\ [Next]_vars => IInv'
<1> SUFFICES ASSUME IInv, [Next]_vars
             PROVE  IInv'
  OBVIOUS
<1> USE DEF IInv, TypeOK, OpSteps, OpFile, OpMarker, OpSynced,
            PinsSafe, MarkerState, FileState, Op, Kinds, Steps, NoOp,
            storage, memory
<1>1. CASE \E k \in Chunks : Confirm(k)
  BY <1>1 DEF Confirm, MainIdle, Unlocked
<1>2. CASE \E k \in Chunks : Reject(k)
  <2>1. PICK k \in Chunks : Reject(k)
    BY <1>2
  <2>2. /\ op' \in Op /\ op'.key = k /\ op'.step = "mkdir"
        /\ op'.kind = IF k \in pins THEN "withdraw" ELSE "quarantine"
    BY <2>1, QuarantineFields DEF Reject
  <2> QED BY <2>1, <2>2 DEF Reject, MainIdle
<1>3. CASE \E k \in Chunks : Publish(k)
  <2>1. PICK k \in Chunks : Publish(k)
    BY <1>3
  <2>2. /\ op' \in Op /\ op'.key = k /\ op'.step = "link"
        /\ op'.kind = "publish"
    BY <2>1, BeginFields DEF Publish
  <2> QED BY <2>1, <2>2 DEF Publish
<1>4. CASE \E k \in Chunks : Evict(k, "worker") \/ Evict(k, "startup")
  <2>1. PICK k \in Chunks : Evict(k, "worker") \/ Evict(k, "startup")
    BY <1>4
  <2>2. /\ op' \in Op /\ op'.key = k /\ op'.step = "mkdir"
        /\ op'.kind = "evict"
    BY <2>1, BeginFields DEF Evict
  <2> QED BY <2>1, <2>2 DEF Evict, Busy
<1>5. CASE \E S \in SUBSET Chunks : OpenView(S)
  BY <1>5 DEF OpenView, MainIdle, Unlocked, Offered
<1>6. CASE CloseView
  BY <1>6 DEF CloseView
<1>7. CASE \E k \in Chunks : StreamFails(k)
  <2>1. PICK k \in Chunks : StreamFails(k)
    BY <1>7
  <2>2. /\ op' \in Op /\ op'.key = k /\ op'.step = "mkdir"
        /\ op'.kind = IF k \in pins THEN "withdraw" ELSE "quarantine"
    BY <2>1, QuarantineFields DEF StreamFails
  <2> QED BY <2>1, <2>2 DEF StreamFails
<1>8. CASE \E k \in Chunks : Scrub(k, "worker") \/ Scrub(k, "maintenance")
  <2>1. PICK k \in Chunks : Scrub(k, "worker") \/ Scrub(k, "maintenance")
    BY <1>8
  <2>2. CASE file[k] = "good"
    <3>1. /\ op' \in Op /\ op'.key = k /\ op'.step = "rmdir"
          /\ op'.kind = "release" /\ op'.by # "startup"
      BY <2>1, <2>2, BeginFields DEF Scrub
    <3> QED BY <2>1, <2>2, <3>1 DEF Scrub
  <2>3. CASE file[k] # "good"
    <3>1. /\ op' \in Op /\ op'.key = k /\ op'.step = "mkdir"
          /\ op'.kind = IF k \in pins THEN "withdraw" ELSE "quarantine"
      BY <2>1, <2>3, QuarantineFields DEF Scrub
    <3> QED BY <2>1, <3>1 DEF Scrub
  <2> QED BY <2>2, <2>3
<1>9. CASE Rescan
  BY <1>9 DEF Rescan, Unlocked, Offered
<1>10. CASE Report
  BY <1>10, ReportFields DEF Report
<1>11. CASE StartScan
  BY <1>11 DEF StartScan, Unlocked, Offered
<1>12. CASE StartReport
  BY <1>12, ReportFields DEF StartReport
<1>13. CASE MarkDirectory
  BY <1>13 DEF MarkDirectory, At, GoOn
<1>14. CASE SyncMark
  <2>1. op.step = "sync_mark" /\ op.key \in Chunks
    BY <1>14 DEF SyncMark, At
  <2>2. CASE op.kind = "withdraw"
    BY <1>14, <2>1, <2>2 DEF SyncMark, Relabel, Exit
  <2>3. CASE op.kind = "publish"
    BY <1>14, <2>1, <2>3 DEF SyncMark, Return, Withdrawn
  <2>4. CASE op.kind = "quarantine"
    BY <1>14, <2>1, <2>4 DEF SyncMark, Relabel, Withdrawn
  <2>5. CASE op.kind = "evict"
    BY <1>14, <2>1, <2>5 DEF SyncMark, Withdrawn
  <2> QED BY <2>1, <2>2, <2>3, <2>4, <2>5
<1>15. CASE Remove
  <2>1. op.key \in Chunks /\ op.step = "remove"
    BY <1>15 DEF Remove, At
  <2>2. CASE file[op.key] = "absent"
    BY <1>15, <2>1, <2>2 DEF Remove, Return
  <2>3. CASE file[op.key] # "absent"
    BY <1>15, <2>1, <2>3 DEF Remove, GoOn
  <2> QED BY <2>2, <2>3
<1>16. CASE Link
  BY <1>16 DEF Link, At, GoOn
<1>17. CASE SyncShard
  BY <1>17 DEF SyncShard, At, GoOn, Return
<1>18. CASE Retire
  BY <1>18 DEF Retire, At, GoOn
<1>19. CASE ClearDirectory
  BY <1>19 DEF ClearDirectory, At, GoOn, Cleared, Return
<1>20. CASE SyncClear
  <2>1. op.step = "sync_clear" /\ op.key \in Chunks
    BY <1>20 DEF SyncClear, At
  <2>2. CASE op.kind = "report"
    BY <1>20, <2>1, <2>2 DEF SyncClear, Cleared, GoOn
  <2>3. CASE op.kind # "report"
    BY <1>20, <2>1, <2>3 DEF SyncClear, Cleared, Return
  <2> QED BY <2>2, <2>3
<1>21. CASE Acknowledge
  <2>1. PICK k \in op.queue :
          op' = [op EXCEPT !.queue = @ \ {k}, !.key = k,
                           !.step = IF file[k] = "absent"
                                    THEN "sync_shard" ELSE "ack"]
    BY <1>21 DEF Acknowledge
  <2>2. /\ op' \in Op /\ op'.key = k /\ op'.kind = op.kind
        /\ op'.step = IF file[k] = "absent" THEN "sync_shard" ELSE "ack"
        /\ k \in Chunks
    BY <2>1
  <2>3. op.kind = "report"
    BY <1>21 DEF Acknowledge, At
  <2> QED BY <1>21, <2>2, <2>3 DEF Acknowledge
<1>22. CASE Send
  BY <1>22 DEF Send, At
<1>23. CASE \E k \in Chunks : ReadFails(k, "worker") \/ ReadFails(k, "maintenance")
  <2>1. PICK k \in Chunks :
          ReadFails(k, "worker") \/ ReadFails(k, "maintenance")
    BY <1>23
  <2>2. /\ op' \in Op /\ op'.key = k /\ op'.step = "mkdir"
        /\ op'.kind = IF k \in pins THEN "withdraw" ELSE "quarantine"
    BY <2>1, QuarantineFields DEF ReadFails
  <2> QED BY <2>1, <2>2 DEF ReadFails
<1>24. CASE MarkFails
  <2>1. op.step \in {"mkdir", "sync_mark"} /\ op.key \in Chunks
    BY <1>24 DEF MarkFails, At
  <2>2. CASE op.kind = "quarantine"
    <3>0. op' = [op EXCEPT !.step = "remove", !.outcome = "failed"]
      BY <1>24, <2>2 DEF MarkFails
    <3>1. /\ op' \in Op /\ op'.key = op.key /\ op'.kind = op.kind
          /\ op'.step = "remove"
      BY <3>0
    <3>2. held' \subseteq Chunks /\ UNCHANGED <<storage, worker, offers, pins>>
      BY <1>24, <2>2 DEF MarkFails, Withdrawn
    <3> QED BY <1>24, <2>1, <2>2, <3>1, <3>2 DEF MarkFails, Fail
  <2>3. CASE op.kind = "withdraw"
    BY <1>24, <2>1, <2>3 DEF MarkFails, Fail, Raise, Exit
  <2>4. CASE op.kind \in {"publish", "evict"}
    BY <1>24, <2>1, <2>4 DEF MarkFails, Fail, Raise, Return
  <2> QED BY <2>1, <2>2, <2>3, <2>4
<1>25. CASE NameFails
  BY <1>25 DEF NameFails, At, Fail, Raise, Return, Exit
<1>26. CASE SyncShardFails
  BY <1>26 DEF SyncShardFails, At, Fail, Raise, Return, Exit, GoOn
<1>27. CASE RetireFails
  BY <1>27 DEF RetireFails, At, Fail, GoOn
<1>28. CASE ClearFails
  <2>1. op.key \in Chunks
    BY <1>28 DEF ClearFails, At
  <2>2. CASE op.kind = "publish"
    BY <1>28, <2>1, <2>2 DEF ClearFails, At, Fail, GoOn
  <2>3. CASE op.kind = "release"
    <3>0. op.by \in {"worker", "maintenance"}
      BY <2>3
    <3>1. /\ op' \in Op /\ op'.key = op.key /\ op'.step = "mkdir"
          /\ op'.kind = IF op.key \in pins THEN "withdraw" ELSE "quarantine"
          /\ op'.by = op.by
      BY <1>28, <2>1, <2>3, <3>0, QuarantineFields DEF ClearFails
    <3> QED BY <1>28, <2>1, <2>3, <3>1 DEF ClearFails, Fail
  <2>4. CASE op.kind \in {"quarantine", "report"}
    BY <1>28, <2>1, <2>4 DEF ClearFails, At, Fail, Raise, Return, Exit
  <2> QED BY <1>28, <2>2, <2>3, <2>4 DEF ClearFails, At
<1>29. CASE \E k \in Chunks : Damage(k)
  BY <1>29 DEF Damage, Relabel
<1>30. CASE Crash
  BY <1>30 DEF Crash, Exit
<1>31. CASE MaintenanceCrash
  BY <1>31 DEF MaintenanceCrash
<1>32. CASE PowerLoss
  BY <1>32 DEF PowerLoss, Exit
<1>33. CASE UNCHANGED vars
  BY <1>33 DEF vars
<1> QED BY <1>1, <1>2, <1>3, <1>4, <1>5, <1>6, <1>7, <1>8, <1>9, <1>10, <1>11,
           <1>12, <1>13, <1>14, <1>15, <1>16, <1>17, <1>18, <1>19, <1>20,
           <1>21, <1>22, <1>23, <1>24, <1>25, <1>26, <1>27, <1>28, <1>29,
           <1>30, <1>31, <1>32, <1>33 DEF Next, Lock, Step, Fault

\* What is held stays covered too, if a process without the hook never meets
\* an error.
LEMMA NextCovers ==
  ASSUME Maintenance => budget'.errors = 0, HInv, [Next]_vars
  PROVE  HInv'
<1>0. IInv /\ IInv'
  BY NextKeeps DEF HInv
<1> SUFFICES (MemoryPhases /\ HeldFenced /\ OpWithdrawn /\ ReportClean)'
  BY <1>0 DEF HInv
<1> USE <1>0
<1> USE DEF HInv, MemoryPhases, HeldFenced, OpWithdrawn, ReportClean, IInv,
            TypeOK, OpSteps, OpFile, OpMarker, MarkerState, FileState, Op,
            Kinds, Steps, NoOp, storage, memory
<1>1. CASE \E k \in Chunks : Confirm(k)
  BY <1>1 DEF Confirm, MainIdle, Unlocked
<1>2. CASE \E k \in Chunks : Reject(k)
  BY <1>2, QuarantineFields DEF Reject, MainIdle, Unlocked
<1>3. CASE \E k \in Chunks : Publish(k)
  <2>1. PICK k \in Chunks : Publish(k)
    BY <1>3
  <2>2. op'.kind = "publish" /\ op'.step = "link" /\ op'.by = "worker"
    BY <2>1 DEF Publish, Begin
  <2> QED BY <2>1, <2>2 DEF Publish, MainIdle, Unlocked
<1>4. CASE \E k \in Chunks : Evict(k, "worker")
  <2>1. PICK k \in Chunks : Evict(k, "worker")
    BY <1>4
  <2>2. op'.kind = "evict" /\ op'.step = "mkdir" /\ op'.by = "worker"
    BY <2>1 DEF Evict, Begin
  <2> QED BY <2>1, <2>2 DEF Evict, MainIdle, Unlocked
<1>5. CASE \E k \in Chunks : Evict(k, "startup")
  <2>1. PICK k \in Chunks : Evict(k, "startup")
    BY <1>5
  <2>2. op'.kind = "evict" /\ op'.step = "mkdir" /\ op'.by = "startup"
    BY <2>1 DEF Evict, Begin
  <2> QED BY <2>1, <2>2 DEF Evict, MainIdle, Unlocked
<1>6. CASE \E S \in SUBSET Chunks : OpenView(S)
  BY <1>6 DEF OpenView, MainIdle, Unlocked, Offered
<1>7. CASE CloseView
  BY <1>7 DEF CloseView
<1>8. CASE \E k \in Chunks : StreamFails(k)
  <2>1. PICK k \in Chunks : StreamFails(k)
    BY <1>8
  <2>2. /\ op'.kind \in {"withdraw", "quarantine"} /\ op'.step = "mkdir"
        /\ op'.by = "worker"
    BY <2>1, QuarantineFields DEF StreamFails
  <2> QED BY <2>1, <2>2 DEF StreamFails, Unlocked, Busy
<1>9. CASE \E k \in Chunks : Scrub(k, "worker")
  <2>1. PICK k \in Chunks : Scrub(k, "worker")
    BY <1>9
  <2>2. CASE op' = Begin("release", k, "rmdir", "worker")
    <3>1. op'.kind = "release" /\ op'.by = "worker"
      BY <2>2 DEF Begin
    <3> QED BY <2>1, <3>1 DEF Scrub, Unlocked
  <2>3. CASE op' = quarantine_bad(k, "worker")
    <3>1. /\ op'.kind \in {"withdraw", "quarantine"} /\ op'.step = "mkdir"
          /\ op'.by = "worker"
      BY <2>3, QuarantineFields
    <3> QED BY <2>1, <3>1 DEF Scrub, Unlocked
  <2> QED BY <2>1, <2>2, <2>3 DEF Scrub
<1>10. CASE \E k \in Chunks : Scrub(k, "maintenance")
  <2>1. PICK k \in Chunks : Scrub(k, "maintenance")
    BY <1>10
  <2>2. CASE op' = Begin("release", k, "rmdir", "maintenance")
    <3>1. op'.kind = "release" /\ op'.by = "maintenance"
      BY <2>2 DEF Begin
    <3> QED BY <2>1, <3>1 DEF Scrub, Unlocked
  <2>3. CASE op' = quarantine_bad(k, "maintenance")
    <3>1. /\ op'.kind \in {"withdraw", "quarantine"} /\ op'.step = "mkdir"
          /\ op'.by = "maintenance"
      BY <2>3, QuarantineFields
    <3> QED BY <2>1, <3>1 DEF Scrub, Unlocked
  <2> QED BY <2>1, <2>2, <2>3 DEF Scrub
<1>11. CASE Rescan
  BY <1>11 DEF Rescan, Unlocked, Offered
<1>12. CASE Report
  BY <1>12, ReportFields DEF Report, MainIdle, Unlocked
<1>13. CASE StartScan
  BY <1>13 DEF StartScan, Unlocked, Offered
<1>14. CASE StartReport
  BY <1>14, ReportFields DEF StartReport, Unlocked
<1>15. CASE MarkDirectory
  BY <1>15 DEF MarkDirectory, At, GoOn
<1>16. CASE SyncMark
  BY <1>16 DEF SyncMark, At, Relabel, Return, Exit, Withdrawn
<1>17. CASE Remove
  <2>1. op.key \in Chunks /\ op.step = "remove"
    BY <1>17 DEF Remove, At
  <2>2. CASE file[op.key] = "absent"
    BY <1>17, <2>1, <2>2 DEF Remove, Return
  <2>3. CASE file[op.key] # "absent"
    BY <1>17, <2>1, <2>3 DEF Remove, GoOn
  <2> QED BY <2>2, <2>3
<1>18. CASE Link
  BY <1>18 DEF Link, At, GoOn
<1>19. CASE SyncShard
  BY <1>19 DEF SyncShard, At, GoOn, Return
<1>20. CASE Retire
  BY <1>20 DEF Retire, At, GoOn
<1>21. CASE ClearDirectory
  <2>1. op.key \in Chunks
    BY <1>21 DEF ClearDirectory, At
  <2>2. CASE op.kind = "report"
    BY <1>21, <2>1, <2>2 DEF ClearDirectory, At, GoOn, Cleared
  <2>3. CASE op.kind = "publish"
    BY <1>21, <2>1, <2>3 DEF ClearDirectory, At, GoOn, Cleared, Return
  <2>4. CASE op.kind = "quarantine"
    BY <1>21, <2>1, <2>4 DEF ClearDirectory, At, GoOn, Cleared, Return
  <2>5. CASE op.kind = "release"
    BY <1>21, <2>1, <2>5 DEF ClearDirectory, At, GoOn, Cleared, Return
  <2> QED BY <1>21, <2>2, <2>3, <2>4, <2>5 DEF ClearDirectory, At
<1>22. CASE SyncClear
  <2>1. op.key \in Chunks
    BY <1>22 DEF SyncClear, At
  <2>2. CASE op.kind = "report"
    BY <1>22, <2>1, <2>2 DEF SyncClear, At, GoOn, Cleared
  <2>3. CASE op.kind = "publish"
    BY <1>22, <2>1, <2>3 DEF SyncClear, At, GoOn, Cleared, Return
  <2>4. CASE op.kind = "quarantine"
    BY <1>22, <2>1, <2>4 DEF SyncClear, At, GoOn, Cleared, Return
  <2>5. CASE op.kind = "release"
    BY <1>22, <2>1, <2>5 DEF SyncClear, At, GoOn, Cleared, Return
  <2> QED BY <1>22, <2>2, <2>3, <2>4, <2>5 DEF SyncClear, At
<1>23. CASE Acknowledge
  BY <1>23 DEF Acknowledge, At
<1>24. CASE Send
  BY <1>24 DEF Send, At
<1>25. CASE \E k \in Chunks : ReadFails(k, "worker")
  BY <1>25, QuarantineFields DEF ReadFails, Unlocked
<1>26. CASE \E k \in Chunks : ReadFails(k, "maintenance")
  BY <1>26, QuarantineFields DEF ReadFails, Unlocked
<1>27. CASE MarkFails
  <2>1. op.step \in {"mkdir", "sync_mark"} /\ op.key \in Chunks
    BY <1>27 DEF MarkFails, At
  <2>2. op.by # "maintenance"
    BY <1>27 DEF MarkFails, Fail
  <2>3. CASE op.kind = "quarantine"
    <3>0. op' = [op EXCEPT !.step = "remove", !.outcome = "failed"]
      BY <1>27, <2>3 DEF MarkFails
    <3>1. /\ op'.key = op.key /\ op'.kind = op.kind /\ op'.by = op.by
          /\ op'.step = "remove"
      BY <3>0
    <3>2. op.by = "worker"
      BY <2>2, <2>3
    <3>3. held' = held \ {op.key} /\ UNCHANGED <<storage, worker, offers, pins>>
      BY <1>27, <2>3, <3>2 DEF MarkFails, Withdrawn
    <3> QED BY <2>1, <2>3, <3>1, <3>2, <3>3
  <2>4. CASE op.kind = "withdraw"
    BY <1>27, <2>1, <2>4 DEF MarkFails, Raise, Exit
  <2>5. CASE op.kind \in {"publish", "evict"}
    BY <1>27, <2>1, <2>5 DEF MarkFails, Raise, Return
  <2> QED BY <2>1, <2>3, <2>4, <2>5
<1>28. CASE NameFails
  BY <1>28 DEF NameFails, At, Fail, Raise, Return, Exit
<1>29. CASE SyncShardFails
  BY <1>29 DEF SyncShardFails, At, Fail, Raise, Return, Exit, GoOn
<1>30. CASE RetireFails
  BY <1>30 DEF RetireFails, At, Fail, GoOn
<1>31. CASE ClearFails
  <2>1. op.key \in Chunks
    BY <1>31 DEF ClearFails, At
  <2>2. CASE op.kind = "publish"
    BY <1>31, <2>1, <2>2 DEF ClearFails, At, Fail, GoOn
  <2>3. CASE op.kind = "release"
    <3>0. op.by \in {"worker", "maintenance"}
      BY <2>3
    <3>1. /\ op' \in Op /\ op'.key = op.key /\ op'.step = "mkdir"
          /\ op'.kind = IF op.key \in pins THEN "withdraw" ELSE "quarantine"
          /\ op'.by = op.by
      BY <1>31, <2>1, <2>3, <3>0, QuarantineFields DEF ClearFails
    <3> QED BY <1>31, <2>1, <2>3, <3>1 DEF ClearFails, Fail
  <2>4. CASE op.kind \in {"quarantine", "report"}
    BY <1>31, <2>1, <2>4 DEF ClearFails, At, Fail, Raise, Return, Exit
  <2> QED BY <1>31, <2>2, <2>3, <2>4 DEF ClearFails, At
<1>32. CASE \E k \in Chunks : Damage(k)
  BY <1>32 DEF Damage, Relabel
<1>33. CASE Crash
  BY <1>33 DEF Crash, Exit
<1>34. CASE MaintenanceCrash
  BY <1>34 DEF MaintenanceCrash
<1>35. CASE PowerLoss
  BY <1>35 DEF PowerLoss, Exit
<1>36. CASE UNCHANGED vars
  BY <1>36 DEF vars
<1> QED BY <1>1, <1>2, <1>3, <1>4, <1>5, <1>6, <1>7, <1>8, <1>9, <1>10, <1>11,
           <1>12, <1>13, <1>14, <1>15, <1>16, <1>17, <1>18, <1>19, <1>20,
           <1>21, <1>22, <1>23, <1>24, <1>25, <1>26, <1>27, <1>28, <1>29,
           <1>30, <1>31, <1>32, <1>33, <1>34, <1>35, <1>36 DEF Next, Lock,
           Step, Fault

\* The invariant of the files, the markers and the lock.
THEOREM StoreInvariant == Spec => []IInv
<1>1. Init => IInv
  BY InitHolds DEF HInv
<1> QED BY <1>1, NextKeeps, PTL DEF Spec

\* Type correctness: no operation, whatever fails in the middle of it, leaves
\* a variable of the store outside its type or a name outside what a power
\* loss may bring back.
THEOREM TypeCorrect == Spec => []TypeOK
<1>1. IInv => TypeOK
  BY DEF IInv
<1> QED BY <1>1, StoreInvariant, PTL

\* No step takes back a system call that has failed.
LEMMA ErrorsCount ==
  ASSUME TypeOK, [Next]_vars, budget'.errors = 0
  PROVE  budget.errors = 0
<1>1. budget.errors \in Nat
  BY DEF TypeOK
<1>2. CASE Lock
  BY <1>2 DEF Lock, Confirm, Reject, Publish, Evict, OpenView, CloseView,
              StreamFails, Scrub, Rescan, Report, StartScan, StartReport
<1>3. CASE Step
  BY <1>3 DEF Step, MarkDirectory, SyncMark, Remove, Link, SyncShard, Retire,
              ClearDirectory, SyncClear, Acknowledge, Send
<1>4. CASE Fault
  <2>1. CASE budget' = [budget EXCEPT !.errors = @ + 1]
    BY <1>1, <2>1 DEF TypeOK
  <2> QED BY <1>4, <2>1 DEF Fault, ReadFails, MarkFails, NameFails,
          SyncShardFails, RetireFails, ClearFails, Fail, Damage, Crash,
          MaintenanceCrash, PowerLoss, TypeOK
<1> QED BY <1>2, <1>3, <1>4 DEF Next, vars

\* Every chunk that a report names has a live file without a marker, for the
\* worker alone under any errors, and with a maintenance process as long as no
\* system call has failed.
THEOREM ReportsExist == Spec => []ReportedUnlessFailed
<1> DEFINE J == IInv /\ ((Maintenance => budget.errors = 0) => HInv)
<1>1. Init => J
  BY InitHolds DEF HInv
<1>2. J /\ [Next]_vars => J'
  BY NextCovers, NextKeeps, ErrorsCount DEF IInv
<1>3. J => ReportedUnlessFailed
  BY DEF HInv, ReportClean, ReportedExists, ReportedUnlessFailed
<1> QED BY <1>1, <1>2, <1>3, PTL DEF Spec

\* Only the release of a marker by a scrub can let a condemned chunk come back
\* without its marker: publication, quarantine, eviction and acknowledgement
\* keep the fence through any error, crash or power loss.
THEOREM OnlyReleaseEverUnfences == Spec => OnlyReleaseUnfences
<1>1. IInv /\ [Next]_vars => (Fenced => (Fenced' \/ op.kind = "release"))
  <2> SUFFICES ASSUME IInv, [Next]_vars, Fenced, op.kind # "release"
               PROVE  Fenced'
    OBVIOUS
  <2> USE DEF Fenced, IInv, TypeOK, OpSteps, MarkerState, FileState
  <2>1. CASE UNCHANGED <<disk, receipts>>
    BY <2>1
  <2>2. CASE MarkDirectory
    BY <2>2 DEF MarkDirectory, At
  <2>3. CASE SyncMark
    BY <2>3 DEF SyncMark, At, Relabel
  <2>4. CASE Remove
    BY <2>4 DEF Remove, At
  <2>5. CASE Link
    BY <2>5 DEF Link, At
  <2>6. CASE SyncShard
    BY <2>6 DEF SyncShard, At
  <2>7. CASE SyncShardFails
    BY <2>7 DEF SyncShardFails, At
  <2>8. CASE ClearDirectory
    <3>1. "condemned" \notin disk[op.key]
      BY <2>8 DEF ClearDirectory, At, OpSynced, Op, Kinds
    <3> QED BY <2>8, <3>1 DEF ClearDirectory
  <2>9. CASE SyncClear
    <3>1. "condemned" \notin disk[op.key]
      BY <2>9 DEF SyncClear, At, OpSynced, Op, Kinds
    <3> QED BY <2>9, <3>1 DEF SyncClear
  <2>10. CASE \E k \in Chunks : Damage(k)
    BY <2>10 DEF Damage, Relabel
  <2>11. CASE PowerLoss
    BY <2>11 DEF PowerLoss
  <2>12. ASSUME Next
         PROVE  \/ UNCHANGED <<disk, receipts>>
                \/ MarkDirectory \/ SyncMark \/ Remove \/ Link \/ SyncShard
                \/ SyncShardFails \/ ClearDirectory \/ SyncClear \/ PowerLoss
                \/ \E k \in Chunks : Damage(k)
    <3> HIDE DEF Fenced, IInv
    <3>1. CASE Lock
      BY <3>1 DEF Lock, storage, Confirm, Reject, Publish, Evict, OpenView,
                  CloseView, StreamFails, Scrub, Rescan, Report, StartScan,
                  StartReport
    <3>2. CASE Step
      BY <3>2 DEF Step, storage, memory, Retire, Acknowledge, Send
    <3>3. CASE Fault
      BY <3>3 DEF Fault, storage, memory, ReadFails, MarkFails, NameFails,
                  RetireFails, ClearFails, Crash, MaintenanceCrash
    <3> QED BY <2>12, <3>1, <3>2, <3>3 DEF Next
  <2>13. CASE UNCHANGED vars
    BY <2>1, <2>13 DEF vars
  <2> QED BY <2>1, <2>2, <2>3, <2>4, <2>5, <2>6, <2>7, <2>8, <2>9, <2>10,
             <2>11, <2>12, <2>13
<1> QED BY <1>1, StoreInvariant, PTL DEF Spec, OnlyReleaseUnfences

\* No step of any process removes the file of a chunk that a restore view has
\* pinned.
THEOREM PinnedAlwaysStay == Spec => PinnedStays
<1>1. IInv' => \A k \in pins \cap pins' : file'[k] # "absent"
  BY DEF IInv, PinsSafe
<1> QED BY <1>1, StoreInvariant, PTL DEF Spec, PinnedStays
==========================================================================
