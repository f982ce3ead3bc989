------------------------- MODULE MaintenanceProofs -----------------------
(***************************************************************************)
(* Theorems about a worker's maintenance, for any set of chunks and any    *)
(* number of results and failures.                                         *)
(***************************************************************************)
EXTENDS MaintenanceThread, TLAPS

\* The lock is held from the scan to the acknowledgement, and so the scan stays
\* what the files are.
ScanIsCurrent == (lock <=> main = "replace") /\ (lock => scan = Offered)

\* The last failure is owed if any is.  Up to the withdrawn epoch none is owed once
\* the report is out, and the catalog is empty until then; a scan is for epochs
\* before what is owed.
WithdrawalsKnown ==
  /\ owed # {} => forced \in owed
  /\ owed # {} /\ forced <= withdrawn => main = "report" /\ held = {}
  /\ owed # {} /\ main \in {"scan", "replace"} => rescan < forced

ReleasedOffered == released \subseteq Offered

IInv ==
  /\ TypeOK /\ ScanIsCurrent /\ WithdrawalsKnown /\ ReleasedOffered
  /\ FailuresWithdraw /\ NoStaleSnapshot /\ ReleasedReturns /\ OpenWhileScrubbed

--------------------------------------------------------------------------
\* The initial states satisfy the invariant.
LEMMA InitInvariant == Init => IInv
<1> SUFFICES ASSUME Init
             PROVE  IInv
  OBVIOUS
<1>1. TypeOK
  <2>1. lock \in BOOLEAN /\ found \in BOOLEAN /\ stop \in BOOLEAN
    BY Zenon DEF Init
  <2>2. /\ held \subseteq Chunks /\ scan \subseteq Chunks
        /\ owed \subseteq 1..epoch /\ released \subseteq Chunks
    BY Zenon DEF Init, Offered
  <2>3. events \in 0..MaxEvents
    BY MaintenanceAssumption DEF Init
  <2>4. /\ epoch \in Nat
        /\ acknowledged \in 0..epoch /\ forced \in 0..epoch
        /\ withdrawn \in 0..epoch /\ rescan \in 0..epoch
    BY DEF Init
  <2> QED
    BY <2>1, <2>2, <2>3, <2>4, Zenon DEF Init, TypeOK
<1>2. ScanIsCurrent /\ WithdrawalsKnown /\ ReleasedOffered
  BY DEF Init, ScanIsCurrent, WithdrawalsKnown, ReleasedOffered
<1>3. FailuresWithdraw /\ ReleasedReturns /\ OpenWhileScrubbed
  BY DEF Init, FailuresWithdraw, ReleasedReturns, OpenWhileScrubbed
<1>4. NoStaleSnapshot
  BY DEF Init, NoStaleSnapshot, Offered
<1> QED
  BY <1>1, <1>2, <1>3, <1>4 DEF IInv

\* Every step keeps the invariant.
LEMMA NextInvariant == IInv /\ [Next]_vars => IInv'
<1> SUFFICES ASSUME IInv, [Next]_vars
             PROVE  IInv'
  OBVIOUS
<1> USE MaintenanceAssumption DEF IInv, TypeOK, ScanIsCurrent, WithdrawalsKnown,
      ReleasedOffered, FailuresWithdraw, NoStaleSnapshot, ReleasedReturns,
      OpenWhileScrubbed, Offered, epochs
<1>1. CASE StartThread
  BY <1>1 DEF StartThread
<1>2. CASE BeginStep
  BY <1>2 DEF BeginStep
<1>3. CASE StepFails
  BY <1>3 DEF StepFails, Happens
<1>4. CASE Recover
  BY <1>4 DEF Recover, require_inventory_rescan
<1>5. CASE EndStep
  BY <1>5 DEF EndStep
<1>6. CASE Accumulate
  <2>1. CASE found
    <3>1. /\ epoch' = epoch + 1 /\ forced' = forced
          /\ owed' = owed /\ acknowledged' = acknowledged
      BY <1>6, <2>1 DEF Accumulate, accumulate, require_inventory_rescan
    <3> QED
      BY <1>6, <3>1 DEF Accumulate
  <2>2. CASE ~found
    <3>1. UNCHANGED <<epochs, owed>>
      BY <1>6, <2>2 DEF Accumulate, accumulate
    <3> QED
      BY <1>6, <2>2, <3>1 DEF Accumulate
  <2> QED
    BY <2>1, <2>2
<1>7. CASE Cancel
  BY <1>7 DEF Cancel
<1>8. CASE BeginDrain
  BY <1>8 DEF BeginDrain, pending_inventory_rescan_epoch
<1>9. CASE Decide
  BY <1>9 DEF Decide, inventory_rescan_requires_withdrawal, Holds
<1>10. CASE Scan
  BY <1>10 DEF Scan
<1>11. CASE Replace
  BY <1>11 DEF Replace, acknowledge_inventory_rescan, Holds
<1>12. CASE ScanFails
  BY <1>12 DEF ScanFails, Holds, Happens
<1>13. CASE Report
  BY <1>13 DEF Report, Holds
<1>14. CASE ReplaceEvicted
  BY <1>14 DEF ReplaceEvicted, Holds
<1>15. CASE CapacityFails
  BY <1>15 DEF CapacityFails, Holds, Happens, require_inventory_rescan
<1>16. CASE Shutdown
  BY <1>16 DEF Shutdown
<1>17. CASE Joined
  BY <1>17 DEF Joined
<1>18. CASE JoinTimesOut
  BY <1>18 DEF JoinTimesOut
<1>19. CASE Finalize
  BY <1>19 DEF Finalize
<1>20. ASSUME NEW k \in Chunks, Quarantine(k)
      PROVE  IInv'
  BY <1>20 DEF Quarantine, Withdraws, Happens
<1>21. ASSUME NEW k \in Chunks, Release(k)
      PROVE  IInv'
  BY <1>21 DEF Release, Happens
<1>22. ASSUME NEW k \in Chunks, QuarantineFails(k)
      PROVE  IInv'
  BY <1>22 DEF QuarantineFails, Withdraws, Happens
<1>23. ASSUME NEW chunks \in SUBSET Chunks, EvictBatch(chunks)
      PROVE  IInv'
  BY <1>23 DEF EvictBatch, Withdraws, Happens
<1>24. ASSUME NEW k \in Chunks, NEW announced \in BOOLEAN, CommitPlan(k, announced)
      PROVE  IInv'
  BY <1>24 DEF CommitPlan, Holds
<1>25. CASE UNCHANGED vars
  BY <1>25 DEF vars
<1> QED
  BY <1>1, <1>2, <1>3, <1>4, <1>5, <1>6, <1>7, <1>8, <1>9, <1>10, <1>11, <1>12,
     <1>13, <1>14, <1>15, <1>16, <1>17, <1>18, <1>19, <1>20, <1>21, <1>22, <1>23, <1>24, <1>25
  DEF Next, ThreadNext, Drain, Capacity, Ending

--------------------------------------------------------------------------
\* The invariant holds in every reachable state.
THEOREM Invariance == Spec => []IInv
  BY InitInvariant, NextInvariant, PTL DEF Spec

\* Every variable keeps its type, and no epoch is ahead of the last one
\* required (maintenance.py: the "from the future" errors cannot occur).
THEOREM TypeCorrect == Spec => []TypeOK
<1>1. IInv => TypeOK
  BY DEF IInv
<1> QED
  BY <1>1, Invariance, PTL

\* As long as any failure of maintenance has had no empty report, the withdrawal
\* that brings one is pending (_drain_scrub_maintenance).
THEOREM FailuresAlwaysWithdraw == Spec => []FailuresWithdraw
<1>1. IInv => FailuresWithdraw
  BY DEF IInv
<1> QED
  BY <1>1, Invariance, PTL

\* No rescan puts back a chunk that was quarantined or evicted meanwhile.
THEOREM SnapshotsNeverStale == Spec => []NoStaleSnapshot
<1>1. IInv => NoStaleSnapshot
  BY DEF IInv
<1> QED
  BY <1>1, Invariance, PTL

\* A chunk that the scrub released is announced or a rescan is on its way
\* (_accumulate, the exception handler of _run).
THEOREM ReleasedAlwaysReturn == Spec => []ReleasedReturns
<1>1. IInv => ReleasedReturns
  BY DEF IInv
<1> QED
  BY <1>1, Invariance, PTL

\* The scrub thread never works on a closed store (shutdown and
\* _finish_deferred_scrub_shutdown).
THEOREM StoreOpenWhileScrubbed == Spec => []OpenWhileScrubbed
<1>1. IInv => OpenWhileScrubbed
  BY DEF IInv
<1> QED
  BY <1>1, Invariance, PTL
==========================================================================
