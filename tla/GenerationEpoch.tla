------------------------- MODULE GenerationEpoch -------------------------
(***************************************************************************)
(* reserve_inventory_generation_epoch (rank_store.py): how the process of  *)
(* a rank gets an epoch above those of all its predecessors, although the  *)
(* clock jumps, processes die, calls fail and the power goes.              *)
(*                                                                         *)
(* The reservation holds the namespace lock.  Two files matter: the state  *)
(* (generation.json) with the last epoch reserved, and the sentry          *)
(* (generation.required.json), which says that the state must exist.  Both *)
(* are written completely and synced under a temporary name, renamed, and  *)
(* their directory synced; it is the same directory, so that one sync      *)
(* makes both names durable.                                               *)
(***************************************************************************)
EXTENDS Integers

CONSTANTS
  Base,       \* _PERSISTENT_GENERATION_EPOCH_BASE, 2^62 in the code
  Clocks      \* what time.time_ns may return

\* _MAX_GENERATION_EPOCH
MaxEpoch == 2 * Base - 1

ASSUME EpochAssumption == Base \in Nat \ {0} /\ Clocks \subseteq Nat

VARIABLES
  state,      \* the epoch in the state file, 0 if there is no file
  states,     \* what it may be after a power loss
  sentry,     \* whether the sentry is "absent" or "present"
  sentries,   \* what it may be after a power loss
  custody,    \* "kept", or "deleted" when somebody removed the state file
  op,         \* the reservation in progress
  advertised  \* history: the last epoch that a process got

vars == <<state, states, sentry, sentries, custody, op, advertised>>

Op == [step : {"idle", "replace", "sync", "sentry", "sync_sentry", "return"},
       epoch : 0 .. MaxEpoch, required : {"absent", "present"}]

NoOp == [step |-> "idle", epoch |-> 0, required |-> "absent"]

At(step) == op.step = step

\* A new root, or one left by the older implementation, which advertised the
\* raw clock and may have kept it in the state file.
Init ==
  /\ state \in 0 .. Base - 1
  /\ states = {state}
  /\ sentry = "absent"
  /\ sentries = {"absent"}
  /\ custody = "kept"
  /\ op = NoOp
  /\ advertised \in 0 .. Base - 1

Larger(m, n) == IF m > n THEN m ELSE n

\* Mutant: the successor of an epoch is at least the epoch.
next_epoch_or_same(previous, now) ==
  Larger(previous, Base + now)

\* Epochs of the older implementation, or none, are lifted above Base; those
\* of this one grow.
next_epoch(previous, now) ==
  IF previous < Base THEN Larger(Base + now, Base + previous)
                     ELSE Larger(previous + 1, Base + now)

\* The state and the clock are read.  The reservation is refused when the
\* state is missing although there is a sentry, when the epochs are used up,
\* and when the clock is out of range.
Begin(now) ==
  /\ At("idle")
  /\ sentry = "present" => state # 0
  /\ state < MaxEpoch
  /\ 0 < now /\ now <= MaxEpoch - Base
  /\ op' = [step |-> "replace", epoch |-> next_epoch(state, now),
            required |-> sentry]
  /\ UNCHANGED <<state, states, sentry, sentries, custody, advertised>>

\* Mutant: a first reservation goes on to the sentry before the sync.
replace_without_sync ==
  /\ At("replace")
  /\ state' = op.epoch
  /\ states' = states \cup {op.epoch}
  /\ op' = [op EXCEPT !.step = IF op.required = "present" THEN "sync" ELSE "sentry"]
  /\ UNCHANGED <<sentry, sentries, custody, advertised>>

\* os.replace of the state.
Replace ==
  /\ At("replace")
  /\ state' = op.epoch
  /\ states' = states \cup {op.epoch}
  /\ op' = [op EXCEPT !.step = "sync"]
  /\ UNCHANGED <<sentry, sentries, custody, advertised>>

\* fsync of the directory: every name in it is durable.
SyncNames ==
  /\ states' = {state}
  /\ sentries' = {sentry}
  /\ UNCHANGED <<state, sentry, custody, advertised>>

Sync ==
  /\ At("sync")
  /\ SyncNames
  /\ op' = [op EXCEPT !.step = IF op.required = "present" THEN "return" ELSE "sentry"]

\* The event journal is in the same directory, and syncs it.
SyncByJournal == SyncNames /\ UNCHANGED op

\* os.replace of the sentry, and its sync.
WriteSentry ==
  /\ At("sentry")
  /\ sentry' = "present"
  /\ sentries' = sentries \cup {"present"}
  /\ op' = [op EXCEPT !.step = "sync_sentry"]
  /\ UNCHANGED <<state, states, custody, advertised>>

SyncSentry ==
  /\ At("sync_sentry")
  /\ SyncNames
  /\ op' = [op EXCEPT !.step = "return"]

\* The process has its epoch and will advertise it.
Return ==
  /\ At("return")
  /\ advertised' = op.epoch
  /\ op' = NoOp
  /\ UNCHANGED <<state, states, sentry, sentries, custody>>

\* A call fails and the exception ends the startup, or the process dies.
Abandon ==
  /\ ~At("idle")
  /\ op' = NoOp
  /\ UNCHANGED <<state, states, sentry, sentries, custody, advertised>>

\* Every name is what it was at some moment since the last sync.
PowerLoss ==
  /\ state' \in states
  /\ states' = {state'}
  /\ sentry' \in sentries
  /\ sentries' = {sentry'}
  /\ op' = NoOp
  /\ UNCHANGED <<custody, advertised>>

\* The state file is deleted, for good.
LoseState ==
  /\ state # 0
  /\ state' = 0
  /\ states' = {0}
  /\ custody' = "deleted"
  /\ UNCHANGED <<sentry, sentries, op, advertised>>

Next ==
  \/ \E now \in Clocks : Begin(now)
  \/ Replace
  \/ Sync
  \/ SyncByJournal
  \/ WriteSentry
  \/ SyncSentry
  \/ Return
  \/ Abandon
  \/ PowerLoss
  \/ LoseState

Spec == Init /\ [][Next]_vars

--------------------------------------------------------------------------
\* Every variable keeps its type; no epoch exceeds the 63 bits that packets
\* and the state file have for it.
TypeOK ==
  /\ state \in 0 .. MaxEpoch
  /\ states \subseteq 0 .. MaxEpoch
  /\ sentry \in {"absent", "present"}
  /\ sentries \subseteq {"absent", "present"}
  /\ state \in states
  /\ sentry \in sentries
  /\ custody \in {"kept", "deleted"}
  /\ op \in Op
  /\ advertised \in 0 .. MaxEpoch

\* A process never gets an epoch that is not above every earlier one, those of
\* the older implementation included, whatever the clock says and whatever
\* became of the reservations in between.
StrictlyNewer == At("return") => op.epoch > advertised

\* Unless somebody deletes the state file, no failure, crash or power loss in
\* the middle of a reservation leaves a sentry without a state: the rank could
\* never start again.
NeverWedged == custody = "kept" /\ sentry = "present" => state # 0
==========================================================================
