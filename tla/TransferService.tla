-------------------------- MODULE TransferService --------------------------
(***************************************************************************)
(* What the worker's data path promises to vLLM and to the scheduler,      *)
(* without slots, streams, locks, pins or checksums.                       *)
(*                                                                         *)
(* A restore ends with every page of its prefix holding the right bytes,   *)
(* or the worker dies before anybody computes with them.  A store          *)
(* publishes files one at a time, each with the right bytes, and offers    *)
(* its keys only once all of them are there.  Files may rot, and may go    *)
(* away together with their offer at any time.                             *)
(***************************************************************************)
EXTENDS Naturals

CONSTANTS Keys, Lengths, KeysOf(_), UnitsOf(_)

VARIABLES
  job,    \* "none", "restore", "commit" or "dead"
  n,      \* the chunks of the prefix that is moved, 0 if none is
  pages,  \* units that vLLM finds in their GPU pages
  store,  \* the files: "none", "right" or "rotten"
  offers  \* keys the worker reports

vars == <<job, n, pages, store, offers>>

Init ==
  /\ job = "dead" /\ n = 0
  /\ pages = {}
  /\ store \in [Keys -> {"none", "right"}]
  /\ offers = {}

StartRestore(m) ==
  /\ job = "none"
  /\ job' = "restore" /\ n' = m
  /\ pages' = {}
  /\ UNCHANGED <<store, offers>>

FinishRestore ==
  /\ job = "restore"
  /\ job' = "none" /\ n' = 0
  /\ pages' = UnitsOf(n)
  /\ UNCHANGED <<store, offers>>

\* The only other way out of a restore, and an end that any job may come to.
Die ==
  /\ job # "dead"
  /\ job' = "dead" /\ n' = 0
  /\ pages' = {}
  /\ UNCHANGED <<store, offers>>

\* The pages of a store hold what the request has computed.
StartCommit(m) ==
  /\ job = "none"
  /\ job' = "commit" /\ n' = m
  /\ pages' = UnitsOf(m)
  /\ UNCHANGED <<store, offers>>

\* A file appears with the bytes of its key, offered or not yet.
Publish(k) ==
  /\ job = "commit"
  /\ k \in KeysOf(n) /\ store[k] = "none"
  /\ store' = [store EXCEPT ![k] = "right"]
  /\ offers' \in {offers, offers \ {k}}
  /\ UNCHANGED <<job, n, pages>>

\* The end of a store: all of its keys are offered, or none that was not.
FinishCommit ==
  /\ job = "commit"
  /\ job' = "none" /\ n' = 0
  /\ \/ offers' = offers
     \/ /\ \A k \in KeysOf(n) : store[k] # "none"
        /\ offers' = offers \cup KeysOf(n)
  /\ UNCHANGED <<pages, store>>

Rot(k) ==
  /\ store[k] = "right"
  /\ store' = [store EXCEPT ![k] = "rotten"]
  /\ UNCHANGED <<job, n, pages, offers>>

\* A key is withdrawn, with or without its file.
Withdraw(k) ==
  /\ offers' = offers \ {k}
  /\ store' \in {store, [store EXCEPT ![k] = "none"]}
  /\ UNCHANGED <<job, n, pages>>

Restart ==
  /\ job = "dead"
  /\ job' = "none"
  /\ offers' \in SUBSET {k \in Keys : store[k] # "none"}
  /\ UNCHANGED <<n, pages, store>>

Next ==
  \/ \E m \in Lengths : StartRestore(m) \/ StartCommit(m)
  \/ FinishRestore \/ Die \/ FinishCommit \/ Restart
  \/ \E k \in Keys : Publish(k) \/ Rot(k) \/ Withdraw(k)

Spec == Init /\ [][Next]_vars
=============================================================================
