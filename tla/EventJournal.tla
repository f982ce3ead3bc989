--------------------------- MODULE EventJournal ---------------------------
(***************************************************************************)
(* PersistentEventJournal (event_journal.py): counters of events that the  *)
(* process may not survive, and their export (_refresh_worker_metrics).    *)
(*                                                                         *)
(* An increment holds the journal's lock: it counts in memory, writes and  *)
(* syncs a temporary file, renames it over the journal and syncs the       *)
(* directory.  If a step fails the count in memory is taken back, although *)
(* the file may have been renamed already.  The exporter reads the totals  *)
(* under the lock and passes on what is new since the last time.           *)
(***************************************************************************)
EXTENDS Naturals

CONSTANTS
  Events,      \* the crash-persistent counters, each with its labels
  MaxTotal,    \* MAX_METRIC_VALUE
  MaxMishaps   \* bound: how many increments fail or are cut short

VARIABLES
  totals,      \* _totals
  journal,     \* the file spoolcache-events.json
  journals,    \* what it may be after a power loss
  increment,   \* the increment that holds the lock
  temporary,   \* whether a temporary file was left behind
  cursor,      \* _event_journal_cursor
  counted,     \* history: increments that returned
  mishaps      \* history: increments that did not

journalVars ==
  <<totals, journal, journals, increment, temporary, cursor, counted, mishaps>>

None == [e \in Events |-> 0]

NoIncrement == [step |-> "none", event |-> CHOOSE e \in Events : TRUE]

Idle == increment = NoIncrement

JournalInit ==
  /\ totals = None
  /\ journal = None
  /\ journals = {None}
  /\ increment = NoIncrement
  /\ temporary = FALSE
  /\ cursor = None
  /\ counted = None
  /\ mishaps = None

\* What a predecessor left half-written is removed, with a sync of the directory.
CleanupTemporaries ==
  /\ temporary' = FALSE
  /\ journals' = IF temporary THEN {journal} ELSE journals

\* The constructor: the temporaries go, then the file is read.  The new process
\* has exported nothing.
LoadJournal ==
  /\ CleanupTemporaries
  /\ totals' = journal
  /\ cursor' = None
  /\ increment' = NoIncrement
  /\ UNCHANGED <<journal, counted, mishaps>>

\* increment, up to the synced temporary file.  A counter at its bound raises
\* without a trace.
BeginIncrement(e) ==
  /\ Idle
  /\ totals[e] < MaxTotal
  /\ totals' = [totals EXCEPT ![e] = @ + 1]
  /\ increment' = [step |-> "replace", event |-> e]
  /\ UNCHANGED <<journal, journals, temporary, cursor, counted, mishaps>>

\* os.replace
ReplaceJournal ==
  /\ increment.step = "replace"
  /\ journal' = totals
  /\ journals' = journals \cup {totals}
  /\ increment' = [increment EXCEPT !.step = "sync"]
  /\ UNCHANGED <<totals, temporary, cursor, counted, mishaps>>

\* Mutant: the directory is not synced.
sync_journal_never ==
  /\ increment.step = "sync"
  /\ counted' = [counted EXCEPT ![increment.event] = @ + 1]
  /\ increment' = NoIncrement
  /\ UNCHANGED <<totals, journal, journals, temporary, cursor, mishaps>>

\* The sync of the directory; the increment returns.
SyncJournal ==
  /\ increment.step = "sync"
  /\ journals' = {journal}
  /\ counted' = [counted EXCEPT ![increment.event] = @ + 1]
  /\ increment' = NoIncrement
  /\ UNCHANGED <<totals, journal, temporary, cursor, mishaps>>

Mishap ==
  /\ mishaps[increment.event] < MaxMishaps
  /\ mishaps' = [mishaps EXCEPT ![increment.event] = @ + 1]

\* A call raises.  Before the rename the temporary file is removed; after it
\* the file keeps a count that the memory takes back.
IncrementFails ==
  /\ ~Idle
  /\ Mishap
  /\ totals' = [totals EXCEPT ![increment.event] = @ - 1]
  /\ increment' = NoIncrement
  /\ UNCHANGED <<journal, journals, temporary, cursor, counted>>

\* _refresh_worker_metrics: the totals, read under the lock, and the cursor
\* that remembers them.
Export ==
  /\ Idle
  /\ cursor' = totals
  /\ UNCHANGED <<totals, journal, journals, increment, temporary, counted,
                 mishaps>>

\* The process is gone; its increment, if any, is cut short.
DropMemory ==
  /\ totals' = None
  /\ cursor' = None
  /\ increment' = NoIncrement
  /\ temporary' = (temporary \/ increment.step = "replace")
  /\ IF Idle THEN UNCHANGED mishaps ELSE Mishap
  /\ UNCHANGED counted

\* A crash leaves the file as it is.
JournalCrash == DropMemory /\ UNCHANGED <<journal, journals>>

\* A power loss leaves what the name was at some moment since the last sync.
JournalPowerLoss ==
  /\ DropMemory
  /\ journal' \in journals
  /\ journals' = {journal'}

\* What any count of event e may be: all that returned, and perhaps some that
\* did not.
Plausible(e, count) ==
  LET pending == IF ~Idle /\ increment.event = e THEN 1 ELSE 0 IN
  counted[e] <= count /\ count <= counted[e] + mishaps[e] + pending

\* An increment that returned is never lost and none is counted twice, through
\* failures after the rename, crashes and power losses (event_journal.py 137-217);
\* what has been exported is never taken back, so that _refresh_worker_metrics
\* never raises "moved backwards".
EventsKept ==
  \A e \in Events :
    /\ \A j \in journals : Plausible(e, j[e])
    /\ Idle => cursor[e] <= totals[e]
===========================================================================
