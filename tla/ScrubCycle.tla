--------------------------- MODULE ScrubCycle ----------------------------
(***************************************************************************)
(* The deep scrub's cursor, cycles and targeted requests (token_scrub.py,  *)
(* the loop of maintenance.py).  Several scrubbers, the worker's thread    *)
(* and other processes, share one persisted state.  A step takes the       *)
(* namespace lock to list keys, releases it, and takes it again for each   *)
(* key, so that other scrubbers, requests, restores and commits come in    *)
(* between; it goes on only while the state is the one it knows.           *)
(***************************************************************************)
EXTENDS Integers, FiniteSets

CONSTANTS
  Keys,         \* chunk keys, compared as the digests are
  Scrubbers,
  ItemBudget,   \* SCRUB_STEP_ITEMS: keys listed by a step
  MaxCycles,    \* cycles started
  MaxRequests,  \* targeted requests
  MaxChanges,   \* files published, removed or pinned
  MaxFailures   \* scrub steps that raise

ASSUME ScrubAssumption ==
  /\ Keys \subseteq Nat \ {0}
  /\ IsFiniteSet(Keys)
  /\ ItemBudget \in Nat \ {0}
  /\ {MaxCycles, MaxRequests, MaxChanges, MaxFailures} \subseteq Nat

VARIABLES
  files,     \* the keys that have a file
  pinned,    \* those that a restore has pinned
  state,     \* the persisted state of the scrub
  steps,     \* steps[s]: the step that scrubber s is in
  present,   \* history: the files that exist since the cycle was started
  visited,   \* history: the keys examined since then
  examined,  \* history: the last key examined
  budget     \* requests, changes and failures so far

vars == <<files, pinned, state, steps, present, visited, examined, budget>>

Statuses == {"none", "authenticated", "absent", "quarantined"}

State == [phase : {"idle", "files"}, cycle : Nat, cursor : Keys \cup {0},
          target : Keys \cup {0}, status : Statuses]

NoState == [phase |-> "idle", cycle |-> 0, cursor |-> 0, target |-> 0,
            status |-> "none"]

\* A scrubber waits ("idle"), has seen work ("due"), or is in a step that has
\* listed nothing ("empty"), is at its "first" key or has examined one ("more").
\* A step knows the state it read and the keys it still has to examine.
Step == [at : {"idle", "due", "empty", "first", "more"}, read : State,
         keys : SUBSET Keys]

NoStep == [at |-> "idle", read |-> NoState, keys |-> {}]

InLoop(s) == steps[s].at \in {"first", "more"}

\* A store of any files, whose scrub has never run.
Init ==
  /\ files \in SUBSET Keys
  /\ pinned = {}
  /\ state = NoState
  /\ steps = [s \in Scrubbers |-> NoStep]
  /\ present = {}
  /\ visited = {}
  /\ examined = [key |-> 0, status |-> "none"]
  /\ budget = [requests |-> 0, changes |-> 0, failures |-> 0]

--------------------------------------------------------------------------
\* start_cycle, when the loop finds the scrub idle and a cycle due.
StartCycle(s) ==
  /\ steps[s].at = "idle"
  /\ state.phase = "idle"
  /\ state.cycle < MaxCycles
  /\ state' = [state EXCEPT !.phase = "files", !.cursor = 0,
                            !.cycle = @ + 1]
  /\ steps' = [steps EXCEPT ![s].at = "due"]
  /\ present' = files
  /\ visited' = {}
  /\ UNCHANGED <<files, pinned, examined, budget>>

\* The loop finds a cycle under way or a request; what it saw may have been
\* done by the time the step begins.
Poll(s) ==
  /\ steps[s].at = "idle"
  /\ state.phase = "files" \/ state.target # 0
  /\ steps' = [steps EXCEPT ![s].at = "due"]
  /\ UNCHANGED <<files, pinned, state, present, visited, examined, budget>>

\* request, by any process that has the store open.
Request(k) ==
  /\ state.target = 0
  /\ budget.requests < MaxRequests
  /\ budget' = [budget EXCEPT !.requests = @ + 1]
  /\ state' = [state EXCEPT !.target = k, !.status = "none"]
  /\ UNCHANGED <<files, pinned, steps, present, visited, examined>>

\* Mutant: the key after the cursor is passed over.
listed_after_next(read) ==
  LET following == {k \in files : k > read.cursor + 1}
  IN IF read.target # 0 THEN {read.target}
     ELSE {k \in following :
             Cardinality({j \in following : j < k}) < ItemBudget}

\* The target, or the first keys after the cursor.
Listed(read) ==
  LET following == {k \in files : k > read.cursor}
  IN IF read.target # 0 THEN {read.target}
     ELSE {k \in following :
             Cardinality({j \in following : j < k}) < ItemBudget}

\* A step begins: the state is read and the keys are listed.
BeginStep(s) ==
  /\ steps[s].at = "due"
  /\ steps' = [steps EXCEPT ![s] =
                 [at |-> IF Listed(state) = {} THEN "empty" ELSE "first",
                  read |-> state, keys |-> Listed(state)]]
  /\ UNCHANGED <<files, pinned, state, present, visited, examined, budget>>

\* What the step finds at its next key; a bad file is quarantined.
Verdict(k, status) ==
  /\ status = "absent" <=> k \notin files
  /\ files' = IF status = "quarantined" THEN files \ {k} ELSE files

\* Mutant: the state is saved as it was read, with the new cursor.
known_to_be_any(s) == TRUE

\* No one has changed the durable work since the step read it.
Known(s) == state = steps[s].read

\* Mutant: the cursor stays.
saved_without_cursor(read, k, status) ==
  [read EXCEPT !.target = 0, !.status = IF read.target # 0 THEN status ELSE @]

\* What is saved after key k: the answer to the request, or the new cursor.
Saved(read, k, status) ==
  IF read.target # 0 THEN [read EXCEPT !.target = 0, !.status = status]
                     ELSE [read EXCEPT !.cursor = k]

\* One key: authenticated under the lock and the state saved.
Examine(s, k, status) ==
  LET read == steps[s].read
  IN /\ InLoop(s)
     /\ k \in steps[s].keys
     /\ \A j \in steps[s].keys : k <= j
     /\ Known(s)
     /\ k \notin pinned
     /\ status \in Statuses \ {"none"}
     /\ Verdict(k, status)
     /\ state' = Saved(read, k, status)
     /\ steps' = [steps EXCEPT ![s].at = "more",
                               ![s].read = Saved(read, k, status),
                               ![s].keys = @ \ {k}]
     /\ present' = present \cap files'
     /\ visited' = visited \cup {k}
     /\ examined' = [key |-> k, status |-> status]
     /\ UNCHANGED <<pinned, budget>>

\* The step ends when it has read enough or examined its last key, when the
\* state has changed, and at a pinned key.
EndStep(s) ==
  /\ InLoop(s)
  /\ \/ steps[s].at = "more"
     \/ ~Known(s)
     \/ \E k \in steps[s].keys \cap pinned : \A j \in steps[s].keys : k <= j
  /\ steps' = [steps EXCEPT ![s] = NoStep]
  /\ UNCHANGED <<files, pinned, state, present, visited, examined, budget>>

\* A step that has listed nothing ends the cycle, if the state is still known.
EndCycle(s) ==
  /\ steps[s].at = "empty"
  /\ state' = IF Known(s) /\ state.phase = "files"
              THEN [state EXCEPT !.phase = "idle", !.cursor = 0] ELSE state
  /\ steps' = [steps EXCEPT ![s] = NoStep]
  /\ UNCHANGED <<files, pinned, present, visited, examined, budget>>

--------------------------------------------------------------------------
(* Failures and the rest of the store.                                     *)

\* The step is cancelled, raises or its process dies: before a key is examined,
\* or when it was, with the file quarantined and the state saved or not.
StepFails(s) ==
  /\ steps[s].at # "idle"
  /\ budget.failures < MaxFailures
  /\ budget' = [budget EXCEPT !.failures = @ + 1]
  /\ steps' = [steps EXCEPT ![s] = NoStep]
  /\ \/ UNCHANGED <<files, state, present, visited, examined>>
     \/ \E k \in steps[s].keys, status \in Statuses \ {"none"} :
          /\ \A j \in steps[s].keys : k <= j
          /\ Known(s)
          /\ k \notin pinned
          /\ Verdict(k, status)
          /\ state' \in {state, Saved(state, k, status)}
          /\ present' = present \cap files'
          /\ visited' = visited \cup {k}
          /\ examined' = [key |-> k, status |-> status]
  /\ UNCHANGED pinned

Change ==
  /\ budget.changes < MaxChanges
  /\ budget' = [budget EXCEPT !.changes = @ + 1]
  /\ UNCHANGED <<state, steps, visited, examined>>

\* A commit publishes a chunk.
Publish(k) ==
  /\ k \notin files
  /\ Change
  /\ files' = files \cup {k}
  /\ UNCHANGED <<pinned, present>>

\* A commit or an eviction removes one.
Remove(k) ==
  /\ k \in files \ pinned
  /\ Change
  /\ files' = files \ {k}
  /\ present' = present \ {k}
  /\ UNCHANGED pinned

\* A restore pins a chunk and lets it go.
Pin(k) ==
  /\ k \in files \ pinned
  /\ Change
  /\ pinned' = pinned \cup {k}
  /\ UNCHANGED <<files, present>>

Unpin(k) ==
  /\ k \in pinned
  /\ pinned' = pinned \ {k}
  /\ UNCHANGED <<files, state, steps, present, visited, examined, budget>>

Scrub(s) ==
  \/ Poll(s)
  \/ BeginStep(s)
  \/ \E k \in Keys, status \in Statuses : Examine(s, k, status)
  \/ EndStep(s)
  \/ EndCycle(s)

Next ==
  \/ \E s \in Scrubbers : StartCycle(s)
  \/ \E s \in Scrubbers : Scrub(s)
  \/ \E s \in Scrubbers : StepFails(s)
  \/ \E k \in Keys : Request(k)
  \/ \E k \in Keys : Publish(k)
  \/ \E k \in Keys : Remove(k)
  \/ \E k \in Keys : Pin(k)
  \/ \E k \in Keys : Unpin(k)

Spec == Init /\ [][Next]_vars

\* The scrub threads run and restores end.
FairSpec ==
  /\ Spec
  /\ \A s \in Scrubbers : WF_vars(Scrub(s))
  /\ \A k \in Keys : WF_vars(Unpin(k))

--------------------------------------------------------------------------
\* Every variable keeps its type, and a step never has a key to examine that
\* is not one.
TypeOK ==
  /\ files \subseteq Keys
  /\ pinned \subseteq files
  /\ state \in State
  /\ steps \in [Scrubbers -> Step]
  /\ present \subseteq files
  /\ visited \subseteq Keys
  /\ examined \in [key : Keys \cup {0}, status : Statuses]
  /\ budget \in [requests : Nat, changes : Nat, failures : Nat]

\* A cycle ends only when every file that existed all the time has been
\* examined, whoever did it and however often steps were broken off: the
\* cursor is shared, and no scrubber moves it over a key it did not look at.
CycleVisitsAll ==
  [][(state.phase = "files" /\ state'.phase = "idle")
       => present \subseteq visited]_vars

\* A targeted request stays until the key that it names has been examined, and
\* the answer is what was found, although other scrubbers save the same state.
RequestsAnswered ==
  [][(state.target # 0 /\ state'.target # state.target)
       => /\ state'.target = 0
          /\ examined'.key = state.target
          /\ state'.status = examined'.status]_vars

\* A cycle that was started ends: pinned keys and requests delay it, and
\* scrubbers that find each other's changes begin again.
CycleEnds == state.phase = "files" ~> state.phase = "idle"
==========================================================================
