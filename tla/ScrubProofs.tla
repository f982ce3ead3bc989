--------------------------- MODULE ScrubProofs ---------------------------
(***************************************************************************)
(* Theorems about the scrub's cycle, for any keys, any number of           *)
(* scrubbers, and any budget of a step.                                    *)
(***************************************************************************)
EXTENDS ScrubCycle, TLAPS, FiniteSetTheorems, WellFoundedInduction

\* The cursor of a cycle has passed over no lasting file that was not examined.
Passed ==
  state.phase = "files" =>
    \A k \in present : k <= state.cursor => k \in visited

\* What step r knows in state q, with lasting files p: a step of the present
\* cycle has in its keys every lasting file between the cursor that it read and
\* the last key.
KnowsGap(r, q, p) ==
  (q.phase = "files" /\ r.read.cycle = q.cycle) =>
    /\ \A k \in p, j \in r.keys :
         r.read.target = 0 /\ r.read.cursor < k /\ k <= j => k \in r.keys
    /\ \A k \in p : r.at = "empty" => k <= r.read.cursor

\* A step has read a state of this cycle or an earlier one, and its keys are
\* the target or lie after the cursor.
KnowsKeys(r, q) ==
  /\ r.read.cycle <= q.cycle
  /\ \A j \in r.keys :
       IF r.read.target # 0 THEN j = r.read.target ELSE r.read.cursor < j
  /\ r.at \notin {"first", "more"} => r.keys = {}
  /\ r.at = "empty" => r.read.target = 0

Knows(r, q, p) == KnowsGap(r, q, p) /\ KnowsKeys(r, q)

StepsKnow == \A s \in Scrubbers : Knows(steps[s], state, present)

IInv == TypeOK /\ Passed /\ StepsKnow

--------------------------------------------------------------------------
\* A cursor can be compared with a key.
LEMMA CursorIsNatural ==
  ASSUME NEW c \in Keys \cup {0}
  PROVE  c \in Nat
<1>1. Keys \subseteq Nat
  BY ScrubAssumption
<1>2. CASE c \in Keys
  BY <1>1, <1>2
<1>3. CASE c = 0
  BY <1>3
<1> QED BY <1>2, <1>3

\* A set of keys that is not empty has a first one.
LEMMA FirstKey ==
  ASSUME NEW T \in SUBSET Nat, T # {}
  PROVE  \E x \in T : \A y \in T : x <= y
<1>1. \E x \in T : \A y \in T : ~(<<y, x>> \in OpToRel(<, Nat))
  BY NatLessThanWellFounded, WFMin
<1>2. PICK x \in T : \A y \in T : ~(<<y, x>> \in OpToRel(<, Nat))
  BY <1>1
<1>3. ASSUME NEW y \in T
      PROVE  x <= y
  <2>1. x \in Nat /\ y \in Nat
    OBVIOUS
  <2>2. ~(y < x)
    BY <1>2, <2>1 DEF OpToRel
  <2> QED BY <2>1, <2>2
<1> QED BY <1>2, <1>3

\* A step lists its target, or files after the cursor without a gap; and
\* nothing only if there are none.
LEMMA ListedHasNoGap ==
  ASSUME NEW read \in State, files \subseteq Keys
  PROVE  /\ Listed(read) \subseteq Keys
         /\ \A j \in Listed(read) :
              IF read.target # 0 THEN j = read.target ELSE read.cursor < j
         /\ \A k \in files, j \in Listed(read) :
              read.target = 0 /\ read.cursor < k /\ k <= j => k \in Listed(read)
         /\ Listed(read) = {} =>
              read.target = 0 /\ \A k \in files : k <= read.cursor
<1> DEFINE following == {k \in files : k > read.cursor}
           before(k) == {j \in following : j < k}
<1>1. /\ Keys \subseteq Nat /\ ItemBudget \in Nat /\ ItemBudget > 0
      /\ IsFiniteSet(Keys)
  BY ScrubAssumption
<1>2. read.target \in Keys \cup {0} /\ read.cursor \in Keys \cup {0}
  BY DEF State
<1>3. read.cursor \in Nat
  BY <1>2, CursorIsNatural
<1>4. CASE read.target # 0
  BY <1>2, <1>4 DEF Listed
<1>5. CASE read.target = 0
  <2>1. Listed(read) = {k \in following : Cardinality(before(k)) < ItemBudget}
    BY <1>5 DEF Listed
  <2>2. ASSUME NEW k \in following
        PROVE  IsFiniteSet(before(k)) /\ Cardinality(before(k)) \in Nat
    BY <1>1, FS_Subset, FS_CardinalityType
  <2>3. ASSUME NEW k \in following, NEW j \in Listed(read), k <= j
        PROVE  k \in Listed(read)
    <3>1. j \in following /\ Cardinality(before(j)) < ItemBudget
      BY <2>1
    <3>2. before(k) \subseteq before(j)
      <4>1. \A i \in following : i \in Nat
        BY <1>1
      <4> HIDE DEF following
      <4> QED BY <2>3, <3>1, <4>1
    <3>3. Cardinality(before(k)) <= Cardinality(before(j))
      BY <2>2, <3>1, <3>2, FS_Subset
    <3> HIDE DEF before
    <3>4. Cardinality(before(k)) < ItemBudget
      BY <1>1, <2>2, <3>1, <3>3
    <3> QED BY <2>1, <3>4
  <2>4. ASSUME following # {}
        PROVE  Listed(read) # {}
    <3>1. following \in SUBSET Nat
      BY <1>1
    <3>2. PICK k \in following : \A j \in following : k <= j
      BY <2>4, <3>1, FirstKey
    <3>3. before(k) = {}
      BY <3>1, <3>2
    <3>4. Cardinality(before(k)) = 0
      BY <3>3, FS_EmptySet
    <3> QED BY <1>1, <2>1, <3>4
  <2>5. \A k \in files : k <= read.cursor \/ k \in following
    BY <1>1, <1>3
  <2>6. \A j \in Listed(read) : j \in files /\ read.cursor < j
    BY <2>1
  <2>7. \A k \in files : read.cursor < k => k \in following
    OBVIOUS
  <2> HIDE DEF following
  <2> QED BY <1>5, <2>3, <2>4, <2>5, <2>6, <2>7
<1> QED BY <1>4, <1>5

\* The initial states satisfy the invariant.
LEMMA InitHolds == Init => IInv
  BY ScrubAssumption
  DEF Init, IInv, TypeOK, Passed, StepsKnow, Knows, KnowsGap, KnowsKeys, State,
      NoState, Step,
      NoStep, Statuses

--------------------------------------------------------------------------
\* What a step knows stays true while the cycle's lasting files become fewer,
\* and when another cycle starts.
LEMMA KnowledgeStays ==
  ASSUME NEW r \in Step, NEW q \in State, NEW p, NEW newer \in State, NEW fewer,
         Knows(r, q, p), q.cycle <= newer.cycle,
         newer.cycle = q.cycle /\ newer.phase = "files" =>
           q.phase = "files" /\ fewer \subseteq p
  PROVE  Knows(r, newer, fewer)
<1>1. r.read.cycle \in Nat /\ q.cycle \in Nat /\ newer.cycle \in Nat
  BY DEF Step, State
<1>2. r.read.cycle <= q.cycle
  BY DEF Knows, KnowsKeys
<1>3. KnowsKeys(r, newer)
  BY <1>1, <1>2 DEF Knows, KnowsKeys
<1>4. KnowsGap(r, newer, fewer)
  <2> SUFFICES ASSUME newer.phase = "files", r.read.cycle = newer.cycle
               PROVE  KnowsGap(r, newer, fewer)
    BY DEF KnowsGap
  <2>1. newer.cycle = q.cycle
    BY <1>1, <1>2
  <2> QED BY <2>1 DEF Knows, KnowsGap
<1> QED BY <1>3, <1>4 DEF Knows

\* A step that has examined its first key, with everything it has changed.
LEMMA ExaminedKeeps ==
  ASSUME IInv, NEW s \in Scrubbers, NEW k \in steps[s].keys,
         \A j \in steps[s].keys : k <= j,
         NEW status \in Statuses,
         Known(s), Verdict(k, status),
         state' \in {state, Saved(state, k, status)},
         present' = present \cap files',
         visited' = visited \cup {k}
  PROVE  /\ state' \in State
         /\ state'.cycle = state.cycle /\ state'.phase = state.phase
         /\ Passed'
<1> DEFINE r == steps[s]
<1>1. /\ r \in Step /\ state \in State /\ r.read = state
      /\ r.keys \subseteq Keys /\ k \in Keys /\ present \subseteq Keys
      /\ KnowsGap(r, state, present)
  BY DEF IInv, TypeOK, StepsKnow, Knows, Known, Step
<1>2. Keys \subseteq Nat
  BY ScrubAssumption
<1>3. state.cursor \in Keys \cup {0} /\ state.target \in Keys \cup {0}
  BY <1>1 DEF State
<1>4. /\ Saved(state, k, status) \in State
      /\ Saved(state, k, status).cycle = state.cycle
      /\ Saved(state, k, status).phase = state.phase
      /\ Saved(state, k, status).cursor =
           IF state.target # 0 THEN state.cursor ELSE k
  BY <1>1 DEF Saved, State
<1>5. /\ state' \in State
      /\ state'.cycle = state.cycle /\ state'.phase = state.phase
  BY <1>1, <1>4
<1>6. ASSUME state.phase = "files", NEW p \in present, p <= state'.cursor
      PROVE  p \in visited \cup {k}
  <2>1. CASE state'.cursor = state.cursor
    BY <1>6, <2>1 DEF IInv, Passed
  <2>2. CASE state.target = 0 /\ state'.cursor = k
    <3>1. CASE p <= state.cursor
      BY <1>6, <3>1 DEF IInv, Passed
    <3>2. CASE state.cursor < p
      <4>1. p \in r.keys
        BY <1>1, <1>6, <2>2, <3>2 DEF KnowsGap
      <4>2. k <= p /\ p <= k /\ k \in Nat /\ p \in Nat
        BY <1>1, <1>2, <1>6, <2>2, <4>1
      <4> QED BY <4>2
    <3>3. p \in Nat /\ state.cursor \in Nat
      BY <1>1, <1>2, <1>3, CursorIsNatural
    <3> QED BY <3>1, <3>2, <3>3
  <2> QED BY <1>4, <2>1, <2>2
<1>7. Passed'
  BY <1>5, <1>6 DEF Passed
<1> QED BY <1>5, <1>7

--------------------------------------------------------------------------
\* Starting a cycle: the files of that moment are before a new cursor, and
\* every step that is under way has read an older state.
LEMMA StartCycleKeeps ==
  ASSUME IInv, NEW s \in Scrubbers, StartCycle(s)
  PROVE  IInv'
<1>1. /\ state \in State /\ state.cycle \in Nat /\ files \subseteq Keys
      /\ steps \in [Scrubbers -> Step] /\ steps[s].at = "idle"
  BY DEF IInv, TypeOK, State, StartCycle
<1>2. state' = [state EXCEPT !.phase = "files", !.cursor = 0,
                             !.cycle = state.cycle + 1]
  BY DEF StartCycle
<1>3. /\ state' \in State /\ state'.cycle = state.cycle + 1
      /\ state'.cursor = 0
  <2>1. state.cycle + 1 \in Nat
    BY <1>1
  <2>2. \A c \in Nat : [state EXCEPT !.phase = "files", !.cursor = 0,
                                     !.cycle = c] \in State
    BY <1>1 DEF State
  <2>3. \A c \in Nat : LET q == [state EXCEPT !.phase = "files", !.cursor = 0,
                                               !.cycle = c]
                       IN q.cycle = c /\ q.cursor = 0
    BY <1>1 DEF State
  <2> QED BY <1>2, <2>1, <2>2, <2>3
<1>4. steps' = [steps EXCEPT ![s].at = "due"] /\ steps' \in [Scrubbers -> Step]
  BY <1>1 DEF StartCycle, Step
<1>5. TypeOK'
  BY <1>3, <1>4 DEF IInv, TypeOK, StartCycle
<1>6. Passed'
  <2>1. \A k \in Keys : k \in Nat /\ k # 0
    BY ScrubAssumption
  <2>2. \A k \in present' : ~(k <= 0)
    BY <1>1, <2>1 DEF StartCycle
  <2> QED BY <1>3, <2>2 DEF Passed
<1>7. ASSUME NEW t \in Scrubbers
      PROVE  Knows(steps'[t], state', present')
  <2>1. steps[t] \in Step /\ Knows(steps[t], state, present)
    BY <1>1 DEF IInv, StepsKnow
  <2>2. steps'[t] \in Step /\ Knows(steps'[t], state, present)
    BY <1>1, <1>4, <2>1 DEF Knows, KnowsGap, KnowsKeys, Step
  <2>3. state.cycle <= state'.cycle /\ state'.cycle # state.cycle
    BY <1>1, <1>3
  <2> QED BY <1>1, <1>3, <2>2, <2>3, KnowledgeStays
<1> QED BY <1>5, <1>6, <1>7 DEF IInv, StepsKnow

\* A step that begins lists every file after the cursor up to its last key.
LEMMA BeginStepKeeps ==
  ASSUME IInv, NEW s \in Scrubbers, BeginStep(s)
  PROVE  IInv'
<1> DEFINE r == [at |-> IF Listed(state) = {} THEN "empty" ELSE "first",
                 read |-> state, keys |-> Listed(state)]
<1>1. /\ state \in State /\ files \subseteq Keys /\ present \subseteq files
      /\ steps \in [Scrubbers -> Step]
  BY DEF IInv, TypeOK
<1>2. /\ Listed(state) \subseteq Keys
      /\ \A j \in Listed(state) :
           IF state.target # 0 THEN j = state.target ELSE state.cursor < j
      /\ \A k \in files, j \in Listed(state) :
           state.target = 0 /\ state.cursor < k /\ k <= j => k \in Listed(state)
      /\ Listed(state) = {} =>
           state.target = 0 /\ \A k \in files : k <= state.cursor
  BY <1>1, ListedHasNoGap
<1>3. r \in Step
  BY <1>1, <1>2 DEF Step
<1>4. state.cycle <= state.cycle
  BY <1>1 DEF State
<1>5. Knows(r, state, present)
  BY <1>1, <1>2, <1>4 DEF Knows, KnowsGap, KnowsKeys
<1>6. steps' = [steps EXCEPT ![s] = r]
  BY DEF BeginStep
<1> HIDE DEF r
<1>7. TypeOK'
  BY <1>3, <1>6 DEF IInv, TypeOK, BeginStep
<1>8. Passed'
  BY DEF IInv, Passed, BeginStep
<1>9. StepsKnow'
  BY <1>1, <1>5, <1>6 DEF IInv, StepsKnow, BeginStep
<1> QED BY <1>7, <1>8, <1>9 DEF IInv

\* Examining a key moves the cursor to it, or answers the request for it.
LEMMA ExamineKeeps ==
  ASSUME IInv, NEW s \in Scrubbers, NEW k \in Keys, NEW status \in Statuses,
         Examine(s, k, status)
  PROVE  IInv'
<1> DEFINE q == Saved(state, k, status)
           r == [steps[s] EXCEPT !.at = "more", !.read = q, !.keys = @ \ {k}]
<1>1. /\ steps \in [Scrubbers -> Step] /\ steps[s] \in Step /\ state \in State
      /\ Knows(steps[s], state, present)
      /\ present \subseteq files /\ files \subseteq Keys /\ pinned \subseteq files
  BY DEF IInv, TypeOK, StepsKnow
<1>2. /\ k \in steps[s].keys /\ \A j \in steps[s].keys : k <= j
      /\ Known(s) /\ Verdict(k, status) /\ k \notin pinned
      /\ steps[s].read = state /\ state' = q
      /\ present' = present \cap files' /\ visited' = visited \cup {k}
      /\ examined' = [key |-> k, status |-> status]
      /\ UNCHANGED <<pinned, budget>>
  BY DEF Examine, Known
<1>3. steps' = [steps EXCEPT ![s] = r]
  BY <1>1, <1>2 DEF Examine, Step
<1>4. /\ state' \in State
      /\ state'.cycle = state.cycle /\ state'.phase = state.phase
      /\ Passed'
  BY <1>2, ExaminedKeeps
<1>5. r \in Step /\ r.at = "more" /\ r.read = q /\ r.keys = steps[s].keys \ {k}
  BY <1>1, <1>2, <1>4 DEF Step
<1>6. files' \subseteq files /\ pinned' \subseteq files'
  BY <1>1, <1>2 DEF Verdict
<1>7. TypeOK'
  BY <1>1, <1>2, <1>3, <1>4, <1>5, <1>6 DEF IInv, TypeOK
<1>8. Knows(r, q, present')
  <2>1. steps[s].keys \subseteq Nat /\ Keys \subseteq Nat
    BY <1>1, ScrubAssumption DEF Step
  <2>2. CASE state.target # 0
    <3>1. r.keys = {}
      BY <1>1, <1>2, <1>5, <2>2 DEF Knows, KnowsKeys
    <3>2. q.cycle \in Nat /\ q.cycle <= q.cycle
      BY <1>2, <1>4 DEF State
    <3> QED BY <1>5, <3>1, <3>2 DEF Knows, KnowsGap, KnowsKeys
  <2>3. CASE state.target = 0
    <3>1. q.cursor = k /\ q.target = 0 /\ q.cycle = state.cycle
          /\ q.phase = state.phase /\ q.cycle <= q.cycle
      BY <1>1, <1>2, <1>4, <2>3 DEF Saved, State
    <3>2. state.cursor < k /\ state.cursor \in Nat
      BY <1>1, <1>2, <2>3, CursorIsNatural DEF Knows, KnowsKeys, State
    <3>3. \A j \in r.keys : q.cursor < j
      BY <1>2, <1>5, <2>1, <3>1
    <3>4. ASSUME state.phase = "files",
                 NEW p \in present', NEW j \in r.keys, k < p, p <= j
          PROVE  p \in r.keys
      <4>1. p \in Nat /\ state.cursor < p /\ p \in present /\ p # k
        BY <1>1, <1>2, <2>1, <3>2, <3>4
      <4> QED BY <1>1, <1>2, <1>5, <2>3, <3>4, <4>1 DEF Knows, KnowsGap
    <3> HIDE DEF q, r
    <3>5. KnowsGap(r, q, present')
      BY <1>5, <3>1, <3>4 DEF KnowsGap
    <3>6. KnowsKeys(r, q)
      BY <1>5, <3>1, <3>3 DEF KnowsKeys
    <3> QED BY <3>5, <3>6 DEF Knows
  <2> QED BY <2>2, <2>3
<1>9. ASSUME NEW t \in Scrubbers
      PROVE  Knows(steps'[t], state', present')
  <2>1. CASE t = s
    BY <1>1, <1>2, <1>3, <1>8, <2>1
  <2>2. CASE t # s
    <3>1. /\ steps'[t] = steps[t] /\ steps[t] \in Step
          /\ Knows(steps[t], state, present)
      BY <1>1, <1>3, <2>2 DEF IInv, StepsKnow
    <3>2. state.cycle <= state'.cycle /\ present' \subseteq present
      BY <1>1, <1>2, <1>4 DEF State
    <3> QED BY <1>1, <1>4, <3>1, <3>2, KnowledgeStays
  <2> QED BY <2>1, <2>2
<1> QED BY <1>4, <1>7, <1>9 DEF IInv, StepsKnow

\* A scrubber that is in no step knows what it has to.
LEMMA IdleKnows ==
  ASSUME NEW q \in State, NEW p
  PROVE  NoStep \in Step /\ Knows(NoStep, q, p)
<1>1. q.cycle \in Nat /\ 0 <= q.cycle
  BY DEF State
<1>2. NoStep \in Step /\ NoStep.read.cycle = 0
  BY DEF NoStep, NoState, Step, State, Statuses
<1>3. NoStep.keys = {} /\ NoStep.at = "idle"
  BY DEF NoStep
<1> QED BY <1>1, <1>2, <1>3 DEF Knows, KnowsGap, KnowsKeys

\* The other steps keep what they know, and one that ended is idle.
LEMMA OthersKnow ==
  ASSUME IInv, state' \in State,
         state'.cycle = state.cycle, present' \subseteq present,
         state'.phase = "files" => state.phase = "files",
         \A t \in Scrubbers : steps'[t] \in {steps[t], NoStep}
  PROVE  StepsKnow'
<1>1. state \in State /\ state.cycle <= state'.cycle
  BY DEF IInv, TypeOK, State
<1>2. ASSUME NEW t \in Scrubbers
      PROVE  Knows(steps'[t], state', present')
  <2>1. CASE steps'[t] = NoStep
    BY <2>1, IdleKnows
  <2>2. CASE steps'[t] = steps[t]
    <3>1. steps[t] \in Step /\ Knows(steps[t], state, present)
      BY DEF IInv, TypeOK, StepsKnow
    <3> QED BY <1>1, <2>2, <3>1, KnowledgeStays
  <2> QED BY <2>1, <2>2
<1> QED BY <1>2 DEF StepsKnow

\* A step that fails leaves the state as it was, or as after its key.
LEMMA StepFailsKeeps ==
  ASSUME IInv, NEW s \in Scrubbers, StepFails(s)
  PROVE  IInv'
<1>1. /\ steps \in [Scrubbers -> Step] /\ steps[s] \in Step /\ state \in State
      /\ present \subseteq files /\ files \subseteq Keys /\ pinned \subseteq files
  BY DEF IInv, TypeOK
<1>2. /\ steps' = [steps EXCEPT ![s] = NoStep]
      /\ budget' \in [requests : Nat, changes : Nat, failures : Nat]
      /\ pinned' = pinned
  BY DEF IInv, TypeOK, StepFails
<1>3. \A t \in Scrubbers : steps'[t] \in {steps[t], NoStep}
  BY <1>1, <1>2
<1>4. steps' \in [Scrubbers -> Step]
  BY <1>1, <1>2, IdleKnows
<1>5. CASE UNCHANGED <<files, state, present, visited, examined>>
  <2>1. TypeOK'
    BY <1>2, <1>4, <1>5 DEF IInv, TypeOK
  <2>2. Passed'
    BY <1>5 DEF IInv, Passed
  <2>3. StepsKnow'
    BY <1>1, <1>3, <1>5, OthersKnow
  <2> QED BY <2>1, <2>2, <2>3 DEF IInv
<1>6. CASE \E k \in steps[s].keys, status \in Statuses \ {"none"} :
             /\ \A j \in steps[s].keys : k <= j
             /\ Known(s)
             /\ k \notin pinned
             /\ Verdict(k, status)
             /\ state' \in {state, Saved(state, k, status)}
             /\ present' = present \cap files'
             /\ visited' = visited \cup {k}
             /\ examined' = [key |-> k, status |-> status]
  <2>1. PICK k \in steps[s].keys, status \in Statuses \ {"none"} :
             /\ \A j \in steps[s].keys : k <= j
             /\ Known(s)
             /\ k \notin pinned
             /\ Verdict(k, status)
             /\ state' \in {state, Saved(state, k, status)}
             /\ present' = present \cap files'
             /\ visited' = visited \cup {k}
             /\ examined' = [key |-> k, status |-> status]
    BY <1>6
  <2>2. /\ state' \in State
        /\ state'.cycle = state.cycle /\ state'.phase = state.phase
        /\ Passed'
    BY <2>1, ExaminedKeeps
  <2>3. k \in Keys /\ files' \subseteq files /\ pinned' \subseteq files'
    BY <1>1, <1>2, <2>1 DEF Verdict, Step
  <2>4. TypeOK'
    BY <1>1, <1>2, <1>4, <2>1, <2>2, <2>3 DEF IInv, TypeOK
  <2>5. StepsKnow'
    BY <1>3, <2>1, <2>2, OthersKnow
  <2> QED BY <2>2, <2>4, <2>5 DEF IInv
<1> QED BY <1>5, <1>6 DEF StepFails

\* The steps that end, and the rest of the store, only take files away from
\* the lasting ones.
LEMMA QuietKeeps ==
  ASSUME IInv, TypeOK',
         state'.cycle = state.cycle, state'.cursor = state.cursor,
         state'.phase = state.phase,
         present' \subseteq present, visited' = visited,
         \A t \in Scrubbers : steps'[t] \in {steps[t], NoStep}
  PROVE  IInv'
<1>1. Passed'
  BY DEF IInv, Passed
<1>2. StepsKnow'
  BY OthersKnow DEF TypeOK
<1> QED BY <1>1, <1>2 DEF IInv

\* Every step keeps the invariant.
LEMMA NextKeeps == IInv /\ [Next]_vars => IInv'
<1> SUFFICES ASSUME IInv, [Next]_vars
             PROVE  IInv'
  OBVIOUS
<1>a. /\ steps \in [Scrubbers -> Step] /\ state \in State /\ files \subseteq Keys
      /\ pinned \subseteq files /\ present \subseteq files
      /\ NoStep \in Step
  BY IdleKnows DEF IInv, TypeOK
<1>1. CASE \E s \in Scrubbers : StartCycle(s)
  BY <1>1, StartCycleKeeps
<1>2. ASSUME NEW s \in Scrubbers, Poll(s)
      PROVE  IInv'
  <2>1. steps' = [steps EXCEPT ![s].at = "due"] /\ steps' \in [Scrubbers -> Step]
    BY <1>a, <1>2 DEF Poll, Step
  <2>2. TypeOK'
    BY <1>2, <2>1 DEF IInv, TypeOK, Poll
  <2>3. Passed'
    BY <1>2 DEF IInv, Passed, Poll
  <2>4. \A t \in Scrubbers : steps[t] \in Step /\ Knows(steps[t], state, present)
    BY <1>a DEF IInv, StepsKnow
  <2>5. \A t \in Scrubbers : Knows(steps'[t], state, present)
    BY <1>a, <1>2, <2>1, <2>4 DEF Poll, Knows, KnowsGap, KnowsKeys, Step
  <2>6. StepsKnow'
    BY <1>2, <2>5 DEF StepsKnow, Poll
  <2> QED BY <2>2, <2>3, <2>6 DEF IInv
<1>3. CASE \E s \in Scrubbers : BeginStep(s)
  BY <1>3, BeginStepKeeps
<1>4. CASE \E s \in Scrubbers, k \in Keys, status \in Statuses :
             Examine(s, k, status)
  BY <1>4, ExamineKeeps
<1>5. ASSUME NEW s \in Scrubbers, EndStep(s)
      PROVE  IInv'
  <2>1. TypeOK'
    BY <1>a, <1>5 DEF IInv, TypeOK, EndStep
  <2> QED BY <1>a, <1>5, <2>1, QuietKeeps DEF EndStep
<1>6. ASSUME NEW s \in Scrubbers, EndCycle(s)
      PROVE  IInv'
  <2>1. /\ state' \in State /\ state'.cycle = state.cycle
        /\ state' = state \/ state'.phase = "idle"
    BY <1>a, <1>6 DEF EndCycle, State
  <2>2. /\ \A t \in Scrubbers : steps'[t] \in {steps[t], NoStep}
        /\ present' = present /\ visited' = visited
    BY <1>a, <1>6 DEF EndCycle
  <2>3. TypeOK'
    BY <1>a, <1>6, <2>1 DEF IInv, TypeOK, EndCycle
  <2>4. Passed'
    BY <2>1, <2>2 DEF IInv, Passed
  <2>5. StepsKnow'
    BY <2>1, <2>2, OthersKnow
  <2> QED BY <2>3, <2>4, <2>5 DEF IInv
<1>7. CASE \E s \in Scrubbers : StepFails(s)
  BY <1>7, StepFailsKeeps
<1>8. ASSUME NEW k \in Keys, Request(k)
      PROVE  IInv'
  <2>1. /\ state' \in State /\ state'.cycle = state.cycle
        /\ state'.cursor = state.cursor /\ state'.phase = state.phase
    BY <1>a, <1>8 DEF Request, State, Statuses
  <2>2. TypeOK'
    BY <1>8, <2>1 DEF IInv, TypeOK, Request
  <2> QED BY <1>8, <2>1, <2>2, QuietKeeps DEF Request
<1>9. ASSUME NEW k \in Keys, Publish(k) \/ Remove(k) \/ Pin(k) \/ Unpin(k)
      PROVE  IInv'
  <2>1. TypeOK'
    BY <1>9 DEF IInv, TypeOK, Publish, Remove, Pin, Unpin, Change
  <2> QED BY <1>9, <2>1, QuietKeeps DEF Publish, Remove, Pin, Unpin, Change
<1>10. CASE UNCHANGED vars
  <2>1. TypeOK'
    BY <1>10 DEF IInv, TypeOK, vars
  <2> QED BY <1>10, <2>1, QuietKeeps DEF vars
<1> QED BY <1>1, <1>2, <1>3, <1>4, <1>5, <1>6, <1>7, <1>8, <1>9, <1>10
        DEF Next, Scrub

--------------------------------------------------------------------------
\* Four things change the state: a cycle starts or ends, a request comes, or
\* a scrubber that knows the state saves it after a key.
Saves(s, k, status) ==
  /\ k \in steps[s].keys
  /\ Known(s)
  /\ state' = Saved(state, k, status)
  /\ examined' = [key |-> k, status |-> status]

\* No other step changes it.
LEMMA WhoSaves ==
  ASSUME IInv, Next, state' # state
  PROVE  \/ \E s \in Scrubbers : StartCycle(s)
         \/ \E s \in Scrubbers : EndCycle(s)
         \/ \E k \in Keys : Request(k)
         \/ \E s \in Scrubbers, k \in Keys, status \in Statuses :
              Saves(s, k, status)
<1>1. ASSUME NEW s \in Scrubbers, NEW k \in Keys, NEW status \in Statuses,
             Examine(s, k, status)
      PROVE  Saves(s, k, status)
  BY <1>1 DEF Examine, Known, Saves
<1>2. ASSUME NEW s \in Scrubbers, StepFails(s)
      PROVE  \E k \in Keys, status \in Statuses : Saves(s, k, status)
  <2>1. PICK k \in steps[s].keys, status \in Statuses :
          /\ Known(s) /\ state' = Saved(state, k, status)
          /\ examined' = [key |-> k, status |-> status]
    BY <1>2 DEF StepFails
  <2>2. k \in Keys
    BY DEF IInv, TypeOK, Step
  <2> QED BY <2>1, <2>2 DEF Saves
<1> QED BY <1>1, <1>2
        DEF Next, Scrub, Poll, BeginStep, EndStep, Publish, Remove, Pin,
            Unpin, Change

\* The scrub's state and steps keep their types.
THEOREM TypeCorrect == Spec => []TypeOK
<1>1. IInv => TypeOK
  BY DEF IInv
<1> QED BY <1>1, InitHolds, NextKeeps, PTL DEF Spec

\* No cycle ends before every file that lasted was examined, for any number of
\* scrubbers and whatever breaks their steps off.
THEOREM CyclesVisitAll == Spec => CycleVisitsAll
<1>1. IInv /\ [Next]_vars =>
        [(state.phase = "files" /\ state'.phase = "idle")
            => present \subseteq visited]_vars
  <2> SUFFICES ASSUME IInv, Next, state.phase = "files", state'.phase = "idle"
               PROVE  present \subseteq visited
    BY DEF vars
  <2>1. PICK s \in Scrubbers : EndCycle(s)
    <3>1. state \in State
      BY DEF IInv, TypeOK
    <3>2. \A s \in Scrubbers, k \in Keys, status \in Statuses :
             Saves(s, k, status) => state'.phase = state.phase
      BY <3>1 DEF Saves, Saved, State
    <3>3. \A k \in Keys : Request(k) => state'.phase = state.phase
      BY <3>1 DEF Request, State
    <3>4. \A s \in Scrubbers : ~StartCycle(s)
      BY DEF StartCycle
    <3> QED BY <3>2, <3>3, <3>4, WhoSaves
  <2>2. /\ steps[s].at = "empty" /\ steps[s].read = state
        /\ Knows(steps[s], state, present) /\ present \subseteq Keys
    BY <2>1 DEF EndCycle, Known, IInv, TypeOK, StepsKnow
  <2>3. \A k \in present : k <= state.cursor
    BY <2>2 DEF Knows, KnowsGap
  <2> QED BY <2>3 DEF IInv, Passed
<1> QED BY <1>1, InitHolds, NextKeeps, PTL DEF Spec, CycleVisitsAll

\* A request is given up only for the answer found at its own key.
THEOREM RequestsAlwaysAnswered == Spec => RequestsAnswered
<1>1. IInv /\ [Next]_vars =>
        [(state.target # 0 /\ state'.target # state.target)
           => /\ state'.target = 0
              /\ examined'.key = state.target
              /\ state'.status = examined'.status]_vars
  <2> SUFFICES ASSUME IInv, Next,
                      state.target # 0, state'.target # state.target
               PROVE  /\ state'.target = 0
                      /\ examined'.key = state.target
                      /\ state'.status = examined'.status
    BY DEF vars
  <2>1. state \in State
    BY DEF IInv, TypeOK
  <2>2. PICK s \in Scrubbers, k \in Keys, status \in Statuses :
          Saves(s, k, status)
    <3>1. \A t \in Scrubbers : ~StartCycle(t) /\ ~EndCycle(t)
      BY <2>1 DEF StartCycle, EndCycle, State
    <3>2. \A j \in Keys : ~Request(j)
      BY DEF Request
    <3> QED BY <3>1, <3>2, WhoSaves
  <2>3. k = state.target
    BY <2>2 DEF Saves, IInv, StepsKnow, Knows, KnowsKeys, Known
  <2> QED BY <2>1, <2>2, <2>3 DEF Saves, Saved, State
<1> QED BY <1>1, InitHolds, NextKeeps, PTL DEF Spec, RequestsAnswered
==========================================================================
