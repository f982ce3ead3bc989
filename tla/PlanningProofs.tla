-------------------------- MODULE PlanningProofs --------------------------
(***************************************************************************)
(* Theorems about the planning of restores and stores, for any requests,   *)
(* pages, chunk and bounds.                                                *)
(***************************************************************************)
EXTENDS RequestPlanning, FiniteSetTheorems, WellFoundedInduction, TLAPS

---------------------------------------------------------------------------
(* The invariant.                                                          *)

\* What vLLM holds of a request: its pages, and the tokens it counts as
\* computed.
Table(r) == requests[r].table
Done(r) == requests[r].computed

\* The requests that hold pages.
Running == {r \in Requests : requests[r].status = "running"}

\* With t tokens page i is whole, or at least begun.
Whole(i, t) == i * Chunk <= t
Begun(i, t) == (i - 1) * Chunk < t

\* The types of a request and of a step, as TypeOK has them.
RequestRecord ==
  [status : {"absent", "waiting", "running", "preempted", "finished"},
   option : {"both"} \cup UNION Range(Options), computed : Nat, known : Nat,
   table : Seq(Pages)]

StepRecord ==
  [new : SUBSET Requests, cached : SUBSET Requests, resumed : SUBSET Requests,
   finished : SUBSET Requests, tokens : [Requests -> Nat], added : [Requests -> Seq(Pages)]]

\* A step schedules running requests only, and reports as finished only
\* those that are.
StepOK ==
  /\ phase \in {"schedule", "worker"}
  /\ step \in StepRecord
  /\ step.resumed \subseteq step.cached
  /\ step.new \cap step.cached = {}
  /\ Scheduled \subseteq Running
  /\ \A r \in Requests \ Scheduled : step.tokens[r] = 0
  /\ \A r \in step.finished : requests[r].status = "finished"

\* No page is twice in the table.
Distinct(table) == \A i, j \in 1 .. Len(table) : table[i] = table[j] => i = j

\* A request has pages while it runs: all that its computed and its scheduled
\* tokens need, each once.
Tables ==
  \A r \in Requests :
    /\ requests[r].status # "running" => Table(r) = <<>>
    /\ requests[r].status = "running" => Len(Table(r)) = PagesFor(Done(r) + step.tokens[r])
    /\ Distinct(Table(r))

\* The plans and the tables that the connector keeps are those of vLLM.
LoadsKnown ==
  /\ \A r \in Requests : pending_loads[r] # None =>
       /\ phase = "schedule" /\ r \in Scheduled
       /\ pending_loads[r].table = Table(r)
       /\ pending_loads[r].span <= Done(r)
       /\ Cached(r, pending_loads[r].span)
  /\ \A l \in metadata.loads :
       /\ l.request \in Scheduled
       /\ l.table = Table(l.request)
       /\ l.span <= Done(l.request)
       /\ Cached(l.request, l.span)

StoresKnown ==
  \A s \in metadata.stores :
    /\ s.request \in Scheduled
    /\ s.table = Table(s.request)
    /\ s.span <= Done(s.request)
    /\ ExactBoundary => s.span = Done(s.request)

ProgressKnown ==
  \A r \in Requests :
    /\ r \in step.new \cup step.resumed => step.added[r] = Table(r)
    /\ progress[r] # None =>
         /\ phase = "schedule" => r \notin step.new
         /\ phase = "schedule" /\ r \in step.cached \ step.resumed =>
              progress[r].table \o step.added[r] = Table(r)
         /\ (r \in Running /\ (phase = "worker" \/ r \notin Scheduled)) =>
              progress[r].table = Table(r)

\* Metadata exists between the scheduler's half of a step and the end of
\* the worker's, and a request that is reported finished is forgotten in
\* between.
Turns ==
  /\ phase = "schedule" => metadata = [loads |-> {}, stores |-> {}]
  /\ phase = "worker" => \A r \in step.finished : need_load[r] = None /\ progress[r] = None

\* The pending restores stay within the budget, and no step has raised for
\* it.
Budget ==
  /\ IsFiniteSet(Active)
  /\ Cardinality(Active) <= MaxPendingRestores
  /\ Cardinality(metadata.loads) <= MaxPendingRestores
  /\ ~raised

\* Page i of r is one that the restores of this step write.
Due(r, i) ==
  \/ Whole(i, pending_loads[r].span)
  \/ \E l \in metadata.loads : l.request = r /\ Whole(i, l.span)

\* The page that the computation of r has come to.
Partial(r, i) == [text |-> Text(r, i), tokens |-> Done(r) - (i - 1) * Chunk]

\* A full page in a table is the page of the text that its request has computed
\* there; what is computed and not in its page is restored in this step; and the
\* page that the computation has come to holds what it should.
PageOK(r, i) ==
  /\ content[Table(r)[i]].tokens = Chunk =>
       content[Table(r)[i]] = Full(r, i) /\ Whole(i, Done(r))
  /\ Whole(i, Done(r)) => content[Table(r)[i]].tokens = Chunk \/ Due(r, i)
  /\ Begun(i, Done(r)) /\ ~Whole(i, Done(r)) => content[Table(r)[i]] = Partial(r, i)

PagesRight ==
  \A r \in Requests : \A i \in 1 .. Len(Table(r)) : PageOK(r, i)

\* Only full pages are shared.
SharedFull ==
  \A r, q \in Requests : r # q =>
    \A i \in 1 .. Len(Table(r)), j \in 1 .. Len(Table(q)) :
      Table(r)[i] = Table(q)[j] => content[Table(r)[i]].tokens = Chunk

IInv ==
  /\ TypeOK /\ StepOK /\ Tables /\ LoadsKnown /\ StoresKnown /\ ProgressKnown /\ Turns
  /\ Budget /\ PagesRight /\ SharedFull /\ StoresRight /\ BudgetReturns

---------------------------------------------------------------------------
(* Chunks and tokens.                                                      *)

\* A chunk has at least one token.
LEMMA ChunkIs == Chunk \in Nat /\ Chunk >= 1
  BY PlanningAssumption

\* Multiples of the chunk are ordered as their factors.
LEMMA Multiples ==
  ASSUME NEW a \in Int, NEW b \in Int
  PROVE  /\ a * Chunk \in Int /\ b * Chunk \in Int
         /\ a <= b <=> a * Chunk <= b * Chunk
         /\ a < b <=> a * Chunk + Chunk <= b * Chunk
         /\ (a + 1) * Chunk = a * Chunk + Chunk
         /\ (a - 1) * Chunk = a * Chunk - Chunk
<1>1. Chunk \in Int /\ Chunk >= 1
  BY ChunkIs
<1> DEFINE c == Chunk
<1>2. c \in Int /\ c >= 1
  BY <1>1
<1> HIDE DEF c
<1>3. a * c \in Int /\ b * c \in Int
  BY <1>2
<1>4. ASSUME a < b  PROVE a * c + c <= b * c
  <2>1. PICK d \in Int : b = a + 1 + d /\ d >= 0
    <3>1. b - a - 1 \in Int /\ b = a + 1 + (b - a - 1) /\ b - a - 1 >= 0
      BY <1>4
    <3> QED  BY <3>1
  <2>2. b * c = a * c + c + d * c
    BY <2>1, <1>2
  <2>3. d * c >= 0
    BY <2>1, <1>2
  <2> QED  BY <2>2, <2>3, <2>1, <1>2, <1>3
<1>5. ASSUME b < a  PROVE b * c + c <= a * c
  <2>1. PICK d \in Int : a = b + 1 + d /\ d >= 0
    <3>1. a - b - 1 \in Int /\ a = b + 1 + (a - b - 1) /\ a - b - 1 >= 0
      BY <1>5
    <3> QED  BY <3>1
  <2>2. a * c = b * c + c + d * c
    BY <2>1, <1>2
  <2>3. d * c >= 0
    BY <2>1, <1>2
  <2> QED  BY <2>2, <2>3, <2>1, <1>2, <1>3
<1>6. a = b => a * c = b * c
  OBVIOUS
<1>7. (a + 1) * c = a * c + c /\ (a - 1) * c = a * c - c
  BY <1>2
<1>8. a < b \/ b < a \/ a = b
  OBVIOUS
<1>9. /\ a <= b <=> a * c <= b * c
      /\ a < b <=> a * c + c <= b * c
  BY <1>2, <1>3, <1>4, <1>5, <1>6, <1>8
<1> QED  BY <1>3, <1>7, <1>9 DEF c

\* The whole chunks in t tokens, and less than a chunk over.
LEMMA DivIs ==
  ASSUME NEW t \in Int
  PROVE  /\ t \div Chunk \in Int
         /\ (t \div Chunk) * Chunk <= t
         /\ t < (t \div Chunk) * Chunk + Chunk
         /\ t >= 0 => t \div Chunk >= 0
<1>1. Chunk \in Int /\ Chunk >= 1
  BY ChunkIs
<1> QED  BY <1>1

\* The chunks that are complete at t tokens, and the pages that they need.
LEMMA WholeChunks ==
  ASSUME NEW t \in Nat, NEW i \in Nat \ {0}
  PROVE  i <= t \div Chunk <=> i * Chunk <= t
<1> DEFINE q == t \div Chunk
<1>1. q \in Int /\ q * Chunk <= t /\ t < q * Chunk + Chunk
  BY DivIs
<1> HIDE DEF q
<1>i. i \in Int
  OBVIOUS
<1>2. i <= q <=> i * Chunk <= q * Chunk
  BY <1>1, <1>i, Multiples, Zenon
<1>3. q < i <=> q * Chunk + Chunk <= i * Chunk
  BY <1>1, <1>i, Multiples, Zenon
<1>4. i * Chunk \in Int /\ q * Chunk \in Int /\ Chunk \in Int
  BY <1>1, <1>i, ChunkIs
<1>5. i <= q <=> i * Chunk <= t
  BY <1>1, <1>2, <1>3, <1>4
<1> QED  BY <1>5 DEF q

\* PagesFor counts the pages that t tokens begin.
LEMMA PagesAre ==
  ASSUME NEW t \in Nat
  PROVE  /\ PagesFor(t) \in Nat
         /\ \A i \in Nat \ {0} : i <= PagesFor(t) <=> (i - 1) * Chunk < t
<1> DEFINE q == (t + Chunk - 1) \div Chunk
<1>0. Chunk \in Nat /\ Chunk >= 1 /\ t + Chunk - 1 \in Int /\ t + Chunk - 1 >= 0
  BY ChunkIs
<1>1. q \in Int /\ q * Chunk <= t + Chunk - 1 /\ t + Chunk - 1 < q * Chunk + Chunk /\ q >= 0
  BY <1>0, DivIs
<1>2. PagesFor(t) = q
  BY DEF PagesFor
<1> HIDE DEF q
<1>3. ASSUME NEW i \in Nat \ {0}
      PROVE  i <= q <=> (i - 1) * Chunk < t
  <2>i. i \in Int
    OBVIOUS
  <2>1. i <= q <=> i * Chunk <= q * Chunk
    BY <1>1, <2>i, Multiples, Zenon
  <2>2. q < i <=> q * Chunk + Chunk <= i * Chunk
    BY <1>1, <2>i, Multiples, Zenon
  <2>3. /\ i * Chunk \in Int /\ q * Chunk \in Int
        /\ (i - 1) * Chunk = i * Chunk - Chunk
    BY <1>1, <2>i, Multiples, Zenon
  <2> QED  BY <1>0, <1>1, <2>1, <2>2, <2>3
<1> QED  BY <1>1, <1>2, <1>3

\* Whole and begun pages, when the tokens grow and at a boundary.
LEMMA Positions ==
  ASSUME NEW i \in Nat \ {0}, NEW t \in Nat
  PROVE  /\ Whole(i, t) => Begun(i, t)
         /\ i <= PagesFor(t) <=> Begun(i, t)
         /\ i \in 1 .. (t \div Chunk) <=> Whole(i, t)
<1>1. Chunk \in Nat /\ Chunk >= 1 /\ i \in Int
  BY ChunkIs
<1>2. (i - 1) * Chunk = i * Chunk - Chunk /\ i * Chunk \in Int
  BY <1>1, Multiples, Zenon
<1>3. Whole(i, t) => Begun(i, t)
  BY <1>1, <1>2 DEF Whole, Begun
<1>4. i <= PagesFor(t) <=> Begun(i, t)
  BY PagesAre DEF Begun
<1>5. i <= t \div Chunk <=> Whole(i, t)
  BY WholeChunks DEF Whole
<1>6. t \div Chunk \in Int
  BY DivIs
<1>7. i \in 1 .. (t \div Chunk) <=> i <= t \div Chunk
  BY <1>6
<1> QED  BY <1>3, <1>4, <1>5, <1>7

\* More tokens leave no page less whole or less begun.
LEMMA PositionsGrow ==
  ASSUME NEW i \in Nat \ {0}, NEW t \in Nat, NEW u \in Nat, t <= u
  PROVE  (Whole(i, t) => Whole(i, u)) /\ (Begun(i, t) => Begun(i, u))
<1>1. i * Chunk \in Int /\ (i - 1) * Chunk \in Int
  BY ChunkIs
<1> QED  BY <1>1 DEF Whole, Begun

\* At a chunk boundary the pages begun are the whole ones.
LEMMA Boundary ==
  ASSUME NEW k \in Nat
  PROVE  /\ k * Chunk \in Nat
         /\ k > 0 => k * Chunk > 0
         /\ PagesFor(k * Chunk) = k
         /\ \A i \in Nat \ {0} : /\ Whole(i, k * Chunk) <=> i <= k
                                 /\ Begun(i, k * Chunk) <=> i <= k
<1>1. Chunk \in Nat /\ Chunk >= 1 /\ k \in Int
  BY ChunkIs
<1>2. k * Chunk \in Nat
  BY <1>1
<1>3. ASSUME NEW i \in Nat \ {0}
      PROVE  /\ Whole(i, k * Chunk) <=> i <= k
             /\ Begun(i, k * Chunk) <=> i <= k
  <2>1. i \in Int /\ i - 1 \in Int
    OBVIOUS
  <2>2. i <= k <=> i * Chunk <= k * Chunk
    BY <1>1, <2>1, Multiples, Zenon
  <2>3. i - 1 < k <=> (i - 1) * Chunk + Chunk <= k * Chunk
    BY <1>1, <2>1, Multiples, Zenon
  <2>4. k <= i - 1 <=> k * Chunk <= (i - 1) * Chunk
    BY <1>1, <2>1, Multiples, Zenon
  <2>5. (i - 1) * Chunk \in Int
    BY <2>1, <1>1
  <2>6. (i - 1) * Chunk < k * Chunk <=> i - 1 < k
    BY <1>1, <1>2, <2>1, <2>3, <2>4, <2>5
  <2> QED  BY <2>2, <2>6 DEF Whole, Begun
<1>4. PagesFor(k * Chunk) \in Nat
  BY <1>2, PagesAre
<1>5. \A i \in Nat \ {0} : i <= PagesFor(k * Chunk) <=> i <= k
  BY <1>2, <1>3, Positions
<1>6. PagesFor(k * Chunk) = k
  <2> DEFINE m == PagesFor(k * Chunk)
  <2>1. m \in Nat /\ \A i \in Nat \ {0} : i <= m <=> i <= k
    BY <1>4, <1>5
  <2> HIDE DEF m
  <2>2. m = 0 \/ m <= k
    BY <2>1
  <2>3. k = 0 \/ k <= m
    BY <2>1
  <2>4. m = k
    BY <2>1, <2>2, <2>3
  <2> QED  BY <2>4 DEF m
<1>7. k > 0 => k * Chunk > 0
  BY <1>1
<1> QED  BY <1>2, <1>3, <1>6, <1>7

\* The number of pages grows with the tokens.
LEMMA PagesGrow ==
  ASSUME NEW t \in Nat, NEW u \in Nat, t <= u
  PROVE  PagesFor(t) <= PagesFor(u)
<1>1. PagesFor(t) \in Nat /\ PagesFor(u) \in Nat
  BY PagesAre
<1>2. CASE PagesFor(t) # 0
  <2>1. PagesFor(t) \in Nat \ {0}
    BY <1>1, <1>2
  <2>2. Begun(PagesFor(t), t)
    BY <1>1, <2>1, Positions
  <2>3. Begun(PagesFor(t), u)
    BY <2>1, <2>2, PositionsGrow
  <2> QED  BY <2>1, <2>3, Positions
<1> QED  BY <1>1, <1>2

\* A finite set of numbers that is not empty has a greatest one.
LEMMA GreatestOf ==
  ASSUME NEW S \in SUBSET Nat, IsFiniteSet(S), S # {}
  PROVE  Max(S) \in S /\ \A x \in S : x <= Max(S)
<1> DEFINE Topped(T) == \E m \in T : \A x \in T : x <= m
           Bad == {T \in SUBSET S : T # {} /\ ~Topped(T)}
<1>1. Bad = {}
  <2> SUFFICES ASSUME Bad # {}  PROVE FALSE
    OBVIOUS
  <2>1. FiniteSubsetsOf(S) = SUBSET S
    BY FS_FiniteSubsetsOfFinite
  <2>2. IsWellFoundedOn(StrictSubsetOrdering(S), SUBSET S)
    BY <2>1, FS_StrictSubsetOrderingWellFounded
  <2>3. Bad \subseteq SUBSET S
    OBVIOUS
  <2> HIDE DEF Bad
  <2>4. PICK T \in Bad : \A U \in Bad : ~(<<U, T>> \in StrictSubsetOrdering(S))
    BY <2>2, <2>3, WFMin
  <2>5. T \in SUBSET S /\ T # {} /\ ~Topped(T)
    BY <2>4 DEF Bad
  <2>6. PICK x \in T : TRUE
    BY <2>5
  <2> DEFINE U == T \ {x}
  <2>7. U \in SUBSET S /\ <<U, T>> \in StrictSubsetOrdering(S)
    BY <2>5, <2>6 DEF StrictSubsetOrdering
  <2>8. U \notin Bad
    BY <2>4, <2>7
  <2>9. x \in Nat /\ \A y \in T : y \in Nat
    BY <2>5, <2>6
  <2>10. CASE U = {}
    <3>1. \A y \in T : y = x
      BY <2>10
    <3> QED  BY <2>5, <2>6, <2>9, <3>1
  <2>11. CASE U # {}
    <3>1. PICK m \in U : \A y \in U : y <= m
      BY <2>7, <2>8, <2>11 DEF Bad
    <3>2. m \in Nat /\ m \in T
      BY <2>9, <3>1
    <3>3. CASE x <= m
      BY <2>5, <2>9, <3>1, <3>2, <3>3
    <3>4. CASE m <= x
      <4>1. \A y \in T : y <= x
        BY <2>9, <3>1, <3>2, <3>4
      <4> QED  BY <2>5, <2>6, <4>1
    <3> QED  BY <2>9, <3>2, <3>3, <3>4
  <2> QED  BY <2>10, <2>11
<1>2. PICK m \in S : \A x \in S : x <= m
  BY <1>1
<1>3. \A x \in S : x \in Nat /\ m \in Nat /\ m >= x
  BY <1>2
<1>4. Max(S) \in S /\ \A y \in S : Max(S) >= y
  BY <1>3 DEF Max
<1> QED  BY <1>4

---------------------------------------------------------------------------
(* Spans.                                                                  *)

\* The tokens of the longest prompt.
Longest == Max(Range(Prompt))

\* No prompt is longer than the longest one.
LEMMA LongestIs ==
  ASSUME NEW r \in Requests
  PROVE  Longest \in Nat /\ Prompt[r] \in Nat /\ Prompt[r] >= 1 /\ Prompt[r] <= Longest
<1>1. Prompt \in [Requests -> Nat \ {0}] /\ IsFiniteSet(Requests)
  BY PlanningAssumption
<1>2. Range(Prompt) \subseteq Nat /\ Prompt[r] \in Range(Prompt)
  BY <1>1 DEF Range
<1>3. Prompt \in Surjection(Requests, Range(Prompt))
  BY <1>1 DEF Range, Surjection
<1>4. IsFiniteSet(Range(Prompt))
  BY <1>1, <1>3, FS_Surjection
<1>5. Longest \in Range(Prompt) /\ Prompt[r] <= Longest
  BY <1>2, <1>4, GreatestOf DEF Longest
<1> QED  BY <1>1, <1>2, <1>5

\* A span is a positive number of whole chunks of some prompt.
LEMMA SpanFacts ==
  ASSUME NEW r \in Requests, NEW s \in Spans
  PROVE  s \in Nat /\ s > 0 /\ s <= Longest /\ \E k \in Nat \ {0} : s = k * Chunk
<1>1. Longest \in Nat
  BY LongestIs
<1>2. PICK k \in 1 .. (Longest \div Chunk) : s = k * Chunk
  BY DEF Spans, Longest
<1>3. k \in Nat \ {0}
  OBVIOUS
<1>4. Whole(k, Longest)
  BY <1>1, <1>2, <1>3, Positions
<1>5. s \in Nat /\ s > 0
  BY <1>2, <1>3, Boundary
<1> QED  BY <1>2, <1>3, <1>4, <1>5 DEF Whole

\* Any whole number of chunks within the longest prompt is a span.
LEMMA SpanWithin ==
  ASSUME NEW r \in Requests, NEW k \in Nat \ {0}, k * Chunk <= Longest
  PROVE  k * Chunk \in Spans
<1>1. Longest \in Nat
  BY LongestIs
<1>2. k \in 1 .. (Longest \div Chunk)
  BY <1>1, Positions DEF Whole
<1> QED  BY <1>2 DEF Spans, Longest

\* What safe_store_span allows to store is a span.
LEMMA SafeStore ==
  ASSUME NEW r \in Requests, safe_store_span(r) > 0
  PROVE  safe_store_span(r) \in Spans
<1> DEFINE k == Prompt[r] \div Chunk
<1>1. Longest \in Nat /\ Prompt[r] \in Nat /\ Prompt[r] <= Longest
  BY LongestIs
<1>2. (Prompt[r] + 1) - 1 = Prompt[r]
  BY <1>1
<1>3. safe_store_span(r) = k * Chunk
  <2>1. safe_store_span(r) = (((Prompt[r] + 1) - 1) \div Chunk) * Chunk
    BY Zenon DEF safe_store_span, aligned_prefix_span
  <2> QED  BY <1>2, <2>1, Zenon
<1>4. k \in Int /\ k * Chunk <= Prompt[r] /\ k >= 0 /\ Chunk \in Nat
  BY <1>1, DivIs, ChunkIs
<1> HIDE DEF k
<1>5. k # 0
  BY <1>3, <1>4
<1>6. k \in Nat \ {0} /\ k * Chunk \in Int
  BY <1>4, <1>5
<1>7. k * Chunk <= Longest
  BY <1>1, <1>4, <1>6
<1> QED  BY <1>3, <1>6, <1>7, SpanWithin

\* What the connector selects has its whole chain, is longer than what vLLM has,
\* and is within the budget.
LEMMA SelectedIs ==
  ASSUME NEW r \in Requests, NEW c \in Nat, Selected(r, c) # 0
  PROVE  /\ Selected(r, c) \in Spans /\ Selected(r, c) \in Nat /\ c < Selected(r, c)
         /\ Cached(r, Selected(r, c))
         /\ r \in Active \/ ~(Cardinality(Active) >= MaxPendingRestores)
<1>1. Restorable(r, c) # {} /\ Selected(r, c) = Max(Restorable(r, c))
  BY DEF Selected
<1>2. r \in Active \/ ~(Cardinality(Active) >= MaxPendingRestores)
  BY DEF Selected
<1>3. Restorable(r, c) \subseteq Spans
  BY DEF Restorable
<1>4. Longest \in Nat /\ \A s \in Restorable(r, c) : s \in Nat /\ s <= Longest
  BY <1>3, LongestIs, SpanFacts
<1>5. Restorable(r, c) \in SUBSET Nat
  BY <1>4
<1>6. IsFiniteSet(Restorable(r, c))
  BY <1>4, <1>5, FS_BoundedSetOfNaturals
<1>7. Selected(r, c) \in Restorable(r, c)
  BY <1>1, <1>5, <1>6, GreatestOf
<1> QED  BY <1>2, <1>3, <1>5, <1>7 DEF Restorable, Cached

\* The tokens offered to vLLM are those beyond its own, up to the selected span.
LEMMA ExternalIs ==
  ASSUME NEW r \in Requests, NEW c \in Nat
  PROVE  /\ External(r, c) \in Nat
         /\ External(r, c) # 0 => Selected(r, c) # 0 /\ c + External(r, c) = Selected(r, c)
         /\ Selected(r, c) # 0 => External(r, c) # 0
<1>1. CASE Selected(r, c) = 0
  BY <1>1 DEF External, Most
<1>2. CASE Selected(r, c) # 0
  <2>1. Selected(r, c) \in Nat /\ c < Selected(r, c)
    BY <1>2, SelectedIs
  <2> QED  BY <1>2, <2>1 DEF External, Most
<1> QED  BY <1>1, <1>2

\* The hit that is remembered is the one that was just offered.
LEMMA MatchedIs ==
  ASSUME NEW r \in Requests, NEW c \in Nat, External(r, c) # 0
  PROVE  /\ Matched(r, c) = [span |-> Selected(r, c), external |-> External(r, c)]
         /\ Matched(r, c) # None
<1>1. Selected(r, c) # 0
  BY ExternalIs
<1>2. Matched(r, c) = [span |-> Selected(r, c), external |-> External(r, c)]
  BY <1>1 DEF Matched
<1>3. Matched(r, c).span # 0 /\ None.span = 0
  BY <1>1, <1>2 DEF None
<1> QED  BY <1>2, <1>3

\* Where a store may be made: at a boundary that has been reached.
LEMMA PreForwardIs ==
  ASSUME NEW r \in Requests, NEW before \in Nat, NEW tokens \in Nat, NEW target \in Spans,
         pre_forward_store_span(before, tokens, target) > 0
  PROVE  /\ pre_forward_store_span(before, tokens, target) \in Spans
         /\ pre_forward_store_span(before, tokens, target) <= before
         /\ ExactBoundary => pre_forward_store_span(before, tokens, target) = before
<1> DEFINE x == pre_forward_store_span(before, tokens, target)
           k == before \div Chunk
<1>1. target \in Nat /\ target > 0 /\ target <= Longest /\ Longest \in Nat
  BY SpanFacts, LongestIs
<1>2. CASE before = target
  BY <1>1, <1>2 DEF pre_forward_store_span
<1>3. CASE before # target
  <2>1. before < target /\ ~ExactBoundary /\ x = k * Chunk
    BY <1>1, <1>3 DEF pre_forward_store_span, Unreached
  <2>2. k \in Int /\ k >= 0 /\ k * Chunk <= before /\ Chunk \in Nat
    BY DivIs, ChunkIs
  <2> HIDE DEF k, x
  <2>3. x > 0
    BY DEF x
  <2>4. k # 0
    BY <2>1, <2>2, <2>3
  <2>5. k \in Nat \ {0} /\ k * Chunk \in Int
    BY <2>2, <2>4
  <2>6. k * Chunk <= Longest
    BY <1>1, <2>1, <2>2, <2>5
  <2>7. k * Chunk \in Spans
    BY <2>5, <2>6, SpanWithin
  <2>8. x \in Spans /\ x <= before /\ ~ExactBoundary
    BY <2>1, <2>2, <2>7
  <2> QED  BY <2>8 DEF x
<1> QED  BY <1>2, <1>3

---------------------------------------------------------------------------
(* Pages.                                                                  *)

\* A page's text says its place.
LEMMA TextPlace ==
  ASSUME NEW r \in Requests, NEW i \in Nat, NEW j \in Nat, Full(r, i) = Full(r, j)
  PROVE  i = j
<1>1. Text(r, i) = Text(r, j)
  BY DEF Full
<1>2. Text(r, i)[2] = i /\ Text(r, j)[2] = j
  BY DEF Text
<1> QED  BY <1>1, <1>2

\* A full page is full, and junk is not.
LEMMA FullIs ==
  ASSUME NEW r, NEW i
  PROVE  Full(r, i).tokens = Chunk /\ Junk.tokens = 0 /\ Junk.tokens # Chunk
  BY ChunkIs DEF Full, Junk

\* A table of distinct pages is no longer than the pool.
LEMMA TableFits ==
  ASSUME NEW table \in Seq(Pages), Distinct(table)
  PROVE  Len(table) <= Cardinality(Pages) /\ Cardinality(Pages) \in Nat
<1>1. IsFiniteSet(Pages)
  BY PlanningAssumption
<1>2. Len(table) \in Nat /\ table \in [1 .. Len(table) -> Pages]
  OBVIOUS
<1>3. table \in Injection(1 .. Len(table), Pages)
  BY <1>2 DEF Injection, IsInjective, Distinct
<1>4. Cardinality(1 .. Len(table)) <= Cardinality(Pages)
  BY <1>1, <1>3, FS_Injection
<1>5. Cardinality(1 .. Len(table)) = Len(table)
  BY <1>2, FS_Interval
<1> QED  BY <1>1, <1>4, <1>5, FS_CardinalityType

\* Fresh pages are in no table, and each is there once.
LEMMA FreshIs ==
  ASSUME NEW n \in Nat, NEW used, NEW fresh \in Fresh(n, used)
  PROVE  /\ fresh \in Seq(Pages) /\ Len(fresh) = n /\ Distinct(fresh)
         /\ \A i \in 1 .. n : fresh[i] \in Pages /\ fresh[i] \in Free /\ fresh[i] \notin used
<1> DEFINE free == Free \ used
<1>1. /\ fresh \in [1 .. n -> free]
      /\ \A i \in 1 .. n : Cardinality({p \in free : p <= fresh[i]}) = i
  BY DEF Fresh
<1>2. free \subseteq Pages
  BY DEF Free
<1>3. fresh \in Seq(Pages) /\ Len(fresh) = n
  <2> HIDE DEF free
  <2>1. fresh \in [1 .. n -> Pages]
    BY <1>1, <1>2
  <2> QED  BY <2>1
<1>4. Distinct(fresh)
  BY <1>1, <1>3 DEF Distinct
<1> QED  BY <1>1, <1>2, <1>3, <1>4

\* A local prefix hit is n distinct full pages of the text of the request.
LEMMA HitIs ==
  ASSUME NEW r \in Requests, NEW n \in Nat, NEW hit \in LocalHits(r, n)
  PROVE  /\ hit \in Seq(Pages) /\ Len(hit) = n /\ Distinct(hit)
         /\ \A i \in 1 .. n : hit[i] \in Pages /\ content[hit[i]] = Full(r, i)
<1>1. hit \in [1 .. n -> Pages] /\ \A i \in 1 .. n : content[hit[i]] = Full(r, i)
  BY DEF LocalHits
<1>2. hit \in Seq(Pages) /\ Len(hit) = n
  BY <1>1
<1>3. Distinct(hit)
  <2> SUFFICES ASSUME NEW i \in 1 .. n, NEW j \in 1 .. n, hit[i] = hit[j]
               PROVE  i = j
    BY <1>2 DEF Distinct
  <2>1. Full(r, i) = Full(r, j)
    BY <1>1
  <2> QED  BY <2>1, TextPlace
<1> QED  BY <1>1, <1>2, <1>3

\* A table that grows by pages that are not in it.
LEMMA Grown ==
  ASSUME NEW old \in Seq(Pages), NEW new \in Seq(Pages), Distinct(old), Distinct(new),
         \A i \in 1 .. Len(new) : \A j \in 1 .. Len(old) : new[i] # old[j]
  PROVE  /\ old \o new \in Seq(Pages) /\ Distinct(old \o new)
         /\ Len(old \o new) = Len(old) + Len(new)
         /\ \A i \in 1 .. Len(old) : (old \o new)[i] = old[i]
         /\ \A i \in Len(old) + 1 .. Len(old) + Len(new) :
              (old \o new)[i] = new[i - Len(old)]
<1> DEFINE m == Len(old)
           n == Len(new)
           t == old \o new
<1>1. m \in Nat /\ n \in Nat
  OBVIOUS
<1>2. /\ t \in Seq(Pages) /\ Len(t) = m + n
      /\ \A i \in 1 .. m + n : t[i] = IF i <= m THEN old[i] ELSE new[i - m]
  OBVIOUS
<1> HIDE DEF t, m, n
<1>3. \A i \in 1 .. m : t[i] = old[i]
  BY <1>1, <1>2
<1>4. \A i \in m + 1 .. m + n : t[i] = new[i - m] /\ i - m \in 1 .. n
  BY <1>1, <1>2
<1>5. ASSUME NEW i \in 1 .. m + n, NEW j \in 1 .. m + n, t[i] = t[j]
      PROVE  i = j
  <2>1. CASE i <= m /\ j <= m
    BY <1>1, <1>3, <1>5, <2>1 DEF Distinct, m
  <2>2. CASE i > m /\ j > m
    <3>1. i - m \in 1 .. n /\ j - m \in 1 .. n /\ new[i - m] = new[j - m]
      BY <1>1, <1>4, <1>5, <2>2
    <3>2. i - m = j - m
      BY <3>1 DEF Distinct, n
    <3> QED  BY <1>1, <3>2
  <2>3. CASE i <= m /\ j > m
    <3>1. j - m \in 1 .. n /\ new[j - m] = old[i] /\ i \in 1 .. m
      BY <1>1, <1>3, <1>4, <1>5, <2>3
    <3> QED  BY <3>1 DEF m, n
  <2>4. CASE i > m /\ j <= m
    <3>1. i - m \in 1 .. n /\ new[i - m] = old[j] /\ j \in 1 .. m
      BY <1>1, <1>3, <1>4, <1>5, <2>4
    <3> QED  BY <3>1 DEF m, n
  <2> QED  BY <1>1, <2>1, <2>2, <2>3, <2>4
<1>6. Distinct(t)
  BY <1>2, <1>5 DEF Distinct
<1> QED  BY <1>2, <1>3, <1>4, <1>6 DEF t, m, n

---------------------------------------------------------------------------
(* Steps that write no page.                                               *)

\* The types of a request that the proofs use.
LEMMA Typed ==
  ASSUME TypeOK, NEW r \in Requests
  PROVE  /\ Table(r) \in Seq(Pages) /\ Len(Table(r)) \in Nat
         /\ \A i \in 1 .. Len(Table(r)) : Table(r)[i] \in Pages
         /\ Done(r) \in Nat /\ requests[r].known \in Nat
<1>1. Table(r) \in Seq(Pages) /\ Done(r) \in Nat /\ requests[r].known \in Nat
  BY DEF TypeOK, Table, Done
<1> QED  BY <1>1

\* Pages stay right when no page is written and tables are at most given up.
LEMMA PagesStay ==
  ASSUME PagesRight, SharedFull, content' = content,
         \A q \in Requests : \/ Table(q)' = <<>>
                             \/ /\ Table(q)' = Table(q) /\ Done(q)' = Done(q)
                                /\ \A i \in 1 .. Len(Table(q)) : Due(q, i) => Due(q, i)'
  PROVE  PagesRight' /\ SharedFull'
<1>1. ASSUME NEW q \in Requests, NEW i \in 1 .. Len(Table(q)')
      PROVE  /\ Table(q)' = Table(q) /\ Done(q)' = Done(q) /\ i \in 1 .. Len(Table(q))
             /\ Due(q, i) => Due(q, i)'
  <2>1. Table(q)' # <<>>
    OBVIOUS
  <2> QED  BY <2>1
<1>2. ASSUME NEW q \in Requests, NEW i \in 1 .. Len(Table(q)')
      PROVE  PageOK(q, i)'
  <2>1. PageOK(q, i)
    BY <1>1 DEF PagesRight
  <2>2. Partial(q, i)' = Partial(q, i)
    BY <1>1 DEF Partial
  <2> QED  BY <1>1, <2>1, <2>2 DEF PageOK
<1>3. PagesRight'
  BY <1>2 DEF PagesRight
<1>4. SharedFull'
  <2> SUFFICES ASSUME NEW r \in Requests, NEW q \in Requests, r # q,
                      NEW i \in 1 .. Len(Table(r)'), NEW j \in 1 .. Len(Table(q)'),
                      Table(r)'[i] = Table(q)'[j]
               PROVE  content'[Table(r)'[i]].tokens = Chunk
    BY DEF SharedFull
  <2>1. /\ Table(r)' = Table(r) /\ i \in 1 .. Len(Table(r))
        /\ Table(q)' = Table(q) /\ j \in 1 .. Len(Table(q))
    BY <1>1
  <2> QED  BY <2>1 DEF SharedFull
<1> QED  BY <1>3, <1>4

\* A request arrives.
LEMMA ArriveKeeps ==
  ASSUME IInv, NEW r \in Requests, NEW option \in Options[r], Arrive(r, option)
  PROVE  IInv'
<1> USE DEF IInv, RequestRecord, StepRecord
<1>0. /\ requests \in [Requests -> RequestRecord]
      /\ Prompt[r] \in Nat /\ option \in UNION Range(Options)
  BY LongestIs, PlanningAssumption DEF TypeOK, Range
<1>1. /\ requests[r].status = "absent" /\ requests'[r].status = "waiting"
      /\ requests'[r].computed = requests[r].computed
      /\ requests'[r].table = requests[r].table
      /\ \A q \in Requests \ {r} : requests'[q] = requests[q]
      /\ UNCHANGED <<layout, phase, content, step, quorum, need_load, pending_loads,
                     progress, metadata, stored, raised>>
  BY <1>0 DEF Arrive
<1>2. \A q \in Requests : /\ Table(q)' = Table(q) /\ Done(q)' = Done(q)
                          /\ q \in Running' <=> q \in Running
  BY <1>1 DEF Table, Done, Running
<1>3. TypeOK'
  <2>1. requests' \in [Requests -> RequestRecord]
    BY <1>0 DEF Arrive
  <2>2. skip_write' \subseteq Requests
    BY DEF Arrive, TypeOK
  <2>3. Keys' = Keys
    BY <1>1 DEF Keys
  <2> QED  BY <1>1, <2>1, <2>2, <2>3 DEF TypeOK
<1>4. StepOK'
  BY <1>1, <1>2 DEF StepOK, Scheduled
<1>5. Tables'
  BY <1>1, <1>2 DEF Tables
<1>6. \A q, s : Cached(q, s)' = Cached(q, s)
  BY <1>1 DEF Cached, HasChain, HasKey, has_boundary_quorum
<1>7. Scheduled' = Scheduled /\ (ExactBoundary' <=> ExactBoundary) /\ Scheduled \subseteq Requests
  BY <1>1 DEF Scheduled, ExactBoundary, StepOK
<1>8. LoadsKnown'
  BY <1>1, <1>2, <1>6, <1>7 DEF LoadsKnown
<1>9. StoresKnown'
  BY <1>1, <1>2, <1>7 DEF StoresKnown
<1>10. ProgressKnown'
  BY <1>1, <1>2, <1>7 DEF ProgressKnown
<1>11. Turns'
  BY <1>1 DEF Turns
<1>12. Active' = Active
  BY <1>1 DEF Active
<1>13. Budget'
  BY <1>1, <1>12 DEF Budget
<1>14. PagesRight' /\ SharedFull'
  <2>1. \A q, i : Due(q, i)' = Due(q, i)
    BY <1>1 DEF Due
  <2> QED  BY <1>1, <1>2, <2>1, PagesStay
<1>15. StoresRight'
  BY <1>1 DEF StoresRight
<1>16. BudgetReturns'
  BY <1>1 DEF BudgetReturns
<1> QED  BY <1>3, <1>4, <1>5, <1>8, <1>9, <1>10, <1>11, <1>13, <1>14, <1>15, <1>16

\* One more restore within the budget.
LEMMA WithinBudget ==
  ASSUME NEW A, NEW B, NEW x, IsFiniteSet(A), Cardinality(A) <= MaxPendingRestores,
         B \subseteq A \cup {x}, x \in A \/ ~(Cardinality(A) >= MaxPendingRestores)
  PROVE  IsFiniteSet(B) /\ Cardinality(B) <= MaxPendingRestores
<1>1. MaxPendingRestores \in Nat
  BY PlanningAssumption
<1>2. Cardinality(A) \in Nat
  BY FS_CardinalityType
<1>3. IsFiniteSet(A \cup {x}) /\ Cardinality(A \cup {x}) <= MaxPendingRestores
  BY <1>1, <1>2, FS_AddElement
<1>4. IsFiniteSet(B) /\ Cardinality(B) <= Cardinality(A \cup {x})
  BY <1>3, FS_Subset
<1>5. Cardinality(B) \in Nat /\ Cardinality(A \cup {x}) \in Nat
  BY <1>3, <1>4, FS_CardinalityType
<1> QED  BY <1>1, <1>3, <1>4, <1>5

\* What get_num_new_matched_tokens keeps for a request is a plan or
\* nothing.
LEMMA MatchedTyped ==
  ASSUME TypeOK, NEW r \in Requests, NEW c \in Nat
  PROVE  Matched(r, c) \in [span : Spans, external : Nat] \cup {None}
<1>1. CASE Selected(r, c) = 0
  BY <1>1 DEF Matched, TypeOK
<1>2. CASE Selected(r, c) # 0
  <2>1. Selected(r, c) \in Spans /\ External(r, c) \in Nat
    BY <1>2, SelectedIs, ExternalIs
  <2> QED  BY <1>2, <2>1 DEF Matched
<1> QED  BY <1>1, <1>2

\* A lookup without an allocation.
LEMMA AllocationFailsKeeps ==
  ASSUME IInv, NEW r \in Requests, NEW n \in Nat, AllocationFails(r, n)
  PROVE  IInv'
<1> USE DEF IInv, RequestRecord, StepRecord
<1>0. n * Chunk \in Nat
  BY Boundary
<1>1. /\ requests[r].status \in {"waiting", "preempted"} /\ phase = "schedule"
      /\ need_load' = [need_load EXCEPT ![r] = Matched(r, n * Chunk)]
      /\ UNCHANGED <<layout, phase, requests, content, step, quorum, pending_loads,
                     progress, skip_write, metadata, stored, raised>>
  BY DEF AllocationFails, CanAdmit
<1>2. \A q \in Requests : /\ Table(q)' = Table(q) /\ Done(q)' = Done(q)
                          /\ q \in Running' <=> q \in Running
  BY <1>1 DEF Table, Done, Running
<1>3. TypeOK'
  <2>1. Keys' = Keys
    BY <1>1 DEF Keys
  <2>2. Matched(r, n * Chunk) \in [span : Spans, external : Nat] \cup {None}
    BY <1>0, MatchedTyped
  <2>3. need_load' \in [Requests -> [span : Spans, external : Nat] \cup {None}]
    BY <1>1, <2>2 DEF TypeOK
  <2> QED  BY <1>1, <2>1, <2>3 DEF TypeOK
<1>4. StepOK'
  BY <1>1, <1>2 DEF StepOK, Scheduled
<1>5. Tables'
  BY <1>1, <1>2 DEF Tables
<1>6. \A q, s : Cached(q, s)' = Cached(q, s)
  BY <1>1 DEF Cached, HasChain, HasKey, has_boundary_quorum
<1>7. Scheduled' = Scheduled /\ (ExactBoundary' <=> ExactBoundary) /\ Scheduled \subseteq Requests
  BY <1>1 DEF Scheduled, ExactBoundary, StepOK
<1>8. LoadsKnown'
  BY <1>1, <1>2, <1>6, <1>7 DEF LoadsKnown
<1>9. StoresKnown'
  BY <1>1, <1>2, <1>7 DEF StoresKnown
<1>10. ProgressKnown'
  BY <1>1, <1>2, <1>7 DEF ProgressKnown
<1>11. Turns'
  BY <1>1 DEF Turns
<1>12. Budget'
  <2>1. IsFiniteSet(Active) /\ Cardinality(Active) <= MaxPendingRestores
    BY DEF Budget
  <2>2. CASE Selected(r, n * Chunk) = 0
    <3>1. need_load' = need_load
      BY <1>1, <2>2 DEF Matched, TypeOK
    <3>2. Active' = Active
      BY <1>1, <3>1 DEF Active
    <3> QED  BY <1>1, <3>2 DEF Budget
  <2>3. CASE Selected(r, n * Chunk) # 0
    <3>1. r \in Active \/ ~(Cardinality(Active) >= MaxPendingRestores)
      BY <1>0, <2>3, SelectedIs
    <3>2. Active' \subseteq Active \cup {r}
      BY <1>1 DEF Active, TypeOK
    <3>3. IsFiniteSet(Active') /\ Cardinality(Active') <= MaxPendingRestores
      BY <2>1, <3>1, <3>2, WithinBudget
    <3> QED  BY <1>1, <3>3 DEF Budget
  <2> QED  BY <2>2, <2>3
<1>13. PagesRight' /\ SharedFull'
  <2>1. \A q, i : Due(q, i)' = Due(q, i)
    BY <1>1 DEF Due
  <2> QED  BY <1>1, <1>2, <2>1, PagesStay
<1>14. StoresRight'
  BY <1>1 DEF StoresRight
<1>15. BudgetReturns'
  <2>1. \A q \in Requests \ {r} : need_load'[q] = need_load[q]
    BY <1>1 DEF TypeOK
  <2> QED  BY <1>1, <2>1 DEF BudgetReturns
<1> QED  BY <1>3, <1>4, <1>5, <1>8, <1>9, <1>10, <1>11, <1>12, <1>13, <1>14, <1>15

\* A request that gives up its pages is neither scheduled nor restored.
LEMMA PreemptKeeps ==
  ASSUME IInv, NEW r \in Requests, Preempt(r)
  PROVE  IInv'
<1> USE DEF IInv, RequestRecord, StepRecord
<1>0. requests \in [Requests -> RequestRecord]
  BY DEF TypeOK
<1>1. /\ requests[r].status = "running" /\ requests'[r].status = "preempted"
      /\ requests'[r].table = <<>> /\ phase = "schedule" /\ r \notin Scheduled
      /\ \A q \in Requests \ {r} : requests'[q] = requests[q]
      /\ UNCHANGED <<layout, phase, content, step, quorum, need_load, pending_loads,
                     progress, skip_write, metadata, stored, raised>>
  BY <1>0 DEF Preempt, connector
<1>2. /\ \A q \in Requests \ {r} : /\ Table(q)' = Table(q) /\ Done(q)' = Done(q)
                                   /\ q \in Running' <=> q \in Running
      /\ Table(r)' = <<>> /\ r \notin Running' /\ r \in Running
  BY <1>1 DEF Table, Done, Running
<1>3. TypeOK'
  <2>1. requests' \in [Requests -> RequestRecord]
    <3>1. <<>> \in Seq(Pages) /\ 0 \in Nat
      OBVIOUS
    <3>2. requests' = [requests EXCEPT ![r] = [@ EXCEPT !.status = "preempted",
                                                       !.computed = 0, !.table = <<>>]]
      BY <1>0 DEF Preempt
    <3> QED  BY <1>0, <3>1, <3>2
  <2>2. Keys' = Keys
    BY <1>1 DEF Keys
  <2> QED  BY <1>1, <2>1, <2>2 DEF TypeOK
<1>4. Scheduled' = Scheduled /\ (ExactBoundary' <=> ExactBoundary) /\ Scheduled \subseteq Requests
  BY <1>1 DEF Scheduled, ExactBoundary, StepOK
<1>5. StepOK'
  <2>1. Scheduled' \subseteq Running' /\ \A q \in Requests \ Scheduled' : step'.tokens[q] = 0
    BY <1>1, <1>2, <1>4 DEF StepOK
  <2>2. \A q \in step'.finished : requests'[q].status = "finished"
    BY <1>1 DEF StepOK
  <2> QED  BY <1>1, <2>1, <2>2 DEF StepOK
<1>6. Tables'
  BY <1>1, <1>2 DEF Tables, Distinct
<1>7. \A q, s : Cached(q, s)' = Cached(q, s)
  BY <1>1 DEF Cached, HasChain, HasKey, has_boundary_quorum
<1>8. LoadsKnown'
  BY <1>1, <1>2, <1>4, <1>7 DEF LoadsKnown
<1>9. StoresKnown'
  BY <1>1, <1>2, <1>4 DEF StoresKnown
<1>10. ProgressKnown'
  BY <1>1, <1>2, <1>4 DEF ProgressKnown, Scheduled, StepOK
<1>11. Turns'
  BY <1>1 DEF Turns
<1>12. Active' = Active
  BY <1>1 DEF Active
<1>13. Budget'
  BY <1>1, <1>12 DEF Budget
<1>14. PagesRight' /\ SharedFull'
  <2>1. \A q, i : Due(q, i)' = Due(q, i)
    BY <1>1 DEF Due
  <2> QED  BY <1>1, <1>2, <2>1, PagesStay
<1>15. StoresRight'
  BY <1>1 DEF StoresRight
<1>16. BudgetReturns'
  <2>1. ASSUME NEW q \in Requests
        PROVE  /\ need_load'[q] # None => \/ requests'[q].status \in {"waiting", "preempted"}
                                          \/ q \in step'.finished
               /\ progress'[q] # None => \/ requests'[q].status \in {"running", "preempted"}
                                         \/ q \in step'.finished
    BY <1>1 DEF BudgetReturns
  <2> QED  BY <2>1 DEF BudgetReturns
<1> QED  BY <1>3, <1>5, <1>6, <1>8, <1>9, <1>10, <1>11, <1>13, <1>14, <1>15, <1>16

\* A request ends between two steps.
LEMMA FinishKeeps ==
  ASSUME IInv, NEW r \in Requests, Finish(r)
  PROVE  IInv'
<1> USE DEF IInv, RequestRecord, StepRecord
<1>0. /\ requests \in [Requests -> RequestRecord]
      /\ step \in StepRecord
  BY DEF TypeOK, StepOK
<1>1. /\ requests'[r].status = "finished" /\ requests'[r].table = <<>>
      /\ requests[r].status \in {"waiting", "running", "preempted"}
      /\ phase = "schedule" /\ Scheduled = {}
      /\ \A q \in Requests \ {r} : requests'[q] = requests[q]
      /\ UNCHANGED <<layout, phase, content, quorum, need_load, pending_loads,
                     progress, skip_write, metadata, stored, raised>>
  BY <1>0 DEF Finish, connector
<1>2. /\ step' = [step EXCEPT !.finished = step.finished \cup {r}]
      /\ step'.new = step.new /\ step'.cached = step.cached /\ step'.resumed = step.resumed
      /\ step'.tokens = step.tokens /\ step'.added = step.added
      /\ step'.finished = step.finished \cup {r}
  BY <1>0 DEF Finish
<1>3. /\ \A q \in Requests \ {r} : /\ Table(q)' = Table(q) /\ Done(q)' = Done(q)
                                   /\ q \in Running' <=> q \in Running
      /\ Table(r)' = <<>> /\ r \notin Running'
  BY <1>1 DEF Table, Done, Running
<1>4. TypeOK'
  <2>1. requests' \in [Requests -> RequestRecord]
    <3>1. <<>> \in Seq(Pages)
      OBVIOUS
    <3>2. requests' = [requests EXCEPT ![r] = [@ EXCEPT !.status = "finished",
                                                       !.table = <<>>]]
      BY DEF Finish
    <3>3. requests[r] \in RequestRecord
      BY <1>0, Zenon
    <3>4. [requests[r] EXCEPT !.status = "finished", !.table = <<>>] \in RequestRecord
      BY <3>1, <3>3
    <3> HIDE DEF RequestRecord
    <3> QED  BY <1>0, <3>2, <3>4
  <2>2. Keys' = Keys
    BY <1>1 DEF Keys
  <2> QED  BY <1>1, <2>1, <2>2 DEF TypeOK
<1>5. /\ Scheduled' = {} /\ (ExactBoundary' <=> ExactBoundary)
      /\ step.new = {} /\ step.cached = {} /\ step.resumed = {}
  BY <1>1, <1>2 DEF Scheduled, ExactBoundary, StepOK
<1>6. StepOK'
  <2>1. step' \in StepRecord
    BY <1>0, <1>2
  <2>2. \A q \in Requests : step'.tokens[q] = 0
    BY <1>1, <1>2 DEF StepOK
  <2>3. \A q \in step'.finished : requests'[q].status = "finished"
    BY <1>0, <1>1, <1>2 DEF StepOK
  <2> QED  BY <1>1, <1>2, <1>5, <2>1, <2>2, <2>3 DEF StepOK
<1>7. Tables'
  BY <1>1, <1>2, <1>3 DEF Tables, Distinct
<1>8. /\ \A q \in Requests : pending_loads[q] = None
      /\ metadata.loads = {} /\ metadata.stores = {}
  BY <1>1 DEF LoadsKnown, Turns
<1>9. LoadsKnown' /\ StoresKnown'
  BY <1>1, <1>8 DEF LoadsKnown, StoresKnown
<1>10. ProgressKnown'
  BY <1>1, <1>2, <1>3, <1>5 DEF ProgressKnown
<1>11. Turns'
  BY <1>1 DEF Turns
<1>12. Active' = Active
  BY <1>1 DEF Active
<1>13. Budget'
  BY <1>1, <1>12 DEF Budget
<1>14. PagesRight' /\ SharedFull'
  <2>1. \A q, i : Due(q, i)' = Due(q, i)
    BY <1>1 DEF Due
  <2> QED  BY <1>1, <1>3, <2>1, PagesStay
<1>15. StoresRight'
  BY <1>1 DEF StoresRight
<1>16. BudgetReturns'
  BY <1>1, <1>2 DEF BudgetReturns
<1> QED  BY <1>4, <1>6, <1>7, <1>9, <1>10, <1>11, <1>13, <1>14, <1>15, <1>16

\* The inventory changes between two steps, when no restore is planned.
LEMMA ReportKeeps ==
  ASSUME IInv, NEW key \in Keys, Report(key)
  PROVE  IInv'
<1> USE DEF IInv, RequestRecord, StepRecord
<1>1. /\ phase = "schedule" /\ Scheduled = {}
      /\ UNCHANGED <<layout, phase, requests, content, step, need_load, pending_loads,
                     progress, skip_write, metadata, stored, raised>>
  BY DEF Report, connector
<1>2. \A q \in Requests : /\ Table(q)' = Table(q) /\ Done(q)' = Done(q)
                          /\ q \in Running' <=> q \in Running
  BY <1>1 DEF Table, Done, Running
<1>3. TypeOK'
  <2>1. Keys' = Keys
    BY <1>1 DEF Keys
  <2>2. quorum' \subseteq Keys
    BY DEF Report, TypeOK
  <2> QED  BY <1>1, <2>1, <2>2 DEF TypeOK
<1>4. Scheduled' = Scheduled
  BY <1>1 DEF Scheduled
<1>5. StepOK'
  BY <1>1, <1>2, <1>4 DEF StepOK
<1>6. Tables'
  BY <1>1, <1>2 DEF Tables
<1>7. /\ \A q \in Requests : pending_loads[q] = None
      /\ metadata.loads = {} /\ metadata.stores = {}
  BY <1>1 DEF LoadsKnown, Turns
<1>8. LoadsKnown' /\ StoresKnown'
  BY <1>1, <1>7 DEF LoadsKnown, StoresKnown
<1>9. ProgressKnown'
  BY <1>1, <1>2, <1>4 DEF ProgressKnown
<1>10. Turns'
  BY <1>1 DEF Turns
<1>11. Active' = Active
  BY <1>1 DEF Active
<1>12. Budget'
  BY <1>1, <1>11 DEF Budget
<1>13. PagesRight' /\ SharedFull'
  <2>1. \A q, i : Due(q, i)' = Due(q, i)
    BY <1>1 DEF Due
  <2> QED  BY <1>1, <1>2, <2>1, PagesStay
<1>14. StoresRight'
  BY <1>1 DEF StoresRight
<1>15. BudgetReturns'
  BY <1>1 DEF BudgetReturns
<1> QED  BY <1>3, <1>5, <1>6, <1>8, <1>9, <1>10, <1>12, <1>13, <1>14, <1>15

---------------------------------------------------------------------------
(* Steps that allocate pages.                                              *)

\* A free page is in no table.
LEMMA FreeIs ==
  ASSUME TypeOK, NEW p \in Free, NEW q \in Requests, NEW i \in 1 .. Len(Table(q))
  PROVE  Table(q)[i] # p
<1>1. Table(q) \in Seq(Pages) /\ i \in DOMAIN Table(q)
  BY Typed
<1>2. Table(q)[i] \in Range(requests[q].table)
  BY <1>1 DEF Range, Table
<1> QED  BY <1>2 DEF Free

\* New pages for r leave the pages of the other requests as they are.
LEMMA OthersStay ==
  ASSUME TypeOK, PagesRight, SharedFull, NEW r \in Requests, NEW fresh \in Seq(Pages),
         \A i \in 1 .. Len(fresh) : fresh[i] \in Free,
         content' = [p \in Pages |-> IF p \in Range(fresh) THEN Junk ELSE content[p]],
         \A q \in Requests \ {r} :
           /\ Table(q)' = Table(q) /\ Done(q)' = Done(q)
           /\ \A i \in 1 .. Len(Table(q)) : Due(q, i) => Due(q, i)'
  PROVE  /\ \A q \in Requests : \A i \in 1 .. Len(Table(q)) :
              content'[Table(q)[i]] = content[Table(q)[i]]
         /\ \A q \in Requests \ {r} : \A i \in 1 .. Len(Table(q)) : PageOK(q, i)'
<1>1. \A p \in Range(fresh) : p \in Free
  BY DEF Range
<1>2. ASSUME NEW q \in Requests, NEW i \in 1 .. Len(Table(q))
      PROVE  content'[Table(q)[i]] = content[Table(q)[i]]
  <2>1. Table(q)[i] \in Pages
    BY Typed
  <2>2. Table(q)[i] \notin Range(fresh)
    BY <1>1, FreeIs
  <2> QED  BY <2>1, <2>2
<1>3. ASSUME NEW q \in Requests \ {r}, NEW i \in 1 .. Len(Table(q))
      PROVE  PageOK(q, i)'
  <2>1. PageOK(q, i)
    BY DEF PagesRight
  <2>2. Partial(q, i)' = Partial(q, i)
    BY DEF Partial
  <2>3. /\ content'[Table(q)[i]] = content[Table(q)[i]]
        /\ Table(q)' = Table(q) /\ Done(q)' = Done(q) /\ Due(q, i) => Due(q, i)'
    BY <1>2
  <2> QED  BY <2>1, <2>2, <2>3 DEF PageOK
<1> QED  BY <1>2, <1>3

\* The pages that r has after new ones were appended to full or to its own pages.
LEMMA SharedStay ==
  ASSUME TypeOK, SharedFull, NEW r \in Requests, NEW old \in Seq(Pages),
         NEW fresh \in Seq(Pages),
         Table(r)' = old \o fresh, \A i \in 1 .. Len(fresh) : fresh[i] \in Free,
         \A q \in Requests \ {r} : Table(q)' = Table(q),
         \A q \in Requests : \A i \in 1 .. Len(Table(q)) :
           content'[Table(q)[i]] = content[Table(q)[i]],
         \A i \in 1 .. Len(old) : \/ content'[old[i]].tokens = Chunk
                                  \/ i \in 1 .. Len(Table(r)) /\ old[i] = Table(r)[i]
  PROVE  SharedFull'
<1>1. ASSUME NEW i \in 1 .. Len(Table(r)'), NEW q \in Requests \ {r},
             NEW j \in 1 .. Len(Table(q)), Table(r)'[i] = Table(q)[j]
      PROVE  content'[Table(r)'[i]].tokens = Chunk
  <2>1. Len(old) \in Nat /\ Len(fresh) \in Nat
    OBVIOUS
  <2>2. CASE i <= Len(old)
    <3>1. Table(r)'[i] = old[i] /\ i \in 1 .. Len(old)
      BY <2>1, <2>2
    <3>2. CASE i \in 1 .. Len(Table(r)) /\ old[i] = Table(r)[i]
      <4>1. content[Table(r)[i]].tokens = Chunk
        <5>1. Table(r)[i] = Table(q)[j] /\ r # q /\ i \in 1 .. Len(Table(r))
          BY <1>1, <3>1, <3>2
        <5> QED  BY <5>1 DEF SharedFull
      <4>2. content'[Table(r)[i]] = content[Table(r)[i]]
        BY <3>2
      <4> QED  BY <3>1, <3>2, <4>1, <4>2
    <3> QED  BY <3>1, <3>2
  <2>3. CASE i > Len(old)
    <3>1. i - Len(old) \in 1 .. Len(fresh) /\ Table(r)'[i] = fresh[i - Len(old)]
      BY <2>1, <2>3
    <3>2. Table(q)[j] \in Free
      BY <1>1, <3>1
    <3> QED  BY <3>2, FreeIs
  <2> QED  BY <2>1, <2>2, <2>3
<1> SUFFICES ASSUME NEW q \in Requests, NEW s \in Requests, q # s,
                    NEW i \in 1 .. Len(Table(q)'), NEW j \in 1 .. Len(Table(s)'),
                    Table(q)'[i] = Table(s)'[j]
             PROVE  content'[Table(q)'[i]].tokens = Chunk
  BY DEF SharedFull
<1>2. CASE q = r
  BY <1>1, <1>2
<1>3. CASE s = r
  BY <1>1, <1>3
<1>4. CASE q # r /\ s # r
  <2>1. Table(q)' = Table(q) /\ Table(s)' = Table(s)
    BY <1>4
  <2>2. content[Table(q)[i]].tokens = Chunk
    BY <2>1 DEF SharedFull
  <2>3. content'[Table(q)[i]] = content[Table(q)[i]]
    BY <2>1
  <2> QED  BY <2>1, <2>2, <2>3
<1> QED  BY <1>2, <1>3, <1>4

\* A running request gets tokens and pages.
LEMMA ContinueKeeps ==
  ASSUME IInv, NEW r \in Requests, NEW tokens \in Nat, Continue(r, tokens)
  PROVE  IInv'
<1> USE DEF IInv
<1> DEFINE t == Table(r)
           m == PagesFor(Done(r) + tokens) - Len(t)
<1>0. /\ requests \in [Requests -> RequestRecord] /\ step \in StepRecord
      /\ t \in Seq(Pages) /\ Len(t) \in Nat /\ Done(r) \in Nat
  BY Typed DEF TypeOK, StepOK, RequestRecord
<1>1. PICK fresh \in Fresh(m, {}) :
        /\ content' = [p \in Pages |-> IF p \in Range(fresh) THEN Junk ELSE content[p]]
        /\ requests' = [requests EXCEPT ![r].table = t \o fresh]
        /\ step' = [step EXCEPT !.cached = @ \cup {r}, !.tokens[r] = tokens,
                                !.added[r] = fresh]
  BY DEF Continue, Table, Done
<1>2. /\ phase = "schedule" /\ requests[r].status = "running" /\ r \notin Scheduled
      /\ UNCHANGED <<layout, phase, quorum, need_load, pending_loads, progress, skip_write,
                     metadata, stored, raised>>
  BY DEF Continue, connector
<1>3. /\ r \in Running /\ step.tokens[r] = 0 /\ Len(t) = PagesFor(Done(r)) /\ Distinct(t)
      /\ r \notin step.new /\ r \notin step.cached /\ r \notin step.resumed
  BY <1>0, <1>2 DEF Running, StepOK, Tables, Scheduled
<1>4. m \in Nat /\ Len(t) + m = PagesFor(Done(r) + tokens)
  <2>1. PagesFor(Done(r)) <= PagesFor(Done(r) + tokens) /\ PagesFor(Done(r) + tokens) \in Nat
    BY <1>0, PagesGrow, PagesAre
  <2> QED  BY <1>0, <1>3, <2>1
<1> HIDE DEF m
<1>5. /\ fresh \in Seq(Pages) /\ Len(fresh) = m /\ Distinct(fresh)
      /\ \A i \in 1 .. Len(fresh) : fresh[i] \in Free /\ fresh[i] \in Pages
  BY <1>1, <1>4, FreshIs
<1>6. \A i \in 1 .. Len(fresh) : \A j \in 1 .. Len(t) : fresh[i] # t[j]
  BY <1>5, FreeIs
<1>7. /\ t \o fresh \in Seq(Pages) /\ Distinct(t \o fresh)
      /\ Len(t \o fresh) = PagesFor(Done(r) + tokens)
      /\ \A i \in 1 .. Len(t) : (t \o fresh)[i] = t[i]
      /\ \A i \in Len(t) + 1 .. Len(t) + m : (t \o fresh)[i] = fresh[i - Len(t)]
  BY <1>0, <1>3, <1>4, <1>5, <1>6, Grown
<1>8. /\ requests'[r].table = t \o fresh /\ requests'[r].status = "running"
      /\ requests'[r].computed = requests[r].computed
      /\ \A q \in Requests \ {r} : requests'[q] = requests[q]
  BY <1>0, <1>1, <1>2 DEF RequestRecord
<1>9. /\ \A q \in Requests \ {r} : Table(q)' = Table(q)
      /\ \A q \in Requests : /\ Done(q)' = Done(q) /\ (q \in Running' <=> q \in Running)
                             /\ requests'[q].status = requests[q].status
      /\ Table(r)' = t \o fresh
  BY <1>2, <1>8 DEF Table, Done, Running
<1> HIDE DEF t
<1>10. /\ step'.new = step.new /\ step'.cached = step.cached \cup {r}
       /\ step'.resumed = step.resumed /\ step'.finished = step.finished
       /\ step'.tokens = [step.tokens EXCEPT ![r] = tokens]
       /\ step'.added = [step.added EXCEPT ![r] = fresh]
       /\ step' \in StepRecord
  BY <1>0, <1>1, <1>5 DEF StepRecord
<1>11. Scheduled' = Scheduled \cup {r} /\ (ExactBoundary' <=> ExactBoundary)
       /\ Scheduled \subseteq Requests
  BY <1>0, <1>2, <1>10 DEF Scheduled, ExactBoundary, StepRecord
<1>12. TypeOK'
  <2>1. requests' \in [Requests -> RequestRecord]
    BY <1>0, <1>1, <1>7 DEF RequestRecord
  <2>2. Keys' = Keys
    BY <1>2 DEF Keys
  <2> QED  BY <1>2, <2>1, <2>2 DEF TypeOK, RequestRecord
<1>13. step.tokens \in [Requests -> Nat] /\ step.added \in [Requests -> Seq(Pages)]
       /\ step.finished \subseteq Requests /\ step.resumed \subseteq Requests
       /\ step.new \subseteq Requests
  BY <1>0 DEF StepRecord
<1>d. /\ step'.tokens[r] = tokens /\ step'.added[r] = fresh
      /\ \A q \in Requests \ {r} :
           /\ step'.tokens[q] = step.tokens[q] /\ step'.added[q] = step.added[q]
           /\ q \in Scheduled' <=> q \in Scheduled
           /\ q \in step'.cached <=> q \in step.cached
  BY <1>10, <1>11, <1>13
<1>14. StepOK'
  <2>1. \A q \in Requests \ Scheduled' : step'.tokens[q] = 0
    BY <1>10, <1>11, <1>13 DEF StepOK
  <2>2. Scheduled' \subseteq Running'
    BY <1>3, <1>9, <1>11 DEF StepOK
  <2>3. /\ step'.resumed \subseteq step'.cached /\ step'.new \cap step'.cached = {}
        /\ \A q \in step'.finished : requests'[q].status = "finished"
    <3>1. step.resumed \subseteq step.cached /\ step.new \cap step.cached = {}
      BY DEF StepOK
    <3>2. \A q \in step.finished : requests[q].status = "finished"
      BY DEF StepOK
    <3>3. step'.resumed \subseteq step'.cached /\ step'.new \cap step'.cached = {}
      BY <1>3, <1>10, <3>1
    <3>4. \A q \in step'.finished : requests'[q].status = "finished"
      BY <1>9, <1>10, <1>13, <3>2
    <3> QED  BY <3>3, <3>4
  <2> QED  BY <1>2, <1>10, <2>1, <2>2, <2>3 DEF StepOK
<1>15. Tables'
  <2>1. ASSUME NEW q \in Requests \ {r}
        PROVE  /\ requests'[q].status # "running" => Table(q)' = <<>>
               /\ requests'[q].status = "running" =>
                    Len(Table(q)') = PagesFor(Done(q)' + step'.tokens[q])
               /\ Distinct(Table(q)')
    <3>1. /\ requests'[q].status = requests[q].status /\ Table(q)' = Table(q)
          /\ Done(q)' = Done(q) /\ step'.tokens[q] = step.tokens[q]
      BY <1>9, <1>d
    <3> QED  BY <3>1 DEF Tables
  <2>2. /\ requests'[r].status = "running"
        /\ Len(Table(r)') = PagesFor(Done(r)' + step'.tokens[r]) /\ Distinct(Table(r)')
    <3>1. Done(r)' = Done(r) /\ Table(r)' = t \o fresh /\ step'.tokens[r] = tokens
      BY <1>9, <1>d
    <3> QED  BY <1>7, <1>8, <3>1
  <2> QED  BY <2>1, <2>2 DEF Tables
<1>16. \A q, s : Cached(q, s)' = Cached(q, s)
  BY <1>2 DEF Cached, HasChain, HasKey, has_boundary_quorum
<1>17. LoadsKnown' /\ StoresKnown'
  <2>1. metadata.loads = {} /\ metadata.stores = {}
    BY <1>2 DEF Turns
  <2>2. \A q \in Requests : pending_loads[q] # None => q # r
    BY <1>2 DEF LoadsKnown
  <2>3. ASSUME NEW q \in Requests, pending_loads'[q] # None
        PROVE  /\ phase' = "schedule" /\ q \in Scheduled'
               /\ pending_loads'[q].table = Table(q)'
               /\ pending_loads'[q].span <= Done(q)'
               /\ Cached(q, pending_loads[q].span)'
    <3>1. q # r /\ Table(q)' = Table(q) /\ Done(q)' = Done(q)
          /\ (q \in Scheduled' <=> q \in Scheduled)
      BY <1>2, <1>9, <1>d, <2>2, <2>3
    <3> QED  BY <1>2, <1>16, <2>3, <3>1 DEF LoadsKnown
  <2> QED  BY <1>2, <2>1, <2>3 DEF LoadsKnown, StoresKnown
<1>18. ProgressKnown'
  <2>1. ASSUME NEW q \in Requests \ {r}
        PROVE  /\ q \in step'.new \cup step'.resumed => step'.added[q] = Table(q)'
               /\ progress'[q] # None =>
                    /\ phase' = "schedule" => q \notin step'.new
                    /\ phase' = "schedule" /\ q \in step'.cached \ step'.resumed =>
                         progress'[q].table \o step'.added[q] = Table(q)'
                    /\ (q \in Running' /\ (phase' = "worker" \/ q \notin Scheduled')) =>
                         progress'[q].table = Table(q)'
    <3>1. /\ Table(q)' = Table(q) /\ (q \in Running' <=> q \in Running)
          /\ step'.added[q] = step.added[q] /\ (q \in Scheduled' <=> q \in Scheduled)
          /\ (q \in step'.cached <=> q \in step.cached)
          /\ step'.new = step.new /\ step'.resumed = step.resumed
      BY <1>9, <1>10, <1>d
    <3> QED  BY <1>2, <3>1 DEF ProgressKnown
  <2>2. /\ r \notin step'.new \cup step'.resumed
        /\ phase' = "schedule" /\ r \in Scheduled'
        /\ progress[r] # None => progress[r].table = t
    BY <1>2, <1>3, <1>10, <1>11 DEF ProgressKnown, t
  <2>3. step'.added[r] = fresh
    BY <1>10, <1>13
  <2> QED  BY <1>2, <1>9, <2>1, <2>2, <2>3 DEF ProgressKnown
<1>19. Turns'
  BY <1>2 DEF Turns
<1>20. Active' = Active
  BY <1>2 DEF Active
<1>21. Budget'
  BY <1>2, <1>20 DEF Budget
<1>22. \A q, i : Due(q, i)' = Due(q, i)
  BY <1>2 DEF Due
<1>23. /\ \A q \in Requests : \A i \in 1 .. Len(Table(q)) :
            content'[Table(q)[i]] = content[Table(q)[i]]
       /\ \A q \in Requests \ {r} : \A i \in 1 .. Len(Table(q)) : PageOK(q, i)'
  <2>1. \A q \in Requests \ {r} :
          /\ Table(q)' = Table(q) /\ Done(q)' = Done(q)
          /\ \A i \in 1 .. Len(Table(q)) : Due(q, i) => Due(q, i)'
    BY <1>9, <1>22
  <2> QED  BY <1>1, <1>5, <2>1, OthersStay
<1>24. ASSUME NEW i \in 1 .. Len(Table(r)')
       PROVE  PageOK(r, i)'
  <2>1. i \in Nat \ {0} /\ Done(r)' = Done(r) /\ Table(r)' = t \o fresh /\ i <= Len(t) + m
    BY <1>0, <1>4, <1>7, <1>9
  <2>2. CASE i <= Len(t)
    <3>1. i \in 1 .. Len(t) /\ Table(r)'[i] = t[i] /\ content'[t[i]] = content[t[i]]
      BY <1>0, <1>7, <1>23, <2>1, <2>2 DEF t
    <3>2. PageOK(r, i)
      BY <3>1 DEF PagesRight, t
    <3>3. Partial(r, i)' = Partial(r, i)
      BY <2>1 DEF Partial
    <3> QED  BY <1>22, <2>1, <3>1, <3>2, <3>3 DEF PageOK, t
  <2>3. CASE i > Len(t)
    <3>1. ~Begun(i, Done(r)) /\ ~Whole(i, Done(r))
      BY <1>0, <1>3, <2>1, <2>3, Positions
    <3>2. i \in Len(t) + 1 .. Len(t) + m /\ i - Len(t) \in 1 .. Len(fresh)
      BY <1>0, <1>4, <1>5, <2>1, <2>3
    <3>3. Table(r)'[i] = fresh[i - Len(t)] /\ fresh[i - Len(t)] \in Pages
      BY <1>5, <1>7, <2>1, <3>2
    <3>4. fresh[i - Len(t)] \in Range(fresh)
      BY <1>5, <3>2 DEF Range
    <3>5. content'[Table(r)'[i]] = Junk
      BY <1>1, <3>3, <3>4
    <3> QED  BY <2>1, <3>1, <3>5, FullIs DEF PageOK
  <2> QED  BY <1>0, <2>1, <2>2, <2>3
<1>25. PagesRight'
  BY <1>9, <1>23, <1>24 DEF PagesRight
<1>26. SharedFull'
  BY <1>0, <1>5, <1>9, <1>23, SharedStay DEF t
<1>27. StoresRight'
  BY <1>2 DEF StoresRight
<1>28. BudgetReturns'
  BY <1>2, <1>9, <1>10 DEF BudgetReturns
<1> QED
  BY <1>12, <1>14, <1>15, <1>17, <1>18, <1>19, <1>21, <1>25, <1>26, <1>27, <1>28

\* A request is admitted: what it asked the connector for is what it gets.
LEMMA AdmitKeeps ==
  ASSUME IInv, NEW r \in Requests, NEW n \in Nat, NEW tokens \in Nat, Admit(r, n, tokens)
  PROVE  IInv'
<1> USE DEF IInv
<1> DEFINE b == n * Chunk
           e == External(r, b)
           c == b + e
           m == PagesFor(c + tokens) - n
           resumed == requests[r].status = "preempted"
<1>0. /\ requests \in [Requests -> RequestRecord] /\ step \in StepRecord
      /\ need_load \in [Requests -> [span : Spans, external : Nat] \cup {None}]
      /\ pending_loads \in [Requests -> [span : Spans, table : Seq(Pages)] \cup {None}]
  BY DEF TypeOK, StepOK, RequestRecord
<1>1. b \in Nat /\ e \in Nat /\ c \in Nat
  BY Boundary, ExternalIs
<1>2. /\ phase = "schedule" /\ requests[r].status \in {"waiting", "preempted"}
      /\ r \notin Scheduled
      /\ UNCHANGED <<layout, phase, quorum, progress, skip_write, metadata, stored>>
  BY DEF Admit, CanAdmit
<1>3. PICK hit \in LocalHits(r, n) :
        \E fresh \in Fresh(m, Range(hit)) :
          /\ update_state_after_alloc(r, e, Matched(r, b), hit \o fresh)
          /\ content' = [p \in Pages |-> IF p \in Range(fresh) THEN Junk ELSE content[p]]
          /\ requests' = [requests EXCEPT ![r].status = "running", ![r].computed = c,
                                         ![r].table = hit \o fresh]
          /\ step' = [step EXCEPT
                !.new = IF resumed THEN @ ELSE @ \cup {r},
                !.cached = IF resumed THEN @ \cup {r} ELSE @,
                !.resumed = IF resumed THEN @ \cup {r} ELSE @,
                !.tokens[r] = tokens,
                !.added[r] = hit \o fresh]
  BY DEF Admit
<1>4. PICK fresh \in Fresh(m, Range(hit)) :
          /\ update_state_after_alloc(r, e, Matched(r, b), hit \o fresh)
          /\ content' = [p \in Pages |-> IF p \in Range(fresh) THEN Junk ELSE content[p]]
          /\ requests' = [requests EXCEPT ![r].status = "running", ![r].computed = c,
                                         ![r].table = hit \o fresh]
          /\ step' = [step EXCEPT
                !.new = IF resumed THEN @ ELSE @ \cup {r},
                !.cached = IF resumed THEN @ \cup {r} ELSE @,
                !.resumed = IF resumed THEN @ \cup {r} ELSE @,
                !.tokens[r] = tokens,
                !.added[r] = hit \o fresh]
  BY <1>3
<1> DEFINE t == hit \o fresh
<1>5. m \in Nat /\ n + m = PagesFor(c + tokens)
  <2>1. b <= c + tokens /\ c + tokens \in Nat
    BY <1>1
  <2>2. PagesFor(b) = n
    BY Boundary
  <2>3. PagesFor(b) <= PagesFor(c + tokens) /\ PagesFor(c + tokens) \in Nat
    BY <1>1, <2>1, PagesGrow, PagesAre
  <2> HIDE DEF b, c
  <2> QED  BY <2>2, <2>3
<1>6. /\ hit \in Seq(Pages) /\ Len(hit) = n /\ Distinct(hit)
      /\ \A i \in 1 .. n : hit[i] \in Pages /\ content[hit[i]] = Full(r, i)
  BY HitIs
<1> HIDE DEF m
<1>7. /\ fresh \in Seq(Pages) /\ Len(fresh) = m /\ Distinct(fresh)
      /\ \A i \in 1 .. m : /\ fresh[i] \in Pages /\ fresh[i] \in Free
                           /\ fresh[i] \notin Range(hit)
  BY <1>5, FreshIs
<1>8. \A i \in 1 .. m : \A j \in 1 .. n : fresh[i] # hit[j]
  BY <1>6, <1>7 DEF Range
<1>9. /\ t \in Seq(Pages) /\ Distinct(t) /\ Len(t) = n + m
      /\ \A i \in 1 .. n : t[i] = hit[i]
      /\ \A i \in n + 1 .. n + m : t[i] = fresh[i - n]
  BY <1>6, <1>7, <1>8, Grown
<1>10. \A i \in 1 .. n : hit[i] \notin Range(fresh)
  BY <1>7, <1>8 DEF Range
<1>11. /\ requests'[r].table = t /\ requests'[r].status = "running"
       /\ requests'[r].computed = c
       /\ \A q \in Requests \ {r} : requests'[q] = requests[q]
       /\ requests' \in [Requests -> RequestRecord]
  <2> HIDE DEF c, t
  <2>1. requests' = [requests EXCEPT ![r].status = "running", ![r].computed = c,
                                    ![r].table = t]
    BY <1>4 DEF t
  <2>2. requests' = [requests EXCEPT ![r] = [@ EXCEPT !.status = "running",
                                                     !.computed = c, !.table = t]]
    BY <1>0, <2>1 DEF RequestRecord
  <2>3. requests[r] \in RequestRecord
    BY <1>0
  <2>4. [requests[r] EXCEPT !.status = "running", !.computed = c, !.table = t]
          \in RequestRecord
    BY <1>1, <1>9, <2>3 DEF RequestRecord
  <2>5. /\ requests'[r] = [requests[r] EXCEPT !.status = "running", !.computed = c,
                                              !.table = t]
        /\ \A q \in Requests \ {r} : requests'[q] = requests[q]
        /\ requests' \in [Requests -> RequestRecord]
    BY <1>0, <2>2, <2>4
  <2> QED  BY <2>3, <2>5 DEF RequestRecord
<1>12. /\ \A q \in Requests \ {r} : /\ Table(q)' = Table(q) /\ Done(q)' = Done(q)
                                    /\ q \in Running' <=> q \in Running
                                    /\ requests'[q].status = requests[q].status
       /\ Table(r)' = t /\ Done(r)' = c /\ r \in Running' /\ r \notin Running
       /\ Table(r) = <<>>
  <2> HIDE DEF c, t
  <2> QED  BY <1>2, <1>11 DEF Table, Done, Running, Tables
<1>13. /\ step.tokens \in [Requests -> Nat] /\ step.added \in [Requests -> Seq(Pages)]
       /\ step.finished \subseteq Requests /\ step.resumed \subseteq Requests
       /\ step.new \subseteq Requests /\ step.cached \subseteq Requests
  BY <1>0 DEF StepRecord
<1>14. /\ step'.new = IF resumed THEN step.new ELSE step.new \cup {r}
       /\ step'.cached = IF resumed THEN step.cached \cup {r} ELSE step.cached
       /\ step'.resumed = IF resumed THEN step.resumed \cup {r} ELSE step.resumed
       /\ step'.finished = step.finished
       /\ step'.tokens = [step.tokens EXCEPT ![r] = tokens]
       /\ step'.added = [step.added EXCEPT ![r] = t]
       /\ step' \in StepRecord
  <2> HIDE DEF t, resumed
  <2>1. step' = [step EXCEPT
                !.new = IF resumed THEN @ ELSE @ \cup {r},
                !.cached = IF resumed THEN @ \cup {r} ELSE @,
                !.resumed = IF resumed THEN @ \cup {r} ELSE @,
                !.tokens[r] = tokens,
                !.added[r] = t]
    BY <1>4 DEF t
  <2>2. /\ step'.new = IF resumed THEN step.new ELSE step.new \cup {r}
        /\ step'.cached = IF resumed THEN step.cached \cup {r} ELSE step.cached
        /\ step'.resumed = IF resumed THEN step.resumed \cup {r} ELSE step.resumed
        /\ step'.finished = step.finished
        /\ step'.tokens = [step.tokens EXCEPT ![r] = tokens]
        /\ step'.added = [step.added EXCEPT ![r] = t]
    BY <1>0, <2>1 DEF StepRecord
  <2>3. /\ [step.tokens EXCEPT ![r] = tokens] \in [Requests -> Nat]
        /\ [step.added EXCEPT ![r] = t] \in [Requests -> Seq(Pages)]
    BY <1>9, <1>13
  <2>4. step' = [new |-> step'.new, cached |-> step'.cached, resumed |-> step'.resumed,
                 finished |-> step'.finished, tokens |-> step'.tokens,
                 added |-> step'.added]
    BY <1>0, <2>1 DEF StepRecord
  <2>5. /\ step'.new \subseteq Requests /\ step'.cached \subseteq Requests
        /\ step'.resumed \subseteq Requests /\ step'.finished \subseteq Requests
    BY <1>13, <2>2
  <2>6. step' \in StepRecord
    BY <2>2, <2>3, <2>4, <2>5 DEF StepRecord
  <2> QED  BY <2>2, <2>6
<1>15. /\ step'.tokens[r] = tokens /\ step'.added[r] = t
       /\ Scheduled' = Scheduled \cup {r} /\ Scheduled \subseteq Requests
       /\ \A q \in Requests \ {r} :
            /\ step'.tokens[q] = step.tokens[q] /\ step'.added[q] = step.added[q]
            /\ q \in Scheduled' <=> q \in Scheduled
            /\ q \in step'.new <=> q \in step.new
            /\ q \in step'.cached <=> q \in step.cached
            /\ q \in step'.resumed <=> q \in step.resumed
  <2> HIDE DEF t, resumed
  <2> QED  BY <1>13, <1>14 DEF Scheduled
<1>16. pending_loads[r] = None
  BY <1>2 DEF LoadsKnown
<1>17. /\ need_load' = [need_load EXCEPT ![r] = None]
       /\ ~raised'
       /\ e = 0 => pending_loads' = pending_loads
       /\ e # 0 => pending_loads' = [pending_loads EXCEPT ![r] = [span |-> c, table |-> t]]
  <2>1. update_state_after_alloc(r, e, Matched(r, b), t) /\ ~raised
    BY <1>4 DEF Budget
  <2>2. CASE e = 0
    <3> HIDE DEF e, b, c, t
    <3> QED  BY <2>1, <2>2 DEF update_state_after_alloc
  <2>3. CASE e # 0
    <3>1. /\ Matched(r, b) = [span |-> Selected(r, b), external |-> e]
          /\ Matched(r, b) # None /\ Selected(r, b) = c
      BY <1>1, <2>3, MatchedIs, ExternalIs
    <3>2. Matched(r, b).external = e /\ Matched(r, b).span = c
      BY <3>1
    <3> HIDE DEF e, b, c, t
    <3> QED  BY <2>1, <2>3, <3>1, <3>2 DEF update_state_after_alloc
  <2> QED  BY <2>2, <2>3
<1>18. e # 0 => /\ c \in Spans /\ Cached(r, c)
                /\ r \in Active \/ ~(Cardinality(Active) >= MaxPendingRestores)
  <2> SUFFICES ASSUME e # 0
               PROVE  /\ c \in Spans /\ Cached(r, c)
                      /\ r \in Active \/ ~(Cardinality(Active) >= MaxPendingRestores)
    OBVIOUS
  <2>1. Selected(r, b) # 0 /\ c = Selected(r, b)
    BY <1>1, ExternalIs
  <2> QED  BY <1>1, <2>1, SelectedIs
<1> HIDE DEF b, e, c, t, resumed
<1>19. /\ \A q \in Requests \ {r} : /\ pending_loads'[q] = pending_loads[q]
                                    /\ need_load'[q] = need_load[q]
       /\ need_load'[r] = None
       /\ e = 0 => pending_loads'[r] = None
       /\ e # 0 => pending_loads'[r] = [span |-> c, table |-> t]
  BY <1>0, <1>16, <1>17
<1>20. TypeOK'
  <2>1. Keys' = Keys
    BY <1>2 DEF Keys
  <2>2. need_load' \in [Requests -> [span : Spans, external : Nat] \cup {None}]
    BY <1>0, <1>17
  <2>3. pending_loads' \in [Requests -> [span : Spans, table : Seq(Pages)] \cup {None}]
    BY <1>0, <1>9, <1>17, <1>18
  <2>4. progress' \in [Requests -> [span : Spans, table : Seq(Pages)] \cup {None}]
    BY <1>2 DEF TypeOK
  <2> QED  BY <1>2, <1>11, <2>1, <2>2, <2>3, <2>4 DEF TypeOK, RequestRecord
<1>21. StepOK'
  <2>1. \A q \in Requests \ Scheduled' : step'.tokens[q] = 0
    BY <1>15 DEF StepOK
  <2>2. Scheduled' \subseteq Running'
    BY <1>12, <1>15 DEF StepOK
  <2>3. step.resumed \subseteq step.cached /\ step.new \cap step.cached = {}
    BY DEF StepOK
  <2>4. r \notin step.new /\ r \notin step.cached
    BY <1>2 DEF Scheduled
  <2>5. step'.resumed \subseteq step'.cached /\ step'.new \cap step'.cached = {}
    BY <1>14, <2>3, <2>4
  <2>6. \A q \in step'.finished : requests'[q].status = "finished"
    <3>1. r \notin step.finished
      BY <1>2 DEF StepOK
    <3> QED  BY <1>12, <1>13, <1>14, <3>1 DEF StepOK
  <2> QED  BY <1>2, <1>14, <2>1, <2>2, <2>5, <2>6 DEF StepOK
<1>22. Tables'
  <2>1. ASSUME NEW q \in Requests \ {r}
        PROVE  /\ requests'[q].status # "running" => Table(q)' = <<>>
               /\ requests'[q].status = "running" =>
                    Len(Table(q)') = PagesFor(Done(q)' + step'.tokens[q])
               /\ Distinct(Table(q)')
    <3>1. /\ requests'[q].status = requests[q].status /\ Table(q)' = Table(q)
          /\ Done(q)' = Done(q) /\ step'.tokens[q] = step.tokens[q]
      BY <1>12, <1>15
    <3> QED  BY <3>1 DEF Tables
  <2>2. /\ requests'[r].status = "running"
        /\ Len(Table(r)') = PagesFor(Done(r)' + step'.tokens[r]) /\ Distinct(Table(r)')
    <3>1. Done(r)' = c /\ Table(r)' = t /\ step'.tokens[r] = tokens
      BY <1>12, <1>15
    <3> QED  BY <1>5, <1>9, <1>11, <3>1
  <2> QED  BY <2>1, <2>2 DEF Tables
<1>23. \A q, s : Cached(q, s)' = Cached(q, s)
  BY <1>2 DEF Cached, HasChain, HasKey, has_boundary_quorum
<1>24. LoadsKnown' /\ StoresKnown'
  <2>1. metadata.loads = {} /\ metadata.stores = {}
    BY <1>2 DEF Turns
  <2>2. ASSUME NEW q \in Requests \ {r}, pending_loads'[q] # None
        PROVE  /\ phase' = "schedule" /\ q \in Scheduled'
               /\ pending_loads'[q].table = Table(q)'
               /\ pending_loads'[q].span <= Done(q)'
               /\ Cached(q, pending_loads[q].span)'
    <3>1. /\ Table(q)' = Table(q) /\ Done(q)' = Done(q)
          /\ q \in Scheduled' <=> q \in Scheduled
          /\ pending_loads'[q] = pending_loads[q]
      BY <1>12, <1>15, <1>19
    <3> QED  BY <1>2, <1>23, <2>2, <3>1 DEF LoadsKnown
  <2>3. ASSUME pending_loads'[r] # None
        PROVE  /\ phase' = "schedule" /\ r \in Scheduled'
               /\ pending_loads'[r].table = Table(r)'
               /\ pending_loads'[r].span <= Done(r)'
               /\ \A s : s = pending_loads'[r].span => Cached(r, s)'
    <3>1. e # 0 /\ pending_loads'[r] = [span |-> c, table |-> t]
      BY <1>19, <2>3
    <3>2. pending_loads'[r].span = c /\ pending_loads'[r].table = t /\ c <= c
      BY <1>1, <3>1
    <3>3. \A s : s = c => Cached(r, s)'
      BY <1>18, <1>23, <3>1
    <3> QED  BY <1>2, <1>12, <1>15, <3>2, <3>3
  <2>4. \A q \in Requests : pending_loads'[q] # None =>
          /\ phase' = "schedule" /\ q \in Scheduled'
          /\ pending_loads'[q].table = Table(q)'
          /\ pending_loads'[q].span <= Done(q)'
          /\ \A s : s = pending_loads'[q].span => Cached(q, s)'
    BY <1>19, <2>2, <2>3
  <2> QED  BY <1>2, <2>1, <2>4 DEF LoadsKnown, StoresKnown
<1>25. ProgressKnown'
  <2>1. ASSUME NEW q \in Requests \ {r}
        PROVE  /\ q \in step'.new \cup step'.resumed => step'.added[q] = Table(q)'
               /\ progress'[q] # None =>
                    /\ phase' = "schedule" => q \notin step'.new
                    /\ phase' = "schedule" /\ q \in step'.cached \ step'.resumed =>
                         progress'[q].table \o step'.added[q] = Table(q)'
                    /\ (q \in Running' /\ (phase' = "worker" \/ q \notin Scheduled')) =>
                         progress'[q].table = Table(q)'
    <3>1. /\ Table(q)' = Table(q) /\ (q \in Running' <=> q \in Running)
          /\ step'.added[q] = step.added[q] /\ (q \in Scheduled' <=> q \in Scheduled)
          /\ (q \in step'.cached <=> q \in step.cached)
          /\ (q \in step'.new <=> q \in step.new)
          /\ (q \in step'.resumed <=> q \in step.resumed)
      BY <1>12, <1>15
    <3> QED  BY <1>2, <3>1 DEF ProgressKnown
  <2>2. step'.added[r] = Table(r)' /\ phase' = "schedule" /\ r \in Scheduled'
    BY <1>2, <1>12, <1>15
  <2>3. r \notin step.new /\ r \notin step.cached /\ r \notin step.resumed
    BY <1>2 DEF Scheduled, StepOK
  <2>4. progress[r] # None => resumed
    BY <1>2 DEF BudgetReturns, StepOK, resumed
  <2>5. progress'[r] # None => r \notin step'.new /\ r \in step'.resumed
    BY <1>2, <1>14, <2>3, <2>4
  <2>6. /\ r \in step'.new \cup step'.resumed => step'.added[r] = Table(r)'
        /\ progress'[r] # None =>
             /\ phase' = "schedule" => r \notin step'.new
             /\ phase' = "schedule" /\ r \in step'.cached \ step'.resumed =>
                  progress'[r].table \o step'.added[r] = Table(r)'
             /\ (r \in Running' /\ (phase' = "worker" \/ r \notin Scheduled')) =>
                  progress'[r].table = Table(r)'
    BY <2>2, <2>5
  <2> QED  BY <2>1, <2>6 DEF ProgressKnown
<1>26. Turns'
  BY <1>2 DEF Turns
<1>27. Budget'
  <2>1. IsFiniteSet(Active) /\ Cardinality(Active) <= MaxPendingRestores
    BY DEF Budget
  <2>2. IsFiniteSet(Active') /\ Cardinality(Active') <= MaxPendingRestores
    <3>1. CASE e = 0
      <4>1. Active' \subseteq Active
        BY <1>19, <3>1 DEF Active
      <4>2. IsFiniteSet(Active') /\ Cardinality(Active') <= Cardinality(Active)
        BY <2>1, <4>1, FS_Subset
      <4>3. /\ Cardinality(Active') \in Nat /\ Cardinality(Active) \in Nat
            /\ MaxPendingRestores \in Nat
        BY <2>1, <4>2, FS_CardinalityType, PlanningAssumption
      <4> QED  BY <2>1, <4>2, <4>3
    <3>2. CASE e # 0
      <4>1. Active' \subseteq Active \cup {r}
        BY <1>19 DEF Active
      <4> QED  BY <1>18, <2>1, <3>2, <4>1, WithinBudget
    <3> QED  BY <3>1, <3>2
  <2> QED  BY <1>2, <1>17, <2>2 DEF Budget
<1>28. ASSUME NEW q \in Requests \ {r}, NEW i
       PROVE  Due(q, i)' = Due(q, i)
  BY <1>2, <1>19 DEF Due
<1>29. /\ \A q \in Requests : \A i \in 1 .. Len(Table(q)) :
            content'[Table(q)[i]] = content[Table(q)[i]]
       /\ \A q \in Requests \ {r} : \A i \in 1 .. Len(Table(q)) : PageOK(q, i)'
  <2>1. \A q \in Requests \ {r} :
          /\ Table(q)' = Table(q) /\ Done(q)' = Done(q)
          /\ \A i \in 1 .. Len(Table(q)) : Due(q, i) => Due(q, i)'
    BY <1>12, <1>28
  <2> QED  BY <1>4, <1>7, <2>1, OthersStay
<1>30. \A i \in 1 .. n : content'[hit[i]] = Full(r, i)
  BY <1>4, <1>6, <1>10
<1>31. ASSUME NEW i \in 1 .. Len(Table(r)')
       PROVE  PageOK(r, i)'
  <2>1. i \in Nat \ {0} /\ Done(r)' = c /\ Table(r)' = t /\ i <= n + m
    BY <1>9, <1>12
  <2>2. CASE i <= n
    <3>1. content'[Table(r)'[i]] = Full(r, i)
      BY <1>9, <1>30, <2>1, <2>2
    <3>2. Whole(i, b)
      BY <2>1, <2>2, Boundary DEF b
    <3>3. Whole(i, c)
      BY <1>1, <2>1, <3>2, PositionsGrow DEF c
    <3> QED  BY <2>1, <3>1, <3>3, FullIs DEF PageOK
  <2>3. CASE i > n
    <3>1. i \in n + 1 .. n + m /\ i - n \in 1 .. m
      BY <1>5, <2>1, <2>3
    <3>2. Table(r)'[i] = fresh[i - n] /\ fresh[i - n] \in Pages /\ fresh[i - n] \in Range(fresh)
      BY <1>7, <1>9, <2>1, <3>1 DEF Range
    <3>3. content'[Table(r)'[i]] = Junk
      BY <1>4, <3>2
    <3>4. Whole(i, c) => Due(r, i)'
      <4>1. CASE e = 0
        <5>1. c = b
          BY <1>1, <4>1 DEF c
        <5>2. ~Whole(i, b)
          BY <2>1, <2>3, Boundary DEF b
        <5> QED  BY <5>1, <5>2
      <4>2. CASE e # 0
        <5>1. pending_loads'[r].span = c
          BY <1>19, <4>2
        <5> QED  BY <5>1 DEF Due
      <4> QED  BY <4>1, <4>2
    <3>5. Begun(i, c) => Whole(i, c)
      <4>1. \E k \in Nat : c = k * Chunk
        <5>1. CASE e = 0
          BY <1>1, <5>1 DEF c, b
        <5>2. CASE e # 0
          BY <1>18, <5>2, SpanFacts
        <5> QED  BY <5>1, <5>2
      <4>2. PICK k \in Nat : c = k * Chunk
        BY <4>1
      <4> QED  BY <2>1, <4>2, Boundary
    <3> QED  BY <2>1, <3>3, <3>4, <3>5, FullIs DEF PageOK
  <2> QED  BY <2>1, <2>2, <2>3
<1>32. PagesRight'
  BY <1>12, <1>29, <1>31 DEF PagesRight
<1>33. SharedFull'
  <2>1. \A i \in 1 .. Len(hit) : content'[hit[i]].tokens = Chunk
    BY <1>6, <1>30, FullIs
  <2> QED  BY <1>6, <1>7, <1>12, <1>29, <2>1, SharedStay DEF t
<1>34. StoresRight'
  BY <1>2 DEF StoresRight
<1>35. BudgetReturns'
  <2>1. ASSUME NEW q \in Requests
        PROVE  /\ need_load'[q] # None => \/ requests'[q].status \in {"waiting", "preempted"}
                                          \/ q \in step'.finished
               /\ progress'[q] # None => \/ requests'[q].status \in {"running", "preempted"}
                                         \/ q \in step'.finished
    <3>1. CASE q = r
      BY <1>11, <1>19, <3>1
    <3>2. CASE q # r
      BY <1>2, <1>12, <1>14, <1>19, <3>2 DEF BudgetReturns
    <3> QED  BY <3>1, <3>2
  <2> QED  BY <2>1 DEF BudgetReturns
<1> QED
  BY <1>20, <1>21, <1>22, <1>24, <1>25, <1>26, <1>27, <1>32, <1>33, <1>34, <1>35

---------------------------------------------------------------------------
(* The metadata.                                                           *)

\* What is tracked of a request is its table, and a span that it may be stored at.
LEMMA TrackingIs ==
  ASSUME IInv, phase = "schedule", NEW r \in TrackedNew \cup TrackedCached
  PROVE  /\ r \in Requests /\ r \in Scheduled /\ r \in Running
         /\ Tracking(r).span \in Spans /\ Tracking(r).table = Table(r)
         /\ Tracking(r) \in [span : Spans, table : Seq(Pages)]
<1> USE DEF IInv
<1>0. step \in StepRecord /\ step.new \cap step.cached = {}
  BY DEF StepOK
<1>1. r \in Requests /\ r \in Scheduled
  BY <1>0 DEF TrackedNew, TrackedCached, Scheduled, StepRecord
<1>2. r \in Running /\ Table(r) \in Seq(Pages)
  BY <1>1, Typed DEF StepOK
<1>3. CASE r \in TrackedNew
  <2>1. safe_store_span(r) \in Spans
    BY <1>1, <1>3, SafeStore DEF TrackedNew
  <2>2. step.added[r] = Table(r)
    BY <1>1, <1>3 DEF TrackedNew, ProgressKnown
  <2>3. Tracking(r) = [span |-> safe_store_span(r), table |-> Table(r)]
    BY <1>3, <2>2 DEF Tracking
  <2> QED  BY <1>1, <1>2, <2>1, <2>3
<1>4. CASE r \notin TrackedNew
  <2>1. r \in step.cached /\ progress[r] # None
    BY <1>4 DEF TrackedCached
  <2>2. progress[r] \in [span : Spans, table : Seq(Pages)]
    BY <1>1, <2>1 DEF TypeOK
  <2>3. Merged(r) = Table(r)
    BY <1>1, <2>1 DEF Merged, ProgressKnown
  <2>4. Tracking(r) = [span |-> progress[r].span, table |-> Table(r)]
    BY <1>4, <2>3 DEF Tracking
  <2> QED  BY <1>1, <1>2, <2>2, <2>4
<1> QED  BY <1>3, <1>4

\* A plan for a store is of a boundary that its request has reached.
LEMMA CandidatesAre ==
  ASSUME IInv, phase = "schedule", NEW s \in Candidates
  PROVE  /\ s \in [request : Requests, span : Spans, table : Seq(Pages)]
         /\ s.request \in Scheduled /\ s.table = Table(s.request)
         /\ s.span <= Done(s.request)
         /\ ExactBoundary => s.span = Done(s.request)
<1>1. PICK r \in TrackedNew \cup TrackedCached :
        /\ Candidate(r) > 0
        /\ s = [request |-> r, span |-> Candidate(r), table |-> Tracking(r).table]
  BY DEF Candidates
<1>2. /\ r \in Requests /\ r \in Scheduled /\ Tracking(r).span \in Spans
      /\ Tracking(r).table = Table(r)
  BY TrackingIs
<1>3. Done(r) \in Nat /\ Table(r) \in Seq(Pages) /\ step.tokens[r] \in Nat
  BY <1>2, Typed DEF IInv, StepOK, StepRecord
<1>4. Candidate(r) = pre_forward_store_span(Done(r), step.tokens[r], Tracking(r).span)
  BY DEF Candidate, Done
<1>5. /\ Candidate(r) \in Spans /\ Candidate(r) <= Done(r)
      /\ ExactBoundary => Candidate(r) = Done(r)
  BY <1>1, <1>2, <1>3, <1>4, PreForwardIs
<1> QED  BY <1>1, <1>2, <1>3, <1>5

\* build_connector_meta hands over what was planned.
LEMMA BuildMetaKeeps ==
  ASSUME IInv, BuildMeta
  PROVE  IInv'
<1> USE DEF IInv
<1> DEFINE P == {t \in Requests : pending_loads[t] # None}
           load(t) == [request |-> t, span |-> pending_loads[t].span,
                       table |-> pending_loads[t].table]
<1>1. /\ phase = "schedule" /\ phase' = "worker"
      /\ pending_loads' = [r \in Requests |-> None]
      /\ need_load' = [r \in Requests |-> IF r \in step.finished THEN None ELSE need_load[r]]
      /\ skip_write' = skip_write \ step.finished
      /\ stored' = {}
      /\ UNCHANGED <<layout, requests, content, step, quorum, raised>>
  BY DEF BuildMeta, Remembered
<1>2. PICK stores \in Admitted(Candidates) :
        metadata' = [loads |-> {load(t) : t \in P}, stores |-> stores]
  BY DEF BuildMeta
<1>3. metadata'.loads = {load(t) : t \in P} /\ metadata'.stores \subseteq Candidates
  BY <1>2 DEF Admitted
<1>4. ASSUME NEW r \in Requests
      PROVE  progress'[r] = IF r \in step.finished THEN None
                            ELSE IF r \notin TrackedNew \cup TrackedCached THEN progress[r]
                            ELSE IF Candidate(r) = Unreached THEN Tracking(r) ELSE None
  BY DEF BuildMeta, Remembered
<1>5. \A r : Table(r)' = Table(r) /\ Done(r)' = Done(r)
  BY <1>1 DEF Table, Done
<1>6. Running' = Running /\ Scheduled' = Scheduled /\ (ExactBoundary' <=> ExactBoundary)
  BY <1>1 DEF Running, Scheduled, ExactBoundary
<1>7. ASSUME NEW t \in P
      PROVE  load(t) \in [request : Requests, span : Spans, table : Seq(Pages)]
  <2>1. pending_loads[t] \in [span : Spans, table : Seq(Pages)]
    BY DEF TypeOK
  <2> QED  BY <2>1
<1>8. ASSUME NEW r \in Requests
      PROVE  progress'[r] \in [span : Spans, table : Seq(Pages)] \cup {None}
  <2>1. progress[r] \in [span : Spans, table : Seq(Pages)] \cup {None}
    BY DEF TypeOK
  <2>2. r \in TrackedNew \cup TrackedCached =>
          Tracking(r) \in [span : Spans, table : Seq(Pages)]
    BY <1>1, TrackingIs
  <2> QED  BY <1>4, <2>1, <2>2
<1>9. TypeOK'
  <2>1. Keys' = Keys
    BY <1>1 DEF Keys
  <2>2. progress' = [r \in Requests |-> progress'[r]]
    BY DEF BuildMeta, Remembered
  <2>3. progress' \in [Requests -> [span : Spans, table : Seq(Pages)] \cup {None}]
    BY <1>8, <2>2
  <2>4. need_load' \in [Requests -> [span : Spans, external : Nat] \cup {None}]
    BY <1>1 DEF TypeOK
  <2>5. pending_loads' \in [Requests -> [span : Spans, table : Seq(Pages)] \cup {None}]
    BY <1>1
  <2>6. \A plan \in metadata'.loads \cup metadata'.stores :
          plan \in [request : Requests, span : Spans, table : Seq(Pages)]
    BY <1>1, <1>3, <1>7, CandidatesAre
  <2>7. skip_write' \subseteq Requests
    BY <1>1 DEF TypeOK
  <2> QED  BY <1>1, <2>1, <2>3, <2>4, <2>5, <2>6, <2>7 DEF TypeOK
<1>10. StepOK'
  BY <1>1, <1>6 DEF StepOK
<1>11. Tables'
  BY <1>1, <1>5 DEF Tables
<1>12. \A q, s : Cached(q, s)' = Cached(q, s)
  BY <1>1 DEF Cached, HasChain, HasKey, has_boundary_quorum
<1>13. LoadsKnown'
  <2>1. \A r \in Requests : pending_loads'[r] = None
    BY <1>1
  <2>2. ASSUME NEW l \in metadata'.loads
        PROVE  /\ l.request \in Scheduled' /\ l.table = Table(l.request)'
               /\ l.span <= Done(l.request)' /\ Cached(l.request, l.span)'
    <3>1. PICK t \in P : l = load(t)
      BY <1>3
    <3>2. /\ t \in Scheduled /\ pending_loads[t].table = Table(t)
          /\ pending_loads[t].span <= Done(t) /\ Cached(t, pending_loads[t].span)
      BY DEF LoadsKnown
    <3>3. l.request = t /\ l.table = Table(t) /\ l.span <= Done(t) /\ Cached(t, l.span)
      BY <3>1, <3>2
    <3> QED  BY <1>5, <1>6, <1>12, <3>2, <3>3
  <2> QED  BY <2>1, <2>2 DEF LoadsKnown
<1>14. StoresKnown'
  BY <1>1, <1>3, <1>5, <1>6, CandidatesAre DEF StoresKnown
<1>15. ProgressKnown'
  <2>1. ASSUME NEW r \in Running, progress'[r] # None, r \in Requests
        PROVE  progress'[r].table = Table(r)
    <3>1. CASE r \in TrackedNew \cup TrackedCached
      BY <1>1, <1>4, <2>1, <3>1, TrackingIs
    <3>2. CASE r \notin TrackedNew \cup TrackedCached
      <4>1. progress'[r] = progress[r] /\ progress[r] # None
        BY <1>4, <2>1, <3>2
      <4>2. r \notin step.new /\ r \notin step.cached
        BY <1>1, <2>1, <3>2, <4>1 DEF TrackedCached, ProgressKnown
      <4> QED  BY <2>1, <4>1, <4>2 DEF ProgressKnown, Scheduled
    <3> QED  BY <3>1, <3>2
  <2> QED  BY <1>1, <1>5, <1>6, <2>1 DEF ProgressKnown
<1>16. Turns'
  <2>1. step.finished \subseteq Requests
    BY DEF StepOK, StepRecord
  <2> QED  BY <1>1, <1>4, <2>1 DEF Turns
<1>17. Budget'
  <2>1. IsFiniteSet(Active) /\ Cardinality(Active) <= MaxPendingRestores /\ ~raised
    BY DEF Budget
  <2>2. Active' \subseteq Active /\ P \subseteq Active
    BY <1>1 DEF Active
  <2>3. /\ IsFiniteSet(Active') /\ Cardinality(Active') <= Cardinality(Active)
        /\ IsFiniteSet(P) /\ Cardinality(P) <= Cardinality(Active)
    BY <2>1, <2>2, FS_Subset
  <2> DEFINE f == [t \in P |-> load(t)]
  <2>4. f \in Surjection(P, metadata'.loads)
    BY <1>3 DEF Surjection
  <2>5. IsFiniteSet(metadata'.loads) /\ Cardinality(metadata'.loads) <= Cardinality(P)
    BY <2>3, <2>4, FS_Surjection
  <2>6. /\ Cardinality(Active') \in Nat /\ Cardinality(Active) \in Nat
        /\ Cardinality(P) \in Nat /\ Cardinality(metadata'.loads) \in Nat
        /\ MaxPendingRestores \in Nat
    BY <2>1, <2>3, <2>5, FS_CardinalityType, PlanningAssumption
  <2>7. /\ Cardinality(Active') <= MaxPendingRestores
        /\ Cardinality(metadata'.loads) <= MaxPendingRestores
    BY <2>1, <2>3, <2>5, <2>6
  <2> QED  BY <1>1, <2>1, <2>3, <2>7 DEF Budget
<1>18. PagesRight' /\ SharedFull'
  <2>1. ASSUME NEW q \in Requests, NEW i \in 1 .. Len(Table(q)), Due(q, i)
        PROVE  Due(q, i)'
    <3>1. metadata.loads = {}
      BY <1>1 DEF Turns
    <3>2. Whole(i, pending_loads[q].span)
      BY <2>1, <3>1 DEF Due
    <3>3. ~Whole(i, 0)
      BY ChunkIs DEF Whole
    <3>4. q \in P
      BY <3>2, <3>3 DEF None
    <3>5. load(q) \in metadata'.loads /\ load(q).request = q /\ Whole(i, load(q).span)
      BY <1>3, <3>2, <3>4
    <3> QED  BY <3>5 DEF Due
  <2>2. \A q \in Requests :
          /\ Table(q)' = Table(q) /\ Done(q)' = Done(q)
          /\ \A i \in 1 .. Len(Table(q)) : Due(q, i) => Due(q, i)'
    BY <1>5, <2>1
  <2> QED  BY <1>1, <2>2, PagesStay
<1>19. StoresRight'
  BY <1>1 DEF StoresRight
<1>20. BudgetReturns'
  <2>1. ASSUME NEW r \in Requests
        PROVE  /\ need_load'[r] # None => \/ requests'[r].status \in {"waiting", "preempted"}
                                          \/ r \in step'.finished
               /\ progress'[r] # None => \/ requests'[r].status \in {"running", "preempted"}
                                         \/ r \in step'.finished
    <3>1. need_load'[r] # None => need_load[r] # None
      BY <1>1
    <3>2. progress'[r] # None => progress[r] # None \/ r \in Running
      BY <1>1, <1>4, TrackingIs
    <3> QED  BY <1>1, <3>1, <3>2 DEF BudgetReturns, Running
  <2> QED  BY <2>1 DEF BudgetReturns
<1> QED
  BY <1>9, <1>10, <1>11, <1>13, <1>14, <1>15, <1>16, <1>17, <1>18, <1>19, <1>20

---------------------------------------------------------------------------
(* The workers.                                                            *)

\* Two places with the same page are the same place, or hold a full page.
LEMMA SamePage ==
  ASSUME IInv, NEW r \in Requests, NEW i \in 1 .. Len(Table(r)),
         NEW q \in Requests, NEW j \in 1 .. Len(Table(q)), Table(r)[i] = Table(q)[j]
  PROVE  \/ r = q /\ i = j
         \/ /\ Whole(i, Done(r)) /\ Whole(j, Done(q))
            /\ content[Table(r)[i]] = Full(r, i) /\ Full(q, j) = Full(r, i)
<1> USE DEF IInv
<1>1. CASE r = q
  BY <1>1 DEF Tables, Distinct
<1>2. CASE r # q
  <2>1. content[Table(r)[i]].tokens = Chunk
    BY <1>2 DEF SharedFull
  <2>2. PageOK(r, i) /\ PageOK(q, j)
    BY DEF PagesRight
  <2> QED  BY <2>1, <2>2 DEF PageOK
<1> QED  BY <1>1, <1>2

\* The place of a request's page, and that Loaded and Forwarded look there.
LEMMA Places ==
  ASSUME IInv, NEW r \in Requests, NEW i \in 1 .. Len(Table(r))
  PROVE  /\ i \in Nat \ {0} /\ i \in 1 .. Cardinality(Pages) /\ Table(r)[i] \in Pages
         /\ r \in Running /\ Done(r) \in Nat /\ step.tokens[r] \in Nat
         /\ Begun(i, Done(r) + step.tokens[r])
<1> USE DEF IInv
<1>1. /\ Table(r) \in Seq(Pages) /\ Len(Table(r)) \in Nat /\ Table(r)[i] \in Pages
      /\ Done(r) \in Nat /\ step.tokens[r] \in Nat
  BY Typed DEF StepOK, StepRecord
<1>2. Len(Table(r)) <= Cardinality(Pages) /\ Cardinality(Pages) \in Nat
  BY <1>1, TableFits DEF Tables
<1>3. r \in Running /\ Len(Table(r)) = PagesFor(Done(r) + step.tokens[r])
  BY DEF Tables, Running
<1>4. i \in Nat \ {0} /\ i <= PagesFor(Done(r) + step.tokens[r])
  BY <1>1, <1>3
<1>5. Begun(i, Done(r) + step.tokens[r])
  BY <1>1, <1>4, Positions
<1> QED  BY <1>1, <1>2, <1>3, <1>4, <1>5

\* A restore writes pages of its request that are counted as computed.
LEMMA RestoresAre ==
  ASSUME IInv, NEW p, NEW w \in Restores(p)
  PROVE  /\ w[1] \in metadata.loads /\ w[1].request \in Requests
         /\ w[2] \in 1 .. Len(Table(w[1].request))
         /\ Table(w[1].request)[w[2]] = p /\ Whole(w[2], Done(w[1].request))
<1> USE DEF IInv
<1> DEFINE l == w[1]
           j == w[2]
           q == l.request
<1>1. /\ l \in metadata.loads /\ j \in 1 .. Cardinality(Pages)
      /\ j * Chunk <= l.span /\ l.table[j] = p
  BY DEF Restores
<1>2. q \in Requests /\ q \in Scheduled /\ l.table = Table(q) /\ l.span <= Done(q)
  BY <1>1 DEF LoadsKnown, TypeOK
<1>3. l.span \in Nat
  <2>1. l.span \in Spans
    BY <1>1 DEF TypeOK
  <2> QED  BY <1>2, <2>1, SpanFacts
<1>4. /\ q \in Running /\ Done(q) \in Nat /\ step.tokens[q] \in Nat
      /\ Len(Table(q)) = PagesFor(Done(q) + step.tokens[q]) /\ Len(Table(q)) \in Nat
  BY <1>2, Typed DEF StepOK, StepRecord, Tables, Running
<1> HIDE DEF l, j, q
<1>5. j \in Nat \ {0}
  BY <1>1
<1>6. Whole(j, l.span)
  BY <1>1 DEF Whole
<1>7. Whole(j, Done(q))
  BY <1>2, <1>3, <1>4, <1>5, <1>6, PositionsGrow
<1>8. Whole(j, Done(q) + step.tokens[q])
  <2>1. Done(q) + step.tokens[q] \in Nat /\ Done(q) <= Done(q) + step.tokens[q]
    BY <1>4
  <2> QED  BY <1>4, <1>5, <1>7, <2>1, PositionsGrow
<1>9. j <= Len(Table(q))
  BY <1>4, <1>5, <1>8, Positions
<1>10. j \in 1 .. Len(Table(q))
  BY <1>4, <1>5, <1>9
<1> QED  BY <1>1, <1>2, <1>7, <1>10 DEF l, j, q

\* After the restores, all that is counted as computed is in its page.
LEMMA LoadedIs ==
  ASSUME IInv, phase = "worker", NEW r \in Requests, NEW i \in 1 .. Len(Table(r))
  PROVE  /\ Whole(i, Done(r)) => Loaded[Table(r)[i]] = Full(r, i)
         /\ ~Whole(i, Done(r)) => Loaded[Table(r)[i]] = content[Table(r)[i]]
<1> USE DEF IInv
<1> DEFINE p == Table(r)[i]
<1>1. p \in Pages /\ i \in 1 .. Cardinality(Pages) /\ i \in Nat \ {0}
  BY Places
<1>2. Loaded[p] = IF Restores(p) = {} THEN content[p]
                  ELSE LET w == CHOOSE w \in Restores(p) : TRUE
                       IN Full(w[1].request, w[2])
  BY <1>1 DEF Loaded
<1>3. CASE Restores(p) # {}
  <2>1. PICK w \in Restores(p) : Loaded[p] = Full(w[1].request, w[2])
    BY <1>2, <1>3
  <2>2. /\ w[1].request \in Requests /\ w[2] \in 1 .. Len(Table(w[1].request))
        /\ Table(w[1].request)[w[2]] = p /\ Whole(w[2], Done(w[1].request))
    BY RestoresAre
  <2>3. Whole(i, Done(r)) /\ Full(w[1].request, w[2]) = Full(r, i)
    BY <2>2, SamePage
  <2> QED  BY <2>1, <2>3
<1>4. CASE Restores(p) = {}
  <2>1. Loaded[p] = content[p]
    BY <1>2, <1>4
  <2>2. PageOK(r, i)
    BY DEF PagesRight
  <2>3. ASSUME Whole(i, Done(r)) PROVE content[p].tokens = Chunk
    <3> SUFFICES ASSUME Due(r, i)  PROVE FALSE
      BY <2>2, <2>3 DEF PageOK
    <3>1. pending_loads[r] = None
      BY DEF LoadsKnown
    <3>2. ~Whole(i, pending_loads[r].span)
      BY <1>1, <3>1, ChunkIs DEF Whole, None
    <3>3. PICK l \in metadata.loads : l.request = r /\ Whole(i, l.span)
      BY <3>2 DEF Due
    <3>4. l.table = Table(r)
      BY <3>3 DEF LoadsKnown
    <3>5. <<l, i>> \in Restores(p)
      BY <1>1, <3>3, <3>4 DEF Restores, Whole
    <3> QED  BY <1>4, <3>5
  <2> QED  BY <2>1, <2>2, <2>3 DEF PageOK
<1> QED  BY <1>3, <1>4

\* The forward pass writes the pages that are not whole yet, each for one request.
LEMMA ComputesAre ==
  ASSUME IInv, NEW r \in Requests, NEW i \in 1 .. Len(Table(r))
  PROVE  Computes(Table(r)[i]) =
           IF r \in Scheduled /\ ~Whole(i, Done(r)) THEN {<<r, i>>} ELSE {}
<1> USE DEF IInv
<1> DEFINE p == Table(r)[i]
<1>1. /\ i \in 1 .. Cardinality(Pages) /\ i \in Nat \ {0} /\ Done(r) \in Nat
      /\ Chunk \in Nat
  BY Places, ChunkIs
<1>2. ASSUME NEW w \in Computes(p)
      PROVE  w = <<r, i>> /\ r \in Scheduled /\ ~Whole(i, Done(r))
  <2>1. /\ w \in Scheduled \X (1 .. Cardinality(Pages))
        /\ w[2] <= Len(Table(w[1])) /\ Table(w[1])[w[2]] = p
        /\ w[2] * Chunk > Done(w[1])
    BY DEF Computes, Table, Done
  <2>2. PICK q \in Scheduled, j \in 1 .. Cardinality(Pages) : w = <<q, j>>
    BY <2>1
  <2>3. q \in Requests /\ Len(Table(q)) \in Nat /\ Done(q) \in Nat
    BY <2>2, Typed DEF StepOK, Running
  <2>4. j \in 1 .. Len(Table(q)) /\ Table(q)[j] = p /\ j * Chunk > Done(q)
    BY <2>1, <2>2, <2>3
  <2>5. ~Whole(j, Done(q))
    BY <1>1, <2>3, <2>4 DEF Whole
  <2>6. r = q /\ i = j
    BY <2>3, <2>4, <2>5, SamePage
  <2> QED  BY <2>2, <2>5, <2>6
<1>3. ASSUME r \in Scheduled, ~Whole(i, Done(r))
      PROVE  <<r, i>> \in Computes(p)
  <2>1. i * Chunk > Done(r)
    BY <1>1, <1>3 DEF Whole
  <2>2. i <= Len(Table(r))
    BY Typed
  <2> QED  BY <1>1, <1>3, <2>1, <2>2 DEF Computes, Table, Done
<1> QED  BY <1>2, <1>3

\* A page after the step: whole, or with the tokens that are computed by then.
LEMMA AfterForward ==
  ASSUME IInv, phase = "worker", NEW r \in Requests, NEW i \in 1 .. Len(Table(r)),
         NEW d \in Nat, d = Done(r) + step.tokens[r]
  PROVE  Forwarded(Loaded)[Table(r)[i]] =
           IF Whole(i, d) THEN Full(r, i)
           ELSE [text |-> Text(r, i), tokens |-> d - (i - 1) * Chunk]
<1> USE DEF IInv
<1> DEFINE p == Table(r)[i]
           s == (i - 1) * Chunk
<1>1. /\ p \in Pages /\ i \in Nat \ {0} /\ Done(r) \in Nat /\ step.tokens[r] \in Nat
      /\ Begun(i, d) /\ r \in Running
  BY Places
<1>2. Chunk \in Nat /\ s \in Int /\ i * Chunk = s + Chunk
  <2>1. Chunk \in Nat /\ i \in Int
    BY <1>1, ChunkIs
  <2>2. (i - 1) * Chunk = i * Chunk - Chunk /\ i * Chunk \in Int
    BY <2>1, Multiples, Zenon
  <2> QED  BY <2>1, <2>2
<1>3. PageOK(r, i)
  BY DEF PagesRight
<1>4. Forwarded(Loaded)[p] =
        IF Computes(p) = {} THEN Loaded[p]
        ELSE LET w == CHOOSE w \in Computes(p) : TRUE IN Extended(w[1], w[2], Loaded[p])
  BY <1>1 DEF Forwarded
<1>5. CASE Whole(i, Done(r))
  <2>1. Computes(p) = {} /\ Loaded[p] = Full(r, i)
    BY <1>5, ComputesAre, LoadedIs
  <2>2. Whole(i, d)
    BY <1>1, <1>5, PositionsGrow
  <2> QED  BY <1>4, <2>1, <2>2
<1>6. CASE ~Whole(i, Done(r)) /\ r \notin Scheduled
  <2>1. Computes(p) = {} /\ Loaded[p] = content[p]
    BY <1>6, ComputesAre, LoadedIs
  <2>2. d = Done(r)
    BY <1>1, <1>6 DEF StepOK
  <2>3. content[p] = Partial(r, i)
    BY <1>1, <1>3, <1>6, <2>2 DEF PageOK
  <2> QED  BY <1>4, <1>6, <2>1, <2>2, <2>3 DEF Partial
<1>7. CASE ~Whole(i, Done(r)) /\ r \in Scheduled
  <2>1. Computes(p) = {<<r, i>>} /\ Loaded[p] = content[p]
    BY <1>7, ComputesAre, LoadedIs
  <2>2. Forwarded(Loaded)[p] = Extended(r, i, content[p])
    <3>1. (CHOOSE w \in Computes(p) : TRUE) = <<r, i>>
      BY <2>1
    <3> QED  BY <1>4, <2>1, <3>1
  <2> DEFINE x == Done(r) - s
  <2>3. x <= 0 \/ content[p] = [text |-> Text(r, i), tokens |-> x]
    <3>1. CASE Begun(i, Done(r))
      BY <1>3, <1>7, <3>1 DEF PageOK, Partial
    <3>2. CASE ~Begun(i, Done(r))
      <4>1. ~(s < Done(r))
        BY <3>2 DEF Begun
      <4> HIDE DEF s
      <4> QED  BY <1>1, <1>2, <4>1
    <3> QED  BY <3>1, <3>2
  <2>4. Extended(r, i, content[p]) =
          [text |-> Text(r, i), tokens |-> Least(x + step.tokens[r], Chunk)]
    BY <2>3 DEF Extended, Done
  <2>5. Whole(i, d) <=> s + Chunk <= d
    BY <1>2 DEF Whole
  <2> HIDE DEF s
  <2>6. x + step.tokens[r] = d - s /\ d - s \in Int
    BY <1>1, <1>2
  <2>7. Least(x + step.tokens[r], Chunk) = IF Whole(i, d) THEN Chunk ELSE d - s
    BY <1>2, <2>5, <2>6 DEF Least
  <2> QED  BY <2>2, <2>4, <2>7 DEF Full, s
<1> QED  BY <1>5, <1>6, <1>7

\* The workers restore, store and compute.
LEMMA ExecuteKeeps ==
  ASSUME IInv, Execute
  PROVE  IInv'
<1> USE DEF IInv
<1>1. /\ phase = "worker" /\ phase' = "schedule"
      /\ content' = Forwarded(Loaded)
      /\ step' = Idle
      /\ metadata' = [loads |-> {}, stores |-> {}]
      /\ UNCHANGED <<layout, quorum, need_load, pending_loads, progress, skip_write, raised>>
      /\ SaveStores
  BY DEF Execute, connector
<1>2. /\ step'.new = {} /\ step'.cached = {} /\ step'.resumed = {} /\ step'.finished = {}
      /\ step'.tokens = [r \in Requests |-> 0]
      /\ step'.added = [r \in Requests |-> <<>>]
      /\ metadata'.loads = {} /\ metadata'.stores = {}
  BY <1>1 DEF Idle
<1>3. /\ requests \in [Requests -> RequestRecord]
      /\ step.tokens \in [Requests -> Nat] /\ step.finished \subseteq Requests
  BY DEF TypeOK, StepOK, RequestRecord, StepRecord
<1>4. ASSUME NEW r \in Requests
      PROVE  /\ requests'[r] \in RequestRecord
             /\ requests'[r].status = requests[r].status
             /\ requests'[r].table = requests[r].table
             /\ requests'[r].computed = requests[r].computed + step.tokens[r]
  <2> DEFINE d == requests[r].computed + step.tokens[r]
             k == IF d = requests[r].known
                  THEN Least(requests[r].known + 1, Prompt[r] + MaxDecode)
                  ELSE requests[r].known
  <2>1. requests[r] \in RequestRecord /\ step.tokens[r] \in Nat
    BY <1>3
  <2>2. d \in Nat /\ k \in Nat /\ requests[r].computed \in Nat
    <3>1. /\ requests[r].computed \in Nat /\ requests[r].known \in Nat
          /\ Prompt[r] \in Nat /\ MaxDecode \in Nat
      BY <2>1, LongestIs, PlanningAssumption DEF RequestRecord
    <3> QED  BY <2>1, <3>1 DEF Least
  <2>3. requests'[r] = IF r \notin Scheduled THEN requests[r]
                       ELSE [requests[r] EXCEPT !.computed = d, !.known = k]
    BY DEF Execute
  <2> HIDE DEF d, k
  <2>4. CASE r \in Scheduled
    <3>1. requests'[r] = [requests[r] EXCEPT !.computed = d, !.known = k]
      BY <2>3, <2>4
    <3>2. /\ requests'[r] \in RequestRecord
          /\ requests'[r].status = requests[r].status
          /\ requests'[r].table = requests[r].table
          /\ requests'[r].computed = d
      BY <2>1, <2>2, <3>1 DEF RequestRecord
    <3> QED  BY <3>2 DEF d
  <2>5. CASE r \notin Scheduled
    <3>1. requests'[r] = requests[r] /\ step.tokens[r] = 0
      BY <2>3, <2>5 DEF StepOK
    <3> QED  BY <2>1, <2>2, <3>1
  <2> QED  BY <2>4, <2>5
<1>5. \A r \in Requests : /\ Table(r)' = Table(r) /\ Done(r)' = Done(r) + step.tokens[r]
                          /\ r \in Running' <=> r \in Running
  BY <1>4 DEF Table, Done, Running
<1>6. TypeOK'
  <2>1. Keys' = Keys
    BY <1>1 DEF Keys
  <2>2. requests' = [r \in Requests |-> requests'[r]]
    BY DEF Execute
  <2>3. requests' \in [Requests -> RequestRecord]
    BY <1>4, <2>2
  <2> QED  BY <1>1, <1>2, <2>1, <2>3 DEF TypeOK, RequestRecord
<1>7. StepOK'
  <2>1. step' \in StepRecord
    BY <1>1 DEF Idle, StepRecord
  <2>2. Scheduled' = {}
    BY <1>2 DEF Scheduled
  <2>3. \A r \in Requests : step'.tokens[r] = 0
    BY <1>2
  <2> QED  BY <1>1, <1>2, <2>1, <2>2, <2>3 DEF StepOK
<1>8. Tables'
  <2>1. ASSUME NEW r \in Requests
        PROVE  /\ requests'[r].status # "running" => Table(r)' = <<>>
               /\ requests'[r].status = "running" =>
                    Len(Table(r)') = PagesFor(Done(r)' + step'.tokens[r])
               /\ Distinct(Table(r)')
    <3>1. Done(r) \in Nat /\ step.tokens[r] \in Nat
      BY <1>3, Typed
    <3>2. Done(r)' + step'.tokens[r] = Done(r) + step.tokens[r]
      <4>1. Done(r)' = Done(r) + step.tokens[r] /\ step'.tokens[r] = 0
        BY <1>2, <1>5
      <4> QED  BY <3>1, <4>1
    <3>3. Table(r)' = Table(r) /\ requests'[r].status = requests[r].status
      BY <1>4, <1>5
    <3> QED  BY <3>2, <3>3 DEF Tables
  <2> QED  BY <2>1 DEF Tables
<1>9. LoadsKnown' /\ StoresKnown'
  <2>1. \A r \in Requests : pending_loads[r] = None
    BY <1>1 DEF LoadsKnown
  <2> QED  BY <1>1, <1>2, <2>1 DEF LoadsKnown, StoresKnown
<1>10. ProgressKnown'
  <2>1. ASSUME NEW r \in Requests, progress[r] # None, r \in Running
        PROVE  progress[r].table = Table(r)
    BY <1>1, <2>1 DEF ProgressKnown
  <2> QED  BY <1>1, <1>2, <1>5, <2>1 DEF ProgressKnown
<1>11. Turns'
  BY <1>1 DEF Turns
<1>12. Budget'
  <2>1. Active' = Active
    BY <1>1 DEF Active
  <2>2. Cardinality(metadata'.loads) = 0 /\ MaxPendingRestores \in Nat
    BY <1>2, FS_EmptySet, PlanningAssumption
  <2> QED  BY <1>1, <2>1, <2>2 DEF Budget
<1>13. ASSUME NEW r \in Requests, NEW i \in 1 .. Len(Table(r))
       PROVE  /\ content'[Table(r)[i]] =
                   IF Whole(i, Done(r)') THEN Full(r, i) ELSE Partial(r, i)'
              /\ Begun(i, Done(r)') /\ Done(r)' \in Nat /\ i \in Nat \ {0}
              /\ Whole(i, Done(r)) => Whole(i, Done(r)')
  <2>1. /\ Done(r) \in Nat /\ step.tokens[r] \in Nat /\ i \in Nat \ {0}
        /\ Begun(i, Done(r) + step.tokens[r])
    BY Places
  <2>2. PICK d \in Nat : d = Done(r) + step.tokens[r]
    BY <2>1
  <2>3. Done(r)' = d /\ Done(r) <= d
    BY <1>5, <2>1, <2>2
  <2>4. Forwarded(Loaded)[Table(r)[i]] =
           IF Whole(i, d) THEN Full(r, i)
           ELSE [text |-> Text(r, i), tokens |-> d - (i - 1) * Chunk]
    BY <1>1, <2>2, AfterForward
  <2>5. Partial(r, i)' = [text |-> Text(r, i), tokens |-> d - (i - 1) * Chunk]
    BY <2>3 DEF Partial
  <2>6. Whole(i, Done(r)) => Whole(i, d)
    BY <2>1, <2>3, PositionsGrow
  <2> QED  BY <1>1, <2>1, <2>2, <2>3, <2>4, <2>5, <2>6
<1>14. PagesRight'
  <2>1. ASSUME NEW r \in Requests, NEW i \in 1 .. Len(Table(r))
        PROVE  PageOK(r, i)'
    <3>1. /\ content'[Table(r)[i]] =
               IF Whole(i, Done(r)') THEN Full(r, i) ELSE Partial(r, i)'
          /\ Begun(i, Done(r)') /\ Done(r)' \in Nat /\ i \in Nat \ {0}
      BY <1>13
    <3>2. Table(r)' = Table(r)
      BY <1>5
    <3>3. Whole(i, Done(r)') => content'[Table(r)[i]].tokens = Chunk
      BY <3>1, FullIs
    <3>4. ~Whole(i, Done(r)') => Partial(r, i)'.tokens # Chunk
      <4>1. Chunk \in Nat /\ i \in Int
        BY <3>1, ChunkIs
      <4>2. (i - 1) * Chunk = i * Chunk - Chunk /\ i * Chunk \in Int
        BY <4>1, Multiples, Zenon
      <4>3. Partial(r, i)'.tokens = Done(r)' - (i - 1) * Chunk
        BY DEF Partial
      <4>4. ~Whole(i, Done(r)') => i * Chunk > Done(r)'
        BY <3>1, <4>2 DEF Whole
      <4> QED  BY <3>1, <4>1, <4>2, <4>3, <4>4
    <3> QED  BY <3>1, <3>2, <3>3, <3>4 DEF PageOK
  <2> QED  BY <1>5, <2>1 DEF PagesRight
<1>15. SharedFull'
  <2> SUFFICES ASSUME NEW r \in Requests, NEW q \in Requests, r # q,
                      NEW i \in 1 .. Len(Table(r)'), NEW j \in 1 .. Len(Table(q)'),
                      Table(r)'[i] = Table(q)'[j]
               PROVE  content'[Table(r)'[i]].tokens = Chunk
    BY DEF SharedFull
  <2>1. /\ Table(r)' = Table(r) /\ i \in 1 .. Len(Table(r))
        /\ Table(q)' = Table(q) /\ j \in 1 .. Len(Table(q))
    BY <1>5
  <2>2. Whole(i, Done(r))
    BY <2>1, SamePage
  <2>3. content'[Table(r)[i]] = Full(r, i)
    BY <1>13, <2>1, <2>2
  <2> QED  BY <2>1, <2>3, FullIs
<1>16. StoresRight'
  <2> SUFFICES ASSUME NEW s \in stored'
               PROVE  s.read = [i \in 1 .. (s.plan.span \div Chunk) |->
                                  Full(s.plan.request, i)]
    BY DEF StoresRight
  <2>1. PICK plan \in metadata.stores :
          s = [plan |-> plan,
               read |-> [i \in 1 .. (plan.span \div Chunk) |-> Loaded[plan.table[i]]]]
    BY <1>1 DEF SaveStores
  <2>2. /\ plan.request \in Requests /\ plan.request \in Scheduled
        /\ plan.table = Table(plan.request) /\ plan.span <= Done(plan.request)
        /\ plan.span \in Spans
    BY DEF StoresKnown, TypeOK
  <2> DEFINE q == plan.request
  <2>3. /\ plan.span \in Nat /\ Done(q) \in Nat /\ step.tokens[q] \in Nat
        /\ Len(Table(q)) = PagesFor(Done(q) + step.tokens[q]) /\ Len(Table(q)) \in Nat
    <3>1. plan.span \in Nat
      BY <2>2, SpanFacts
    <3>2. requests[q].status = "running"
      BY <2>2 DEF StepOK, Running
    <3> QED  BY <1>3, <2>2, <3>1, <3>2, Typed DEF Tables
  <2>4. ASSUME NEW i \in 1 .. (plan.span \div Chunk)
        PROVE  Loaded[plan.table[i]] = Full(q, i)
    <3>1. i \in Nat \ {0} /\ Whole(i, plan.span)
      BY <2>3, Positions
    <3>2. Whole(i, Done(q))
      BY <2>2, <2>3, <3>1, PositionsGrow
    <3>3. Whole(i, Done(q) + step.tokens[q])
      <4>1. Done(q) + step.tokens[q] \in Nat /\ Done(q) <= Done(q) + step.tokens[q]
        BY <2>3
      <4> QED  BY <2>3, <3>1, <3>2, <4>1, PositionsGrow
    <3>4. i \in 1 .. Len(Table(q))
      BY <2>3, <3>1, <3>3, Positions
    <3> QED  BY <1>1, <2>2, <3>2, <3>4, LoadedIs
  <2>5. s.plan = plan
        /\ s.read = [i \in 1 .. (plan.span \div Chunk) |-> Loaded[plan.table[i]]]
    BY <2>1
  <2> QED  BY <2>4, <2>5
<1>17. BudgetReturns'
  <2>1. ASSUME NEW r \in Requests
        PROVE  /\ need_load[r] # None => requests[r].status \in {"waiting", "preempted"}
               /\ progress[r] # None => requests[r].status \in {"running", "preempted"}
    BY <1>1 DEF BudgetReturns, Turns
  <2> QED  BY <1>1, <1>4, <2>1 DEF BudgetReturns
<1> QED
  BY <1>6, <1>7, <1>8, <1>9, <1>10, <1>11, <1>12, <1>14, <1>15, <1>16, <1>17

---------------------------------------------------------------------------
(* The theorems.                                                           *)

\* A scheduler that has served nothing, whatever the layout.
Blank ==
  /\ phase = "schedule" /\ step = Idle
  /\ requests = [r \in Requests |-> Absent]
  /\ content = [p \in Pages |-> Junk]
  /\ quorum \in SUBSET Keys
  /\ need_load = [r \in Requests |-> None]
  /\ pending_loads = [r \in Requests |-> None]
  /\ progress = [r \in Requests |-> None]
  /\ skip_write = {}
  /\ metadata = [loads |-> {}, stores |-> {}]
  /\ stored = {} /\ raised = FALSE /\ preemptions = 0

\* The invariant holds of a scheduler that has served nothing.
LEMMA BlankIs == Blank => IInv
<1> SUFFICES ASSUME Blank  PROVE IInv
  OBVIOUS
<1> USE DEF Blank
<1>1. \A r \in Requests : /\ requests[r] = Absent /\ Table(r) = <<>> /\ Done(r) = 0
                          /\ requests[r].status = "absent"
                          /\ need_load[r] = None /\ pending_loads[r] = None
                          /\ progress[r] = None
  BY DEF Table, Done, Absent
<1>2. /\ step.new = {} /\ step.cached = {} /\ step.resumed = {} /\ step.finished = {}
      /\ step.tokens = [r \in Requests |-> 0] /\ step.added = [r \in Requests |-> <<>>]
      /\ metadata.loads = {} /\ metadata.stores = {}
  BY DEF Idle
<1>3. TypeOK
  <2>1. <<>> \in Seq(Pages) /\ 0 \in Nat
    OBVIOUS
  <2>2. Absent \in RequestRecord
    <3> DEFINE options == {"both"} \cup UNION Range(Options)
    <3>1. "both" \in options
      BY Zenon
    <3> HIDE DEF options
    <3>2. Absent \in [status : {"absent", "waiting", "running", "preempted", "finished"},
                     option : options, computed : Nat, known : Nat, table : Seq(Pages)]
      BY <2>1, <3>1 DEF Absent
    <3> QED  BY <3>2 DEF RequestRecord, options
  <2>3. requests \in [Requests -> RequestRecord]
    BY <2>2
  <2> QED  BY <1>2, <2>3 DEF TypeOK, RequestRecord
<1>4. StepOK
  <2>1. step \in StepRecord
    BY DEF Idle, StepRecord
  <2>2. Scheduled = {}
    BY <1>2 DEF Scheduled
  <2> QED  BY <1>2, <2>1, <2>2 DEF StepOK
<1>5. Tables
  BY <1>1 DEF Tables, Distinct
<1>6. LoadsKnown /\ StoresKnown /\ ProgressKnown /\ Turns
  BY <1>1, <1>2 DEF LoadsKnown, StoresKnown, ProgressKnown, Turns
<1>7. Budget
  <2>1. Active = {}
    BY <1>1 DEF Active
  <2> QED  BY <1>2, <2>1, FS_EmptySet, PlanningAssumption DEF Budget
<1>8. PagesRight /\ SharedFull
  BY <1>1 DEF PagesRight, SharedFull
<1>9. StoresRight /\ BudgetReturns
  BY <1>1 DEF StoresRight, BudgetReturns
<1> QED  BY <1>3, <1>4, <1>5, <1>6, <1>7, <1>8, <1>9 DEF IInv

\* The invariant holds at first.
LEMMA Initially == Init => IInv
<1>1. Init => Blank
  BY DEF Init, Blank
<1> QED  BY <1>1, BlankIs

\* And so after a step to such a scheduler.
LEMMA BlankNext == Blank' => IInv'
  BY BlankIs, PTL

\* The lookup that raises leaves an engine that has served nothing.
LEMMA EngineFailsKeeps ==
  ASSUME IInv, NEW r \in Requests, NEW n \in Nat, EngineFails(r, n)
  PROVE  IInv'
<1>1. UNCHANGED <<layout, quorum>> /\ quorum \in SUBSET Keys
  BY DEF EngineFails, IInv, TypeOK
<1>2. Keys' = Keys
  BY <1>1 DEF Keys
<1>3. Idle' = Idle
  BY DEF Idle
<1>4. Blank'
  BY <1>1, <1>2, <1>3 DEF EngineFails, Blank, Absent, Junk
<1> QED  BY <1>4, BlankNext

\* Every step keeps the invariant.
LEMMA StepKeeps == IInv /\ [Next]_vars => IInv'
<1> SUFFICES ASSUME IInv, [Next]_vars  PROVE IInv'
  OBVIOUS
<1>0. /\ \A n \in 0 .. Cardinality(Pages) : n \in Nat
      /\ \A r \in Requests : \A tokens \in 1 .. requests[r].known : tokens \in Nat
  OBVIOUS
<1>1. ASSUME NEW r \in Requests, NEW option \in Options[r], Arrive(r, option)
      PROVE  IInv'
  BY <1>1, ArriveKeeps
<1>2. ASSUME NEW r \in Requests, NEW n \in 0 .. Cardinality(Pages),
             AllocationFails(r, n) \/ EngineFails(r, n)
      PROVE  IInv'
  BY <1>0, <1>2, AllocationFailsKeeps, EngineFailsKeeps
<1>3. ASSUME NEW r \in Requests, NEW n \in 0 .. Cardinality(Pages),
             NEW tokens \in 1 .. requests[r].known, Admit(r, n, tokens)
      PROVE  IInv'
  BY <1>0, <1>3, AdmitKeeps
<1>4. ASSUME NEW r \in Requests, NEW tokens \in 1 .. requests[r].known, Continue(r, tokens)
      PROVE  IInv'
  BY <1>0, <1>4, ContinueKeeps
<1>5. ASSUME NEW r \in Requests, Preempt(r) \/ Finish(r)
      PROVE  IInv'
  BY <1>5, PreemptKeeps, FinishKeeps
<1>6. ASSUME NEW key \in Keys, Report(key)
      PROVE  IInv'
  BY <1>6, ReportKeeps
<1>7. CASE BuildMeta
  BY <1>7, BuildMetaKeeps
<1>8. CASE Execute
  BY <1>8, ExecuteKeeps
<1>9. CASE UNCHANGED vars
  <2>1. UNCHANGED <<layout, phase, requests, content, step, quorum, need_load, pending_loads,
                    progress, skip_write, metadata, stored, raised>>
    BY <1>9 DEF vars, connector
  <2>2. \A r : Table(r)' = Table(r) /\ Done(r)' = Done(r)
    BY <2>1 DEF Table, Done
  <2>3. /\ Running' = Running /\ Scheduled' = Scheduled /\ (ExactBoundary' <=> ExactBoundary)
        /\ Keys' = Keys /\ Active' = Active
    BY <2>1 DEF Running, Scheduled, ExactBoundary, Keys, Active
  <2>4. \A q, s : Cached(q, s)' = Cached(q, s)
    BY <2>1 DEF Cached, HasChain, HasKey, has_boundary_quorum
  <2>5. TypeOK' /\ Turns'
    BY <2>1, <2>3 DEF IInv, TypeOK, Turns
  <2>6. StepOK' /\ Budget'
    BY <2>1, <2>3 DEF IInv, StepOK, Budget
  <2>7. Tables'
    BY <2>1, <2>2 DEF IInv, Tables
  <2>8. LoadsKnown' /\ StoresKnown'
    BY <2>1, <2>2, <2>3, <2>4 DEF IInv, LoadsKnown, StoresKnown
  <2>9. ProgressKnown'
    BY <2>1, <2>2, <2>3 DEF IInv, ProgressKnown
  <2>10. PagesRight' /\ SharedFull'
    <3>1. \A q, i : Due(q, i)' = Due(q, i)
      BY <2>1 DEF Due
    <3> QED  BY <2>1, <2>2, <3>1, PagesStay DEF IInv
  <2>11. StoresRight' /\ BudgetReturns'
    BY <2>1 DEF IInv, StoresRight, BudgetReturns
  <2> QED  BY <2>5, <2>6, <2>7, <2>8, <2>9, <2>10, <2>11 DEF IInv
<1> QED
  BY <1>1, <1>2, <1>3, <1>4, <1>5, <1>6, <1>7, <1>8, <1>9 DEF Next

\* Every variable keeps its type, for any requests, pages and bounds.
THEOREM TypeCorrect == Spec => []TypeOK
<1>1. IInv => TypeOK
  BY DEF IInv
<1> QED  BY <1>1, Initially, StepKeeps, PTL DEF Spec

\* What a store reads from the GPU (commit_keys) is the prefix that it is stored
\* under, through preemption, resumption, chunked prefill, shared and restored pages.
THEOREM StoresAlwaysRight == Spec => []StoresRight
<1>1. IInv => StoresRight
  BY DEF IInv
<1> QED  BY <1>1, Initially, StepKeeps, PTL DEF Spec

\* A store is planned only at a boundary that its request has reached, and a
\* recurrent group's only at the very boundary (_pre_forward_store_span).
THEOREM StoresAlwaysAtBoundary == Spec => []StoresAtBoundary
<1>1. IInv => StoresAtBoundary
  BY DEF IInv, StoresKnown, StoresAtBoundary, Done
<1> QED  BY <1>1, Initially, StepKeeps, PTL DEF Spec

\* The tokens that vLLM counts as computed are in the request's pages.
THEOREM ComputedAlwaysRight == Spec => []ComputedRight
<1>1. ASSUME IInv  PROVE ComputedRight
  <2> USE DEF IInv
  <2> SUFFICES ASSUME phase = "schedule", NEW r \in Requests \ Scheduled,
                      NEW i \in 1 .. (Done(r) \div Chunk), r \in Running
               PROVE  content[Table(r)[i]] = Full(r, i)
    BY DEF ComputedRight, Done, Table, Running
  <2>1. Done(r) \in Nat /\ Len(Table(r)) = PagesFor(Done(r)) /\ Len(Table(r)) \in Nat
    <3>1. Done(r) \in Nat /\ step.tokens[r] = 0 /\ Len(Table(r)) \in Nat
      BY <1>1, Typed DEF StepOK
    <3>2. Len(Table(r)) = PagesFor(Done(r) + step.tokens[r])
      BY <1>1 DEF Tables, Running
    <3> QED  BY <3>1, <3>2
  <2>2. i \in Nat \ {0} /\ Whole(i, Done(r))
    BY <2>1, Positions
  <2>3. i \in 1 .. Len(Table(r))
    BY <2>1, <2>2, Positions
  <2>4. ~Due(r, i)
    <3>1. pending_loads[r] = None /\ metadata.loads = {}
      BY <1>1 DEF LoadsKnown, Turns
    <3>2. ~Whole(i, 0)
      BY <2>2, ChunkIs DEF Whole
    <3> QED  BY <3>1, <3>2 DEF Due, None
  <2> QED  BY <1>1, <2>2, <2>3, <2>4 DEF PagesRight, PageOK
<1> QED  BY <1>1, Initially, StepKeeps, PTL DEF Spec

\* A restore that is handed to the workers has a quorum for every file of its chain,
\* restores stay within their budget, and update_state_after_alloc never raises.
THEOREM LoadsAlwaysAdmitted == Spec => []LoadsAdmitted
<1>1. IInv => LoadsAdmitted
  BY DEF IInv, LoadsKnown, Budget, LoadsAdmitted
<1> QED  BY <1>1, Initially, StepKeeps, PTL DEF Spec

\* A hit that was not allocated is held only while its request waits, and what is
\* tracked of a request goes with it (build_connector_meta).
THEOREM BudgetAlwaysReturns == Spec => []BudgetReturns
<1>1. IInv => BudgetReturns
  BY DEF IInv
<1> QED  BY <1>1, Initially, StepKeeps, PTL DEF Spec
===========================================================================
