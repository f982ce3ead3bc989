------------------------- MODULE RequestPlanning -------------------------
(***************************************************************************)
(* The connector in the scheduler: which prefix of a request is restored,  *)
(* which is stored, and with which pages (vllm/connector.py, admission.py, *)
(* prefix.py).  vLLM's scheduler, its page tables and its prefix cache are *)
(* modelled from the calls that the connector receives: in every step it   *)
(* admits, continues, preempts and finishes requests, has the connector    *)
(* build the metadata, and the workers execute the loads, the stores and   *)
(* the forward pass, in this order.                                        *)
(***************************************************************************)
EXTENDS Integers, FiniteSets, FiniteSetsExt, Sequences, SequencesExt

CONSTANTS
  Requests,
  Prompt,              \* Prompt[r]: the number of prompt tokens of r
  Family,              \* Family[r]: r's prompt is a prefix of this text
  Options,             \* Options[r]: what r may ask for, skip_read and skip_write
  Pages,               \* GPU pages, numbered; a page holds a chunk
  Chunk,               \* _chunk_tokens, also the quantum and the minimum span
  Layouts,             \* "full" attention, "window": groups with a state at the
                       \* boundary, "recurrent": recurrent or circular ones
  MaxPendingRestores,
  MaxPendingStores,
  MaxDecode,           \* tokens that a request generates
  MaxPreemptions

ASSUME PlanningAssumption ==
  /\ IsFiniteSet(Requests)
  /\ Prompt \in [Requests -> Nat \ {0}]
  /\ DOMAIN Family = Requests
  /\ Options \in [Requests -> SUBSET {"both", "skip_read", "skip_write"}]
  /\ Pages \subseteq Nat /\ IsFiniteSet(Pages)
  /\ Layouts \subseteq {"full", "window", "recurrent"}
  /\ {Chunk, MaxPendingRestores, MaxPendingStores} \subseteq Nat \ {0}
  /\ {MaxDecode, MaxPreemptions} \subseteq Nat

VARIABLES
  layout,         \* the model's cache groups
  phase,          \* the scheduler's turn or the workers'
  requests,       \* vLLM's view of the requests
  content,        \* content[p]: the text in page p
  step,           \* what has been scheduled in this step
  quorum,         \* the keys that every rank holds
  need_load,      \* _need_load
  pending_loads,  \* _pending_loads
  progress,       \* _store_progress
  skip_write,     \* _skip_write_requests
  metadata,       \* the loads and stores of this step
  stored,         \* history: what the stores of the last step have read
  raised,         \* update_state_after_alloc has raised
  preemptions

connector == <<need_load, pending_loads, progress, skip_write>>
vars == <<layout, phase, requests, content, step, quorum, connector, metadata, stored,
          raised, preemptions>>

None == [span |-> 0]

--------------------------------------------------------------------------
(* Pages and texts.                                                        *)

\* A page that is beyond the prompt holds generated tokens.
Text(r, i) == IF i * Chunk <= Prompt[r] THEN <<Family[r], i>> ELSE <<r, i>>

Junk == [text |-> <<>>, tokens |-> 0]

Full(r, i) == [text |-> Text(r, i), tokens |-> Chunk]

Least(a, b) == IF a < b THEN a ELSE b
Most(a, b) == IF a < b THEN b ELSE a

PagesFor(tokens) == (tokens + Chunk - 1) \div Chunk

Free == Pages \ UNION {Range(requests[r].table) : r \in Requests}

\* The first n pages that are free and not among those just found in the cache.
Fresh(n, used) ==
  LET free == Free \ used
  IN {s \in [1..n -> free] : \A i \in 1..n : Cardinality({p \in free : p <= s[i]}) = i}

\* What vLLM's prefix cache may return: pages that hold the first n pages of
\* the tokens, for a resumed request the generated ones too, never all of them.
LocalHits(r, n) ==
  IF n * Chunk >= requests[r].known THEN {}
  ELSE {hit \in [1..n -> Pages] : \A i \in 1..n : content[hit[i]] = Full(r, i)}

Idle == [new |-> {}, cached |-> {}, resumed |-> {}, finished |-> {},
         tokens |-> [r \in Requests |-> 0], added |-> [r \in Requests |-> <<>>]]

Scheduled == step.new \cup step.cached

Spans == {i * Chunk : i \in 1..(Max(Range(Prompt)) \div Chunk)}

\* _store_requires_exact_boundary
ExactBoundary == layout = "recurrent"

\* A chunk's file, and the file of the boundary state at a span.
Keys == [family : Range(Family), span : Spans,
         kind : IF layout = "full" THEN {"data"} ELSE {"data", "boundary"}]

Absent == [status |-> "absent", option |-> "both", computed |-> 0, known |-> 0,
           table |-> <<>>]

\* A scheduler that has served nothing, with any inventory of the ranks.
Init ==
  /\ layout \in Layouts
  /\ phase = "schedule"
  /\ requests = [r \in Requests |-> Absent]
  /\ content = [p \in Pages |-> Junk]
  /\ step = Idle
  /\ quorum \in SUBSET Keys
  /\ need_load = [r \in Requests |-> None]
  /\ pending_loads = [r \in Requests |-> None]
  /\ progress = [r \in Requests |-> None]
  /\ skip_write = {}
  /\ metadata = [loads |-> {}, stores |-> {}]
  /\ stored = {}
  /\ raised = FALSE
  /\ preemptions = 0

--------------------------------------------------------------------------
(* Which prefix is restored.                                               *)

\* The longest aligned span that leaves one of the tokens to compute.
aligned_prefix_span(tokens) == ((tokens - 1) \div Chunk) * Chunk

safe_restore_span(r) == aligned_prefix_span(Prompt[r])
safe_store_span(r) == aligned_prefix_span(Prompt[r] + 1)

HasKey(r, span, kind) == [family |-> Family[r], span |-> span, kind |-> kind] \in quorum

has_boundary_quorum(r, span) == layout # "full" => HasKey(r, span, "boundary")

HasChain(r, span) == \A s \in Spans : s <= span => HasKey(r, s, "data")

\* Everything up to the span is already there: _cached_request, _cached_plan.
Cached(r, span) == HasChain(r, span) /\ has_boundary_quorum(r, span)

\* Mutant: the tail key alone.
restorable_tail(r, computed) ==
  {s \in Spans : /\ computed < s /\ s <= safe_restore_span(r)
                 /\ HasKey(r, s, "data") /\ has_boundary_quorum(r, s)}

\* The spans that _select_prefix may select: beyond what vLLM has computed.
Restorable(r, computed) ==
  {s \in Spans : /\ computed < s /\ s <= safe_restore_span(r)
                 /\ HasChain(r, s) /\ has_boundary_quorum(r, s)}

\* The restores that are admitted and not yet handed over.
Active == {r \in Requests : need_load[r] # None \/ pending_loads[r] # None}

\* The span that get_num_new_matched_tokens selects, or 0.
Selected(r, computed) ==
  IF \/ requests[r].option = "skip_read"
     \/ Restorable(r, computed) = {}
     \/ (r \notin Active /\ Cardinality(Active) >= MaxPendingRestores)
  THEN 0 ELSE Max(Restorable(r, computed))

\* The tokens that it offers to vLLM.
External(r, computed) == Most(Selected(r, computed) - computed, 0)

\* _need_load after the call: a miss leaves an earlier hit where it is.
Matched(r, computed) ==
  IF Selected(r, computed) = 0 THEN need_load[r]
  ELSE [span |-> Selected(r, computed), external |-> External(r, computed)]

--------------------------------------------------------------------------
(* vLLM schedules.                                                         *)

\* on_new_request: a request that opts out, or whose prompt has no identity.
Arrive(r, option) ==
  /\ requests[r].status = "absent"
  /\ requests' = [requests EXCEPT ![r] = [@ EXCEPT !.status = "waiting",
                                                  !.option = option,
                                                  !.known = Prompt[r]]]
  /\ skip_write' = IF option = "skip_write" THEN skip_write \cup {r}
                                            ELSE skip_write \ {r}
  /\ UNCHANGED <<layout, phase, content, step, quorum, need_load, pending_loads,
                 progress, metadata, stored, raised, preemptions>>

CanAdmit(r) ==
  /\ phase = "schedule"
  /\ requests[r].status \in {"waiting", "preempted"}
  /\ r \notin Scheduled

\* get_num_new_matched_tokens takes more computed tokens than the prompt has for
\* an error of vLLM's, although a resumed request may have them.
LookupRaises(r, computed) == requests[r].option # "skip_read" /\ computed > Prompt[r]

\* The exception ends the engine; the one that follows has served nothing.
EngineFails(r, n) ==
  /\ CanAdmit(r)
  /\ LocalHits(r, n) # {}
  /\ LookupRaises(r, n * Chunk)
  /\ phase' = "schedule" /\ step' = Idle
  /\ requests' = [q \in Requests |-> Absent]
  /\ content' = [p \in Pages |-> Junk]
  /\ need_load' = [q \in Requests |-> None]
  /\ pending_loads' = [q \in Requests |-> None]
  /\ progress' = [q \in Requests |-> None]
  /\ skip_write' = {}
  /\ metadata' = [loads |-> {}, stores |-> {}]
  /\ stored' = {} /\ raised' = FALSE /\ preemptions' = 0
  /\ UNCHANGED <<layout, quorum>>

\* The connector is asked, and then there are not enough free pages.
AllocationFails(r, n) ==
  /\ CanAdmit(r)
  /\ LocalHits(r, n) # {}
  /\ ~LookupRaises(r, n * Chunk)
  /\ need_load' = [need_load EXCEPT ![r] = Matched(r, n * Chunk)]
  /\ UNCHANGED <<layout, phase, requests, content, step, quorum, pending_loads,
                 progress, skip_write, metadata, stored, raised, preemptions>>

\* Mutant: a hit that begins after pages of vLLM's own cache is not planned.
update_state_of_whole_hits(r, external, admitted, table) ==
  /\ need_load' = [need_load EXCEPT ![r] = None]
  /\ raised' = raised
  /\ pending_loads' =
       IF external = 0 \/ external # admitted.span THEN pending_loads
       ELSE [pending_loads EXCEPT ![r] = [span |-> admitted.span, table |-> table]]

\* update_state_after_alloc takes the hit and makes the load plan of it; it raises
\* if the allocation is not what was offered.
update_state_after_alloc(r, external, admitted, table) ==
  LET differs == admitted = None \/ admitted.external # external
  IN /\ need_load' = [need_load EXCEPT ![r] = None]
     /\ raised' = (raised \/ (external # 0 /\ differs))
     /\ pending_loads' =
          IF external = 0 \/ differs THEN pending_loads
          ELSE [pending_loads EXCEPT ![r] = [span |-> admitted.span, table |-> table]]

\* The connector is asked, vLLM allocates pages and schedules some tokens.
Admit(r, n, tokens) ==
  LET external == External(r, n * Chunk)
      computed == n * Chunk + external
      resumed == requests[r].status = "preempted"
  IN /\ CanAdmit(r)
     /\ ~LookupRaises(r, n * Chunk)
     /\ tokens <= requests[r].known - computed
     /\ \E hit \in LocalHits(r, n) :
        \E fresh \in Fresh(PagesFor(computed + tokens) - n, Range(hit)) :
          /\ update_state_after_alloc(r, external, Matched(r, n * Chunk), hit \o fresh)
          /\ content' = [p \in Pages |-> IF p \in Range(fresh) THEN Junk ELSE content[p]]
          /\ requests' = [requests EXCEPT ![r].status = "running",
                                         ![r].computed = computed,
                                         ![r].table = hit \o fresh]
          /\ step' = [step EXCEPT
                !.new = IF resumed THEN @ ELSE @ \cup {r},
                !.cached = IF resumed THEN @ \cup {r} ELSE @,
                !.resumed = IF resumed THEN @ \cup {r} ELSE @,
                !.tokens[r] = tokens,
                !.added[r] = hit \o fresh]
     /\ UNCHANGED <<layout, phase, quorum, progress, skip_write, metadata, stored, preemptions>>

\* A running request gets tokens, and pages for them.
Continue(r, tokens) ==
  LET table == requests[r].table
  IN /\ phase = "schedule"
     /\ requests[r].status = "running"
     /\ r \notin Scheduled
     /\ tokens <= requests[r].known - requests[r].computed
     /\ \E fresh \in Fresh(PagesFor(requests[r].computed + tokens) - Len(table), {}) :
          /\ content' = [p \in Pages |-> IF p \in Range(fresh) THEN Junk ELSE content[p]]
          /\ requests' = [requests EXCEPT ![r].table = table \o fresh]
          /\ step' = [step EXCEPT !.cached = @ \cup {r}, !.tokens[r] = tokens,
                                  !.added[r] = fresh]
     /\ UNCHANGED <<layout, phase, quorum, connector, metadata, stored, raised, preemptions>>

\* A running request loses its pages, which others may get in the same step.
Preempt(r) ==
  /\ phase = "schedule"
  /\ requests[r].status = "running"
  /\ r \notin Scheduled
  /\ preemptions < MaxPreemptions
  /\ preemptions' = preemptions + 1
  /\ requests' = [requests EXCEPT ![r].status = "preempted", ![r].computed = 0,
                                 ![r].table = <<>>]
  /\ UNCHANGED <<layout, phase, content, step, quorum, connector, metadata, stored, raised>>

\* A request ends or is aborted, and the next metadata says so.
Finish(r) ==
  /\ phase = "schedule"
  /\ requests[r].status \in {"waiting", "running", "preempted"}
  /\ Scheduled = {}
  /\ requests' = [requests EXCEPT ![r] = [@ EXCEPT !.status = "finished",
                                                  !.table = <<>>]]
  /\ step' = [step EXCEPT !.finished = @ \cup {r}]
  /\ UNCHANGED <<layout, phase, content, quorum, connector, metadata, stored, raised, preemptions>>

\* Between two steps the ranks report: a key gains or loses its quorum.
Report(key) ==
  /\ phase = "schedule"
  /\ Scheduled = {}
  /\ quorum' = IF key \in quorum THEN quorum \ {key} ELSE quorum \cup {key}
  /\ UNCHANGED <<layout, phase, requests, content, step, connector, metadata, stored,
                 raised, preemptions>>

--------------------------------------------------------------------------
(* Which prefix is stored.                                                 *)

Unreached == -1

\* Mutant: the boundary that this step will reach.
pre_forward_after(before, tokens, target) ==
  IF before = target THEN target
  ELSE IF before > target THEN 0
  ELSE IF before + tokens < target THEN Unreached
  ELSE ((before + tokens) \div Chunk) * Chunk

\* _pre_forward_store_span: Unreached to go on, 0 to give up.
pre_forward_store_span(before, tokens, target) ==
  IF before = target THEN target
  ELSE IF before > target THEN 0
  ELSE IF ExactBoundary \/ before + tokens < target THEN Unreached
  ELSE (before \div Chunk) * Chunk

\* Mutant: the pages of a resumed request are added to the old ones.
merged_extended(r) == progress[r].table \o step.added[r]

\* The pages of a tracked request: those of a resumed one are new.
Merged(r) == IF r \in step.resumed THEN step.added[r]
             ELSE progress[r].table \o step.added[r]

\* The requests of this step that are tracked, and what is tracked of them.
TrackedNew == {r \in step.new \ skip_write :
                 safe_store_span(r) > 0 /\ ~Cached(r, safe_store_span(r))}

TrackedCached == {r \in step.cached : progress[r] # None}

Tracking(r) ==
  IF r \in TrackedNew THEN [span |-> safe_store_span(r), table |-> step.added[r]]
                      ELSE [span |-> progress[r].span, table |-> Merged(r)]

Candidate(r) == pre_forward_store_span(requests[r].computed, step.tokens[r],
                                       Tracking(r).span)

\* The plans that the step's requests are ready for.
Candidates ==
  {[request |-> r, span |-> Candidate(r), table |-> Tracking(r).table] :
     r \in {t \in TrackedNew \cup TrackedCached :
              Candidate(t) > 0 /\ ~Cached(t, Candidate(t))}}

\* prefix_digests: the digest stands for the text and the span.
EntryOf(plan) == <<Family[plan.request], plan.span>>

\* admit_store_plans: one plan for each entry, the longest first.
Admitted(plans) ==
  {S \in SUBSET plans :
     /\ \A p, q \in S : EntryOf(p) = EntryOf(q) => p = q
     /\ Cardinality(S) = Least(MaxPendingStores, Cardinality({EntryOf(p) : p \in plans}))
     /\ \A p \in S, q \in plans :
          q.span > p.span => \E o \in S : EntryOf(o) = EntryOf(q)}

\* Mutant: a hit that was never allocated outlives its request.
forgotten_progress(held) == held

\* What the connector keeps of finished requests: nothing.
Remembered(held) == [r \in Requests |-> IF r \in step.finished THEN None ELSE held[r]]

\* build_connector_meta.
BuildMeta ==
  /\ phase = "schedule"
  /\ Scheduled # {} \/ step.finished # {}
  /\ phase' = "worker"
  /\ \E stores \in Admitted(Candidates) :
       metadata' = [loads |-> {[request |-> r, span |-> pending_loads[r].span,
                                table |-> pending_loads[r].table] :
                                 r \in {t \in Requests : pending_loads[t] # None}},
                    stores |-> stores]
  /\ pending_loads' = [r \in Requests |-> None]
  /\ need_load' = Remembered(need_load)
  /\ progress' = Remembered([r \in Requests |->
       IF r \notin TrackedNew \cup TrackedCached THEN progress[r]
       ELSE IF Candidate(r) = Unreached THEN Tracking(r) ELSE None])
  /\ skip_write' = skip_write \ step.finished
  /\ stored' = {}
  /\ UNCHANGED <<layout, requests, content, step, quorum, raised, preemptions>>

--------------------------------------------------------------------------
(* The workers.                                                            *)

\* The loads, with their page numbers, that write page p.
Restores(p) ==
  {w \in metadata.loads \X (1..Cardinality(Pages)) :
     w[2] * Chunk <= w[1].span /\ w[1].table[w[2]] = p}

\* The pages after the restores of start_load_kv.
Loaded == [p \in Pages |->
  IF Restores(p) = {} THEN content[p]
  ELSE LET w == CHOOSE w \in Restores(p) : TRUE IN Full(w[1].request, w[2])]

\* The scheduled requests, with their page numbers, that compute page p.
Computes(p) ==
  {w \in Scheduled \X (1..Cardinality(Pages)) :
     /\ w[2] <= Len(requests[w[1]].table)
     /\ requests[w[1]].table[w[2]] = p
     /\ w[2] * Chunk > requests[w[1]].computed}

\* Page i of request r after the forward pass.
Extended(r, i, page) ==
  LET before == requests[r].computed - (i - 1) * Chunk
  IN IF before <= 0 \/ page = [text |-> Text(r, i), tokens |-> before]
     THEN [text |-> Text(r, i), tokens |-> Least(before + step.tokens[r], Chunk)]
     ELSE Junk

\* The pages after the forward pass: each scheduled request adds its tokens to
\* its pages; what was not computed before leaves junk.
Forwarded(pages) == [p \in Pages |->
  IF Computes(p) = {} THEN pages[p]
  ELSE LET w == CHOOSE w \in Computes(p) : TRUE IN Extended(w[1], w[2], pages[p])]

\* What the stores of start_load_kv read, after the loads: commit_keys, which
\* in fact skips the chunks that the rank already has.
SaveStores ==
  stored' = {[plan |-> s, read |-> [i \in 1..(s.span \div Chunk) |-> Loaded[s.table[i]]]] :
               s \in metadata.stores}

\* start_load_kv restores and stores; then the forward pass computes, and a
\* request whose tokens are all computed generates one.
Execute ==
  /\ phase = "worker"
  /\ phase' = "schedule"
  /\ SaveStores
  /\ content' = Forwarded(Loaded)
  /\ requests' = [r \in Requests |->
       LET computed == requests[r].computed + step.tokens[r]
       IN IF r \notin Scheduled THEN requests[r]
          ELSE [requests[r] EXCEPT
                  !.computed = computed,
                  !.known = IF computed = @ THEN Least(@ + 1, Prompt[r] + MaxDecode) ELSE @]]
  /\ step' = Idle
  /\ metadata' = [loads |-> {}, stores |-> {}]
  /\ UNCHANGED <<layout, quorum, connector, raised, preemptions>>

Next ==
  \/ \E r \in Requests : \E option \in Options[r] : Arrive(r, option)
  \/ \E r \in Requests, n \in 0..Cardinality(Pages) :
       AllocationFails(r, n) \/ EngineFails(r, n)
  \/ \E r \in Requests, n \in 0..Cardinality(Pages) :
       \E tokens \in 1..requests[r].known : Admit(r, n, tokens)
  \/ \E r \in Requests : \E tokens \in 1..requests[r].known : Continue(r, tokens)
  \/ \E r \in Requests : Preempt(r)
  \/ \E r \in Requests : Finish(r)
  \/ \E key \in Keys : Report(key)
  \/ BuildMeta
  \/ Execute

Spec == Init /\ [][Next]_vars

--------------------------------------------------------------------------
\* Every variable keeps its type: spans are whole chunks, and pages are pages.
TypeOK ==
  /\ requests \in [Requests -> [status : {"absent", "waiting", "running",
                                          "preempted", "finished"},
                                option : {"both"} \cup UNION Range(Options),
                                computed : Nat, known : Nat,
                                table : Seq(Pages)]]
  /\ quorum \subseteq Keys
  /\ need_load \in [Requests -> [span : Spans, external : Nat] \cup {None}]
  /\ \A held \in {pending_loads, progress} :
       held \in [Requests -> [span : Spans, table : Seq(Pages)] \cup {None}]
  /\ skip_write \subseteq Requests
  /\ \A plan \in metadata.loads \cup metadata.stores :
       plan \in [request : Requests, span : Spans, table : Seq(Pages)]

\* What a store reads from its pages, before the forward pass, is its prefix:
\* through preemption, resumption, chunked prefill, pages shared with other
\* requests and pages restored in the same step.
StoresRight ==
  \A s \in stored :
    s.read = [i \in 1..(s.plan.span \div Chunk) |-> Full(s.plan.request, i)]

\* A recurrent group is stored only at the boundary that its request is at.
StoresAtBoundary ==
  \A s \in metadata.stores :
    /\ s.span <= requests[s.request].computed
    /\ ExactBoundary => s.span = requests[s.request].computed

\* After a step, the tokens that vLLM counts as computed are in the request's
\* pages: what the connector has offered as external was restored, into pages
\* that no other request needs for something else.
ComputedRight ==
  phase = "schedule" =>
    \A r \in Requests \ Scheduled :
      \A i \in 1..(requests[r].computed \div Chunk) :
        requests[r].status = "running" =>
          content[requests[r].table[i]] = Full(r, i)

\* A restore that is handed to the workers is of a chain whose every file has
\* a quorum now, they are never more than the bound, and what vLLM has allocated
\* is what the last lookup offered, although a miss leaves an earlier hit.
LoadsAdmitted ==
  /\ Cardinality(metadata.loads) <= MaxPendingRestores
  /\ \A l \in metadata.loads : Cached(l.request, l.span)
  /\ ~raised

\* The restore budget comes back: a hit that was not allocated is held only
\* while its request waits, and a finished request holds nothing.
BudgetReturns ==
  \A r \in Requests :
    /\ need_load[r] # None => \/ requests[r].status \in {"waiting", "preempted"}
                              \/ r \in step.finished
    /\ progress[r] # None => \/ requests[r].status \in {"running", "preempted"}
                             \/ r \in step.finished
=============================================================================
