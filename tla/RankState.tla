----------------------------- MODULE RankState -----------------------------
(***************************************************************************)
(* The life of one rank's directory across processes: register_kv_caches,  *)
(* the startup handshake, stores and restores, and fatal restores, with    *)
(* what the directory keeps from one process to the next: the binding to a *)
(* page layout (token-format.json), the files, the event journal and the   *)
(* generation epoch.                                                       *)
(*                                                                         *)
(* A process comes up with any configuration that vLLM may report for the  *)
(* same deployment, and its scheduler with any one of its own.  Epochs     *)
(* (GenerationEpoch), the journal (EventJournal) and the page geometry     *)
(* (PageLayout) are composed here in the order of the code.  One directory *)
(* holds the names of the journal and of the epoch: a sync by either       *)
(* settles both.                                                           *)
(***************************************************************************)
EXTENDS GenerationEpoch, EventJournal, PageLayout

CONSTANTS
  Configs,    \* the configurations that vLLM may report, by name: see PageLayout
  Spans,      \* bound: the boundaries that are stored and restored
  Aheads,     \* bound: the tokens that a step schedules beyond the boundary
  Fatal,      \* the event of a failed restore
  Pipeline    \* whether there are several pipeline stages

\* No configuration.
NoConfig == "none"

ASSUME RankAssumption ==
  /\ Spans \subseteq Nat \ {0} /\ Aheads \subseteq Nat \ {0}
  /\ Fatal \in Events /\ Pipeline \in BOOLEAN
  /\ NoConfig \notin DOMAIN Configs
  /\ \A config \in DOMAIN Configs : IsConfiguration(Configs[config])

VARIABLES
  root,       \* a configuration whose logical layout the directory is named after
  binding,    \* one whose layout is in token-format.json, NoConfig before there is one
  files,      \* the files: <<span, kind>> -> the bytes by position, <<>> if absent
  phase,      \* "down", "epoch", "handshake", "up", "dying" or "counting"
  worker,     \* the configuration of the process
  scheduler,  \* that of its scheduler
  restored    \* the plan and the bytes that the last step put into the GPU, if it
              \* was a restore

rankVars == <<root, binding, files, phase, worker, scheduler>>

allVars == <<vars, journalVars, rankVars, restored>>

Nothing == [plan |-> <<>>, bytes |-> {}]

Layouts ==
  [config \in {c \in DOMAIN Configs : Accepted(Configs[c])} |->
     build_hma_layout(Configs[config])]

\* The names of the files of a prefix, and of all prefixes.
NamesOf ==
  [config \in DOMAIN Layouts |->
     [span \in Spans |-> ToSet(FilesOf(Layouts[config], span))]]

FileNames ==
  UNION {UNION {NamesOf[config][span] : span \in Spans} : config \in DOMAIN Layouts}

\* An older implementation kept nothing, or the epoch that it advertised last.
RankInit ==
  /\ Init
  /\ state \in {0, advertised}
  /\ JournalInit
  /\ root \in DOMAIN Layouts
  /\ binding = NoConfig
  /\ files = [name \in FileNames |-> <<>>]
  /\ phase = "down"
  /\ worker = NoConfig /\ scheduler = NoConfig
  /\ restored = Nothing

\* A reservation in progress ends with its process.
AbandonReservation == IF At("idle") THEN UNCHANGED vars ELSE Abandon

\* The process is gone.
Down ==
  /\ phase' = "down"
  /\ worker' = NoConfig /\ scheduler' = NoConfig

---------------------------------------------------------------------------
(* vLLM's side.                                                            *)

\* The tokens of a page of a group.
WidthOf(group) == group.block * (IF group.replicated THEN 1 ELSE Dcp)

\* The block table of a request at the boundary span, when the step goes on by
\* ahead tokens.  Page 0 is the null page: behind the window, and before the
\* running state, there is nothing.
BlockTable(group, span, ahead) ==
  LET policy == PolicyOf(group)
      width == WidthOf(group)
      count == Ceiling(span + ahead, width)
  IN CASE policy[1] = "circular_one" -> <<1>>
       [] policy[1] = "recurrent_align" ->
            [i \in 1 .. count + Max(Tails(group)) |->
               IF i < count THEN 0 ELSE i]
       [] policy[1] = "sliding" ->
            [i \in 1 .. count |-> IF i * width + policy[2] - 1 <= span THEN 0 ELSE i]
       [] OTHER -> [i \in 1 .. count |-> i]

Tables(config, plan) ==
  [g \in DOMAIN Configs[config] |->
     BlockTable(Configs[config][g], plan.span, plan.ahead)]

\* The pages that the layer with a specification reads at the boundary: all of
\* them, those that its own window reaches, the running state, or the scratch.
Needed(group, spec, span, ahead) ==
  LET width == WidthOf(group)
      last == Ceiling(span + ahead, width)
  IN CASE reuse_policy(group, spec)[1] = "circular_one" -> {1}
       [] reuse_policy(group, spec)[1] = "recurrent_align" -> {last}
       [] reuse_policy(group, spec)[1] = "sliding" ->
            {i \in 1 .. span \div width :
               \E token \in (i - 1) * width .. i * width - 1 :
                 token + spec.window > span}
       [] OTHER -> 1 .. span \div width

\* The byte that is right at a place of a page: of these tokens, or of the
\* state at this boundary, in a page of this size.
RightByte(group, layer, span, page, at) ==
  LET spec == group.layers[layer] IN
  <<spec.name,
    IF reuse_policy(group, spec)[1] \in {"full", "sliding"}
    THEN <<"tokens", (page - 1) * WidthOf(group)>> ELSE <<"state", span>>,
    spec.bytes, at>>

---------------------------------------------------------------------------
(* Startup: register_kv_caches and the handshake.                          *)

\* The layout is discovered, the mover and the store are created, the journal
\* is read.  A directory without a binding gets one; it has no files yet.
Boot(config, other) ==
  /\ phase = "down"
  /\ config \in DOMAIN Layouts /\ other \in DOMAIN Layouts
  /\ ValidLayout(Layouts[config])
  /\ logical_digest(Layouts[config]) = logical_digest(Layouts[root])
  /\ \/ binding = NoConfig /\ binding' = config
     \/ /\ binding # NoConfig
        /\ digest(Layouts[binding]) = digest(Layouts[config])
        /\ UNCHANGED binding
  /\ LoadJournal
  /\ IF temporary THEN SyncByJournal ELSE UNCHANGED vars
  /\ phase' = "epoch" /\ worker' = config /\ scheduler' = other
  /\ restored' = Nothing
  /\ UNCHANGED <<root, files>>

\* The epoch is reserved; if it cannot be, the process ends.
Reserve ==
  /\ phase = "epoch"
  /\ \/ \E now \in Clocks : Begin(now)
     \/ Replace
     \/ WriteSentry
  /\ restored' = Nothing
  /\ UNCHANGED <<journalVars, rankVars>>

\* The sync of the epoch's directory is one of the journal's.
ReserveSync ==
  /\ phase = "epoch"
  /\ Sync \/ SyncSentry
  /\ journals' = {journal}
  /\ restored' = Nothing
  /\ UNCHANGED <<totals, journal, increment, temporary, cursor, counted, mishaps,
                 rankVars>>

Reserved ==
  /\ phase = "epoch"
  /\ Return
  /\ phase' = "handshake"
  /\ restored' = Nothing
  /\ UNCHANGED <<journalVars, root, binding, files, worker, scheduler>>

\* The reservation is refused or fails, and the startup raises.
BootFails ==
  /\ phase = "epoch"
  /\ AbandonReservation
  /\ Down
  /\ JournalCrash
  /\ restored' = Nothing
  /\ UNCHANGED <<root, binding, files>>

CoordinationDigest(config) ==
  <<ChunkTokens(Layouts[config]),
    IF Pipeline THEN coordination_digest(Layouts[config])
    ELSE logical_digest(Layouts[config])>>

\* _set_pp_aware_handshake_metadata compares what must be shared.
Handshake ==
  /\ phase = "handshake"
  /\ CoordinationDigest(worker) = CoordinationDigest(scheduler)
  /\ phase' = "up"
  /\ restored' = Nothing
  /\ UNCHANGED <<vars, journalVars, root, binding, files, worker, scheduler>>

HandshakeFails ==
  /\ phase = "handshake"
  /\ CoordinationDigest(worker) # CoordinationDigest(scheduler)
  /\ Down
  /\ JournalCrash
  /\ restored' = Nothing
  /\ UNCHANGED <<vars, root, binding, files>>

---------------------------------------------------------------------------
(* Work.                                                                   *)

\* A plan is for a boundary, and the step goes ahead of it by some tokens.
Plan == {[span |-> span, ahead |-> ahead] : span \in Spans, ahead \in Aheads}

\* The plans of a scheduler with a configuration.
Planned ==
  [other \in DOMAIN Layouts |->
     {plan \in Plan :
        /\ plan.span % ChunkTokens(Layouts[other]) = 0
        /\ Selectable(Layouts[other], Tables(other, plan), plan.span)}]

\* The pages that a worker picks for a plan: its own layout selects them from the
\* tables of the scheduler.  <<>> if it refuses: they do not exist, or its files
\* do not cover them.
Selected ==
  [config \in DOMAIN Layouts |-> [other \in DOMAIN Layouts |-> [plan \in Plan |->
     LET layout == Layouts[config]
         tables == Tables(other, plan)
     IN IF Selectable(layout, tables, plan.span)
           /\ Covers(layout, plan.span, FilesOf(layout, plan.span))
        THEN select_physical_pages(layout, tables, plan.span) ELSE <<>>]]]

\* Where in the pages the bytes of a file are: pairs of a position and a place.
PlacesOf ==
  [config \in DOMAIN Layouts |->
     [name \in FileNames |->
        LET segments == Segments(Layouts[config], name[1], name[2]) IN
        {<<p, ByteOf(segments, p)>> : p \in 0 .. Length(segments) - 1}]]

Carries(plan) ==
  /\ phase = "up"
  /\ plan \in Planned[scheduler]
  /\ Selected[worker][scheduler][plan] # <<>>

\* commit_keys writes the files that are missing, from pages that hold what the
\* request has computed up to the boundary.
Save(plan) ==
  LET byte(place) == RightByte(Configs[worker][place[1]], place[2], plan.span,
                               Selected[worker][scheduler][plan][place[1]][place[3]],
                               place[4])
  IN
  /\ Carries(plan)
  /\ files' = [name \in FileNames |->
       IF name \in NamesOf[worker][plan.span] /\ files[name] = <<>>
       THEN LET places == PlacesOf[worker][name] IN
            [p \in {x[1] : x \in places} |->
               byte((CHOOSE x \in places : x[1] = p)[2])]
       ELSE files[name]]
  /\ restored' = Nothing
  /\ UNCHANGED <<vars, journalVars, root, binding, phase, worker, scheduler>>

\* restore_entry puts the bytes of the files where the layout says.
Load(plan) ==
  LET names == NamesOf[worker][plan.span]
      selected == Selected[worker][scheduler][plan]
      put(place, byte) ==
        <<place[1], place[2], selected[place[1]][place[3]], place[4], byte>>
  IN
  /\ Carries(plan)
  /\ \A name \in names : files[name] # <<>>
  /\ restored' =
       [plan |-> plan,
        bytes |-> UNION {
          {put(x[2], files[name][x[1]]) :
             x \in {y \in PlacesOf[worker][name] : y[1] \in DOMAIN files[name]}} :
          name \in names}]
  /\ UNCHANGED <<vars, journalVars, rankVars>>

\* A restore fails for any reason: the process is to die.
RestoreFails ==
  /\ phase = "up"
  /\ phase' = "dying"
  /\ restored' = Nothing
  /\ UNCHANGED <<vars, journalVars, root, binding, files, worker, scheduler>>

\* It counts its death first.
CountFailure ==
  /\ phase = "dying"
  /\ BeginIncrement(Fatal)
  /\ phase' = "counting"
  /\ restored' = Nothing
  /\ UNCHANGED <<vars, root, binding, files, worker, scheduler>>

\* terminate_worker_after_fatal_restore, whether the count returned or raised.
Exit ==
  /\ \/ phase = "counting" /\ Idle
     \/ phase = "dying" /\ Idle /\ totals[Fatal] = MaxTotal
  /\ Down
  /\ JournalCrash
  /\ restored' = Nothing
  /\ UNCHANGED <<vars, root, binding, files>>

\* The quarantine hook, in whatever thread condemns a file.
CountQuarantine ==
  /\ phase \in {"up", "dying"}
  /\ \E e \in Events \ {Fatal} : BeginIncrement(e)
  /\ restored' = Nothing
  /\ UNCHANGED <<vars, rankVars>>

CountingStep ==
  /\ ReplaceJournal \/ IncrementFails
  /\ restored' = Nothing
  /\ UNCHANGED <<vars, rankVars>>

\* The sync of the journal's directory is one of the epoch's.
CountingSync ==
  /\ SyncJournal
  /\ SyncByJournal
  /\ restored' = Nothing
  /\ UNCHANGED rankVars

ExportTotals ==
  /\ phase = "up"
  /\ Export
  /\ restored' = Nothing
  /\ UNCHANGED <<vars, rankVars>>

\* The process is shut down or killed.
Killed ==
  /\ phase # "down"
  /\ AbandonReservation
  /\ Down
  /\ JournalCrash
  /\ restored' = Nothing
  /\ UNCHANGED <<root, binding, files>>

\* Files and binding were synced before anybody relied on them.
PowerGoes ==
  /\ PowerLoss
  /\ JournalPowerLoss
  /\ Down
  /\ restored' = Nothing
  /\ UNCHANGED <<root, binding, files>>

\* Somebody deletes the epoch's state file.
Tampering ==
  /\ LoseState
  /\ restored' = Nothing
  /\ UNCHANGED <<journalVars, rankVars>>

RankNext ==
  \/ \E config, other \in DOMAIN Configs : Boot(config, other)
  \/ Reserve \/ ReserveSync \/ Reserved \/ BootFails
  \/ Handshake \/ HandshakeFails
  \/ \E plan \in Plan : Save(plan) \/ Load(plan)
  \/ RestoreFails \/ CountFailure \/ Exit
  \/ CountQuarantine \/ CountingStep \/ CountingSync \/ ExportTotals
  \/ Killed \/ PowerGoes \/ Tampering

RankSpec == RankInit /\ [][RankNext]_allVars

---------------------------------------------------------------------------
(* Properties.                                                             *)

\* The bytes that a layer of a worker reads after a restore, each where its own
\* specification expects it, and those that all of them read.
ReadBytes(config, plan, g, l) ==
  LET group == Configs[config][g]
      spec == group.layers[l]
  IN {<<g, l, page, at, RightByte(group, l, plan.span, page, at)>> :
        page \in Needed(group, spec, plan.span, plan.ahead),
        at \in 0 .. spec.bytes - 1}

RightBytes ==
  [config \in DOMAIN Layouts |-> [plan \in Plan |->
     UNION {UNION {ReadBytes(config, plan, g, l) :
                     l \in DOMAIN Configs[config][g].layers} :
              g \in DOMAIN Configs[config]}]]

\* A restore puts into every page that a layer will read the bytes that belong
\* there, and no byte twice, also if the files were written by another process
\* with another configuration, or captured from other tables: what the digests of
\* the directory and of token-format.json, the page selection (hma.py) and the
\* byte ranges of capture and restore (gpu.py) are for.
RestoredRight ==
  restored # Nothing =>
    /\ RightBytes[worker][restored.plan] \subseteq restored.bytes
    /\ Cardinality({SubSeq(b, 1, 4) : b \in restored.bytes}) =
         Cardinality(restored.bytes)

\* Whether a worker can carry out every plan of a scheduler: it does not refuse,
\* takes the same pages as the scheduler, and the headers of its files have room
\* for their blocks.
Feasible ==
  [config \in DOMAIN Layouts |-> [other \in DOMAIN Layouts |->
     \A plan \in Planned[other] :
       /\ plan.span % ChunkTokens(Layouts[config]) = 0
       /\ Selected[config][other][plan] =
            select_physical_pages(Layouts[other], Tables(other, plan), plan.span)
       /\ \A name \in NamesOf[config][plan.span] :
            FileLength(Layouts[config], name[1], name[2]) <= SlotBytes * MaxBlocks]]

\* Once the handshake has let a worker in (the coordination digest that
\* _set_pp_aware_handshake_metadata compares), no plan of the scheduler makes it
\* raise or pick other pages, although the layouts of a pipeline stage and of
\* the scheduler differ.
PlansFeasible == phase = "up" => Feasible[worker][scheduler]
=============================================================================
