------------------------------ MODULE Scheduler ------------------------------
(***************************************************************************)
(* The continuous-batching `Scheduler`: the waiting, running and swapped   *)
(* queues, one scheduling pass (`schedule_default` or                      *)
(* `schedule_chunked_prefill`), preemption by recomputation and by         *)
(* swapping, aborts, and what processing a batch's outputs does to the     *)
(* sequences.                                                              *)
(*                                                                         *)
(* A request is a sequence group of one sequence, the only kind the service *)
(* builds; requests are numbered in order of arrival, so FcfsPolicy sorts  *)
(* by number.  Block tables are lengths: which block is where is the       *)
(* business of BlockSpaceManager.  A pass is a small-step machine, one step *)
(* per iteration of the loops of schedule_prefills, schedule_running and   *)
(* schedule_swapped; nothing runs between its steps in the code.           *)
(***************************************************************************)
EXTENDS Integers, Sequences, FiniteSets, Functions, SequencesExt, FiniteSetsExt, Lists

CONSTANTS
    Requests,          \* requests, numbered by arrival time
    PromptLens,        \* bound: the prompt lengths tried
    MaxNewTokens,      \* stopping_params.max_new_tokens
    MaxModelLen,       \* scheduler_config.max_model_len
    BestOf,            \* next_token_chooser_params.best_of of each request
    SequenceId,        \* the sequence id the service gives each request
    BlockSize,
    NumGpuBlocks,
    NumCpuBlocks,
    MaxBatchedTokens,  \* scheduler_config.max_num_batched_tokens
    MaxNumSequences,   \* scheduler_config.max_num_sequences
    Chunked,           \* scheduler_config.enable_chunked_prefill
    DelayFactor        \* TRUE when scheduler_config.delay_factor > 0

ASSUME RequestsAssumption ==
    /\ Requests \subseteq Nat
    /\ IsFiniteSet(Requests)
    /\ BestOf \in [Requests -> Nat \ {0}]
    /\ PromptLens \subseteq Nat \ {0}

ASSUME CapacityAssumption ==
    /\ BlockSize \in Nat \ {0}
    /\ NumGpuBlocks \in Nat
    /\ NumCpuBlocks \in Nat
    /\ MaxNewTokens \in Nat \ {0}
    /\ Chunked \in BOOLEAN
    /\ DelayFactor \in BOOLEAN

(* SchedulerConfig::verify_args *)
ASSUME ConfigAssumption ==
    /\ MaxModelLen \in Nat
    /\ MaxBatchedTokens \in Nat
    /\ MaxNumSequences \in Nat
    /\ ~Chunked => MaxBatchedTokens >= MaxModelLen
    /\ MaxBatchedTokens >= MaxNumSequences

(* One block table per sequence id.  Requests that share an id share a table;
   that case is only followed where no request is ever swapped. *)
ASSUME SequenceIdAssumption ==
    /\ SequenceId \in [Requests -> Nat]
    /\ IsInjective(SequenceId) \/ \A r \in Requests : BestOf[r] = 1

VARIABLES
    waiting, running, swapped,   \* the queues of sequence groups
    status,                      \* SequenceStatus of the request's sequence
    prompt_len, length,          \* prompt tokens; prompt and output tokens
    computed, stage,             \* num_computed_tokens, SequenceStage
    gpu_table, cpu_table,        \* lengths of the block table of a sequence id
    free_gpu, free_cpu,          \* free blocks of the two allocators
    phase,                       \* where the scheduling pass is, "idle" outside
    pass,                        \* the locals of the pass
    outputs,                     \* SchedulerOutputs of the last pass
    in_flight,                   \* outputs was sent to the model and not answered
    err                          \* the error schedule returned; the engine ends

queues == <<waiting, running, swapped>>
seqs == <<status, prompt_len, length, computed, stage>>
blocks == <<gpu_table, cpu_table, free_gpu, free_cpu>>
batch == <<outputs, in_flight>>
vars == <<queues, seqs, blocks, phase, pass, batch, err>>

Ids == Range(SequenceId)

Live == {"Waiting", "Running", "Swapped"}

Statuses == Live \cup {"Unborn", "Finished", "FinishedIgnored", "FinishedAborted"}

Errors == {"ZeroNewTokensToSchedule", "InvalidNumberOfNewTokens", "EmptyScheduling",
           "NotEnoughBlockSpaceForSwapOut", "InvalidNumberSequencesForRecompute",
           "AppendSlotError", "OutOfMemory",
           "InvalidNumberBudgetTokens", "InvalidNumberBudgetSequences",
           "ChunkedPrefillsNotAllowed", "InvalidNumberGeneratedTokens"}

(* ScheduledSequenceGroup *)
Scheduled == [id : Requests, chunk : Nat, do_sample : BOOLEAN]

EmptyOutputs ==
    [scheduled |-> <<>>, ignored |-> <<>>, blocks_in |-> 0, blocks_out |-> 0]

(* The locals of a pass: the remaining queues, the lists of the three
   scheduling functions, and the SchedulingBudget. *)
EmptyPass ==
    [waiting |-> <<>>, running |-> <<>>, swapped |-> <<>>,
     prefills |-> <<>>, ignored |-> <<>>,
     run_decodes |-> <<>>, run_prefills |-> <<>>, preempted |-> <<>>, swapped_out |-> <<>>,
     in_decodes |-> <<>>, in_prefills |-> <<>>, infeasible |-> <<>>,
     blocks_in |-> 0, blocks_out |-> 0,
     tokens |-> 0, token_ids |-> {}, num_seqs |-> 0, seq_ids |-> {}]

-----------------------------------------------------------------------------
(* Sequences and groups *)

LogicalBlocks(r) == (length[r] + BlockSize - 1) \div BlockSize

(* get_max_num_running_seqs: best_of when above 1, else the unfinished sequences *)
GetMaxNumRunningSeqs(r) ==
    IF BestOf[r] > 1 THEN BestOf[r] ELSE IF status[r] \in Live THEN 1 ELSE 0

(* The tokens of the sequences of the group that have status st *)
NumNewTokens(r, st) ==
    IF status[r] # st THEN 0
    ELSE IF stage[r] = "Decode" THEN 1 ELSE length[r] - computed[r]

(* get_num_tokens, once NumNewTokens is not 0 *)
GetNumTokens(r, st) ==
    IF Chunked
    THEN Min({NumNewTokens(r, st), MaxBatchedTokens - pass.tokens})
    ELSE NumNewTokens(r, st)

GetPromptLimit == IF Chunked THEN MaxModelLen ELSE Min({MaxModelLen, MaxBatchedTokens})

(* Policy::sort_by_priority: an arrangement of q by arrival time *)
SortByPriority(q) ==
    LET n == Len(q)
        Arrange(p) == [i \in 1..n |-> q[p[i]]]
    IN  {s \in {Arrange(p) : p \in Bijection(1..n, 1..n)} :
            \A i, j \in 1..n : i < j => s[i] <= s[j]}

-----------------------------------------------------------------------------
(* SchedulingBudget: a request is charged once per pass *)

CanSchedule(tokens, num_seqs) ==
    /\ pass.tokens + tokens <= MaxBatchedTokens
    /\ pass.num_seqs + num_seqs <= MaxNumSequences

ChargeTokens_Uncounted(p, r, n) == [p EXCEPT !.token_ids = @ \cup {r}]

ChargeTokens(p, r, n) ==
    IF r \in p.token_ids THEN p
    ELSE [p EXCEPT !.tokens = @ + n, !.token_ids = @ \cup {r}]

ChargeSeqs_Uncounted(p, r) == [p EXCEPT !.seq_ids = @ \cup {r}]

ChargeSeqs(p, r) ==
    IF r \in p.seq_ids THEN p
    ELSE [p EXCEPT !.num_seqs = @ + GetMaxNumRunningSeqs(r), !.seq_ids = @ \cup {r}]

RefundTokens(p, r, n) ==
    IF r \notin p.token_ids THEN p
    ELSE [p EXCEPT !.tokens = @ - n, !.token_ids = @ \ {r}]

RefundSeqs(p, r) ==
    IF r \notin p.seq_ids THEN p
    ELSE [p EXCEPT !.num_seqs = @ - GetMaxNumRunningSeqs(r), !.seq_ids = @ \ {r}]

-----------------------------------------------------------------------------
(* What the block manager answers, in block counts *)

CanAllocate(r) ==
    IF LogicalBlocks(r) <= free_gpu THEN "Ok"
    ELSE IF LogicalBlocks(r) > NumGpuBlocks THEN "Never" ELSE "Later"

CanAppendSlots(r) == free_gpu >= 1

TableLen(r) == gpu_table[SequenceId[r]] + cpu_table[SequenceId[r]]

CanSwapOut(r) == TableLen(r) <= free_cpu

CanSwapIn_NoHeadroom(r) ==
    IF TableLen(r) > NumGpuBlocks THEN "Never"
    ELSE IF TableLen(r) <= free_gpu THEN "Ok" ELSE "Later"

(* one block more than the table, for the append_slots that follows *)
CanSwapIn(r) ==
    IF TableLen(r) + 1 > NumGpuBlocks THEN "Never"
    ELSE IF TableLen(r) + 1 <= free_gpu THEN "Ok" ELSE "Later"

(* append_slots on a table of n blocks with `free` blocks left: the blocks it
   adds.  A sequence without a table gets none. *)
SlotsAppended_Late(r, n) == IF n > 0 /\ n + 1 < LogicalBlocks(r) THEN 1 ELSE 0

SlotsAppended(r, n) == IF n > 0 /\ n < LogicalBlocks(r) THEN 1 ELSE 0

AppendSlotsError(r, n, free) ==
    IF SlotsAppended(r, n) = 0 THEN "none"
    ELSE IF n # LogicalBlocks(r) - 1 THEN "AppendSlotError"
    ELSE IF free = 0 THEN "OutOfMemory" ELSE "none"

(* allocate: the table replaces the entry of the sequence id *)
Allocate(r) ==
    /\ gpu_table' = [gpu_table EXCEPT ![SequenceId[r]] = LogicalBlocks(r)]
    /\ cpu_table' = [cpu_table EXCEPT ![SequenceId[r]] = 0]
    /\ free_gpu' = free_gpu - LogicalBlocks(r)
    /\ UNCHANGED free_cpu

AppendSlots(r) ==
    LET n == SlotsAppended(r, gpu_table[SequenceId[r]])
    IN  /\ gpu_table' = [gpu_table EXCEPT ![SequenceId[r]] = @ + n]
        /\ free_gpu' = free_gpu - n
        /\ UNCHANGED <<cpu_table, free_cpu>>

(* swap_in, then the append_slots that follows it *)
SwapInAndAppend(r) ==
    LET n == cpu_table[SequenceId[r]] + SlotsAppended(r, cpu_table[SequenceId[r]])
    IN  /\ gpu_table' = [gpu_table EXCEPT ![SequenceId[r]] = n]
        /\ cpu_table' = [cpu_table EXCEPT ![SequenceId[r]] = 0]
        /\ free_gpu' = free_gpu - n
        /\ free_cpu' = free_cpu + cpu_table[SequenceId[r]]

SwapOut(r) ==
    /\ gpu_table' = [gpu_table EXCEPT ![SequenceId[r]] = 0]
    /\ cpu_table' = [cpu_table EXCEPT ![SequenceId[r]] = gpu_table[SequenceId[r]]]
    /\ free_gpu' = free_gpu + gpu_table[SequenceId[r]]
    /\ free_cpu' = free_cpu - gpu_table[SequenceId[r]]

(* free_sequence *)
FreeSequence_Forgets(r) ==
    /\ gpu_table' = [gpu_table EXCEPT ![SequenceId[r]] = 0]
    /\ cpu_table' = [cpu_table EXCEPT ![SequenceId[r]] = 0]
    /\ UNCHANGED <<free_gpu, free_cpu>>

FreeSequence_KeepsTable(r) ==
    /\ free_gpu' = free_gpu + gpu_table[SequenceId[r]]
    /\ free_cpu' = free_cpu + cpu_table[SequenceId[r]]
    /\ UNCHANGED <<gpu_table, cpu_table>>

FreeSequence(r) ==
    /\ gpu_table' = [gpu_table EXCEPT ![SequenceId[r]] = 0]
    /\ cpu_table' = [cpu_table EXCEPT ![SequenceId[r]] = 0]
    /\ free_gpu' = free_gpu + gpu_table[SequenceId[r]]
    /\ free_cpu' = free_cpu + cpu_table[SequenceId[r]]

-----------------------------------------------------------------------------
Init ==
    /\ waiting = <<>> /\ running = <<>> /\ swapped = <<>>
    /\ status = [r \in Requests |-> "Unborn"]
    /\ prompt_len = [r \in Requests |-> 0]
    /\ length = [r \in Requests |-> 0]
    /\ computed = [r \in Requests |-> 0]
    /\ stage = [r \in Requests |-> "Prefill"]
    /\ gpu_table = [i \in Ids |-> 0]
    /\ cpu_table = [i \in Ids |-> 0]
    /\ free_gpu = NumGpuBlocks
    /\ free_cpu = NumCpuBlocks
    /\ phase = "idle"
    /\ pass = EmptyPass
    /\ outputs = EmptyOutputs
    /\ in_flight = FALSE
    /\ err = "none"

(* add_sequence_group: requests arrive in the order of their arrival times *)
AddSequenceGroup(r) ==
    /\ err = "none" /\ phase = "idle"
    /\ status[r] = "Unborn"
    /\ \A q \in Requests : q < r => status[q] # "Unborn"
    /\ \E n \in PromptLens :
        /\ prompt_len' = [prompt_len EXCEPT ![r] = n]
        /\ length' = [length EXCEPT ![r] = n]
    /\ status' = [status EXCEPT ![r] = "Waiting"]
    /\ waiting' = Append(waiting, r)
    /\ UNCHANGED <<running, swapped, computed, stage, blocks, phase, pass, batch, err>>

-----------------------------------------------------------------------------
(* The scheduling pass *)

(* The order of the three loops.  schedule_default tries prefills only when
   nothing is swapped, running groups only when nothing was prefilled, swapped
   groups only when nothing was preempted; schedule_chunked_prefill tries
   running groups, then swapped ones unless one was preempted, then prefills. *)
AfterPrefills == IF Chunked \/ pass.prefills # <<>> THEN "commit" ELSE "running"

AfterRunning_AlwaysSwapIn == "swapped"

AfterRunning ==
    IF pass.preempted = <<>> /\ pass.swapped_out = <<>> THEN "swapped"
    ELSE IF Chunked THEN "prefills" ELSE "commit"

AfterSwapped == IF Chunked THEN "prefills" ELSE "commit"

(* schedule: clone the queues; the default policy charges the sequences of the
   running groups first.  schedule_running and schedule_swapped sort their queue
   when they begin.  Sorted here, it is sorted in a pass that runs no such loop
   too; that makes no difference, because these loops alone read its order. *)
StartPass ==
    /\ phase' = IF ~Chunked /\ swapped = <<>> THEN "prefills" ELSE "running"
    /\ \E run \in SortByPriority(running), swap \in SortByPriority(swapped) :
        LET p == [EmptyPass EXCEPT !.waiting = waiting, !.running = run, !.swapped = swap]
        IN  pass' = IF Chunked THEN p
                    ELSE [p EXCEPT !.num_seqs = MapThenSumSet(GetMaxNumRunningSeqs, Range(running)),
                                   !.seq_ids = Range(running)]

Schedule ==
    /\ err = "none" /\ phase = "idle" /\ ~in_flight
    /\ StartPass
    /\ UNCHANGED <<queues, seqs, blocks, batch, err>>

(* What the loop of schedule_prefills does with the group at the front *)
PrefillVerdict(r) ==
    LET n == GetNumTokens(r, "Waiting")
    IN  IF NumNewTokens(r, "Waiting") = 0 THEN "ZeroNewTokensToSchedule"
        ELSE IF ~Chunked /\ n # length[r] THEN "InvalidNumberOfNewTokens"
        ELSE IF n > GetPromptLimit THEN "ignore"
        ELSE IF CanAllocate(r) = "Later" THEN "stop"
        ELSE IF CanAllocate(r) = "Never" THEN "ignore"
        ELSE IF n = 0 THEN "EmptyScheduling"
        ELSE IF ~CanSchedule(n, GetMaxNumRunningSeqs(r)) THEN "stop"
        ELSE "run"

(* The group preempted for the front of the running queue: the back of the
   queue, the front itself when it is alone *)
Victim_First(q) == Head(q)

Victim(q) == Last(q)

(* preempt: recomputation for a group of one sequence, swapping otherwise *)
ByRecompute(r) == GetMaxNumRunningSeqs(r) = 1

PreemptError(v) ==
    IF ByRecompute(v)
    THEN IF status[v] = "Running" THEN "none" ELSE "InvalidNumberSequencesForRecompute"
    ELSE IF CanSwapOut(v) THEN "none" ELSE "NotEnoughBlockSpaceForSwapOut"

RunningVerdict(r) ==
    LET table == gpu_table[SequenceId[r]]
        preempt_error == PreemptError(Victim(pass.running))
        append_error == AppendSlotsError(r, table, free_gpu)
    IN  IF NumNewTokens(r, "Running") = 0 THEN "ZeroNewTokensToSchedule"
        ELSE IF GetNumTokens(r, "Running") = 0 THEN "stop"
        ELSE IF ~CanAppendSlots(r)
             THEN IF preempt_error = "none" THEN "preempt" ELSE preempt_error
        ELSE IF append_error = "none" THEN "run" ELSE append_error

SwappedVerdict(r) ==
    LET n == GetNumTokens(r, "Swapped")
        table == cpu_table[SequenceId[r]]
        append_error == AppendSlotsError(r, table, free_gpu - table)
    IN  IF CanSwapIn(r) = "Later" THEN "stop"
        ELSE IF CanSwapIn(r) = "Never" THEN "ignore"
        ELSE IF NumNewTokens(r, "Swapped") = 0 THEN "ZeroNewTokensToSchedule"
        ELSE IF n = 0 \/ ~CanSchedule(n, GetMaxNumRunningSeqs(r)) THEN "stop"
        ELSE IF append_error = "none" THEN "run" ELSE append_error

(* The verdict on the next iteration of the loop the pass is in; a loop whose
   queue is empty stops *)
Verdict ==
    CASE phase = "prefills" ->
            IF pass.waiting = <<>> THEN "stop" ELSE PrefillVerdict(Head(pass.waiting))
      [] phase = "running" ->
            IF pass.running = <<>> THEN "stop" ELSE RunningVerdict(Head(pass.running))
      [] phase = "swapped" ->
            IF pass.swapped = <<>> THEN "stop" ELSE SwappedVerdict(Head(pass.swapped))
      [] OTHER -> "none"

In(ph, verdict) == err = "none" /\ phase = ph /\ Verdict = verdict

(* passed_delay: with a delay factor and running groups, the elapsed time
   decides at every iteration *)
Delayed ==
    /\ err = "none" /\ phase = "prefills"
    /\ pass.waiting # <<>> /\ DelayFactor /\ running # <<>>

StopPrefills_PushBack ==
    /\ In("prefills", "stop") \/ Delayed
    /\ phase' = AfterPrefills
    /\ pass' = [pass EXCEPT !.waiting = IF @ = <<>> THEN @ ELSE Append(Tail(@), Head(@))]
    /\ UNCHANGED <<queues, seqs, blocks, batch, err>>

StopPrefills ==
    /\ In("prefills", "stop") \/ Delayed
    /\ phase' = AfterPrefills
    /\ UNCHANGED <<queues, seqs, blocks, pass, batch, err>>

StopRunning ==
    /\ In("running", "stop")
    /\ phase' = AfterRunning
    /\ UNCHANGED <<queues, seqs, blocks, pass, batch, err>>

StopSwapped ==
    /\ In("swapped", "stop")
    /\ phase' = AfterSwapped
    /\ UNCHANGED <<queues, seqs, blocks, pass, batch, err>>

(* A `?` of the loop returns the error; the queues keep their old contents *)
PassFails ==
    /\ err = "none" /\ Verdict \in Errors
    /\ err' = Verdict
    /\ UNCHANGED <<queues, seqs, blocks, phase, pass, batch>>

Entry(r, n) ==
    [id |-> r, chunk |-> n,
     do_sample |-> stage[r] = "Decode" \/ n + computed[r] >= length[r]]

PrefillIgnored ==
    /\ In("prefills", "ignore")
    /\ LET r == Head(pass.waiting)
       IN  /\ status' = [status EXCEPT ![r] = "FinishedIgnored"]
           /\ pass' = [pass EXCEPT !.waiting = Tail(@), !.ignored = Append(@, r)]
    /\ UNCHANGED <<queues, prompt_len, length, computed, stage, blocks, phase, batch, err>>

(* allocate_and_set_running *)
PrefillScheduled ==
    /\ In("prefills", "run")
    /\ LET r == Head(pass.waiting)
           n == GetNumTokens(r, "Waiting")
       IN  /\ Allocate(r)
           /\ status' = [status EXCEPT ![r] = "Running"]
           /\ pass' = ChargeSeqs(ChargeTokens(
                        [pass EXCEPT !.waiting = Tail(@),
                                     !.prefills = Append(@, Entry(r, n))], r, n), r)
    /\ UNCHANGED <<queues, prompt_len, length, computed, stage, phase, batch, err>>

(* append_slots; a decode is always charged, and recorded, as one token *)
RunningScheduled ==
    /\ In("running", "run")
    /\ LET r == Head(pass.running)
           n == GetNumTokens(r, "Running")
           rest == [pass EXCEPT !.running = Tail(@)]
           p == IF stage[r] = "Prefill"
                THEN [rest EXCEPT !.run_prefills = Append(@, Entry(r, n))]
                ELSE [rest EXCEPT !.run_decodes = Append(@, Entry(r, 1))]
           charged == ChargeTokens(p, r, n)
       IN  /\ AppendSlots(r)
           /\ pass' = IF Chunked THEN ChargeSeqs(charged, r) ELSE charged
    /\ UNCHANGED <<queues, seqs, phase, batch, err>>

(* No slot for the front group: its charges are refunded and the victim loses
   its blocks *)
Preempt ==
    /\ In("running", "preempt")
    /\ LET r == Head(pass.running)
           v == Victim(pass.running)
           refunded == RefundSeqs(RefundTokens(pass, r, GetNumTokens(r, "Running")), r)
           p == [refunded EXCEPT !.running = Keep(@, Requests \ {v})]
       IN  IF ByRecompute(v)
           THEN /\ FreeSequence(v)
                /\ status' = [status EXCEPT ![v] = "Waiting"]
                /\ computed' = [computed EXCEPT ![v] = 0]
                /\ stage' = [stage EXCEPT ![v] = "Prefill"]
                /\ pass' = [p EXCEPT !.preempted = Append(@, v)]
           ELSE /\ SwapOut(v)
                /\ status' = [status EXCEPT ![v] = "Swapped"]
                /\ pass' = [p EXCEPT !.swapped_out = Append(@, v),
                                     !.blocks_out = @ + gpu_table[SequenceId[v]]]
                /\ UNCHANGED <<computed, stage>>
    /\ UNCHANGED <<queues, prompt_len, length, phase, batch, err>>

(* A swapped group that can never fit is dropped; its CPU blocks stay *)
SwappedIgnored ==
    /\ In("swapped", "ignore")
    /\ LET r == Head(pass.swapped)
       IN  /\ status' = [status EXCEPT ![r] = "FinishedIgnored"]
           /\ pass' = [pass EXCEPT !.swapped = Tail(@), !.infeasible = Append(@, r)]
    /\ UNCHANGED <<queues, prompt_len, length, computed, stage, blocks, phase, batch, err>>

SwappedScheduled ==
    /\ In("swapped", "run")
    /\ LET r == Head(pass.swapped)
           n == GetNumTokens(r, "Swapped")
           rest == [pass EXCEPT !.swapped = Tail(@),
                                !.blocks_in = @ + cpu_table[SequenceId[r]]]
           p == IF stage[r] = "Prefill"
                THEN [rest EXCEPT !.in_prefills = Append(@, Entry(r, n))]
                ELSE [rest EXCEPT !.in_decodes = Append(@, Entry(r, 1))]
       IN  /\ SwapInAndAppend(r)
           /\ status' = [status EXCEPT ![r] = "Running"]
           /\ pass' = ChargeSeqs(ChargeTokens(p, r, n), r)
    /\ UNCHANGED <<queues, prompt_len, length, computed, stage, phase, batch, err>>

-----------------------------------------------------------------------------
(* The end of a pass *)

RequestsOf(entries) == [i \in DOMAIN entries |-> entries[i].id]

(* push_front of the preempted groups, last one first *)
NewWaiting_Lost(p) == p.waiting

NewWaiting_PushBack(p) == p.waiting \o p.preempted

NewWaiting(p) == p.preempted \o p.waiting

(* The chunked policy does not put back the prefills schedule_running continued *)
NewRunning_DropSwappedIn(p) ==
    p.running \o RequestsOf(p.prefills) \o RequestsOf(p.run_decodes)

NewRunning(p) ==
    p.running \o RequestsOf(p.prefills) \o RequestsOf(p.run_decodes)
        \o RequestsOf(p.in_decodes) \o (IF Chunked THEN RequestsOf(p.in_prefills) ELSE <<>>)

NewSwapped(p) == p.swapped \o p.swapped_out

NewOutputs(p) ==
    [scheduled |-> p.prefills
                   \o (IF Chunked THEN p.run_prefills \o p.in_prefills ELSE <<>>)
                   \o p.run_decodes \o p.in_decodes,
     ignored |-> IF Chunked THEN p.ignored ELSE p.ignored \o p.infeasible,
     blocks_in |-> p.blocks_in,
     blocks_out |-> p.blocks_out]

(* SchedulerOutputs::is_empty; groups of one sequence never copy blocks *)
OutputsEmpty(o) == o.scheduled = <<>> /\ o.blocks_in = 0 /\ o.blocks_out = 0

(* The budget checks come before the queues are written, the check for
   prefills among running groups after *)
CommitError(p) ==
    IF p.tokens > MaxBatchedTokens THEN "InvalidNumberBudgetTokens"
    ELSE IF p.num_seqs > MaxNumSequences THEN "InvalidNumberBudgetSequences"
    ELSE IF ~Chunked /\ (p.run_prefills # <<>> \/ p.in_prefills # <<>>)
         THEN "ChunkedPrefillsNotAllowed"
    ELSE "none"

Commit ==
    /\ err = "none" /\ phase = "commit"
    /\ err' = CommitError(pass)
    /\ IF err' \in {"none", "ChunkedPrefillsNotAllowed"}
       THEN /\ waiting' = NewWaiting(pass)
            /\ running' = NewRunning(pass)
            /\ swapped' = NewSwapped(pass)
       ELSE UNCHANGED queues
    /\ IF err' = "none"
       THEN /\ outputs' = NewOutputs(pass)
            /\ in_flight' = ~OutputsEmpty(outputs')
            /\ phase' = "idle"
            /\ pass' = EmptyPass
       ELSE UNCHANGED <<batch, phase, pass>>
    /\ UNCHANGED <<seqs, blocks>>

(* process_generated_outputs: the computed tokens of the batch are counted, a
   sampled token is added to its sequence (update_sequence) and may end it: a
   stop token, or the length limits.  Finished groups leave the running queue
   (remove_finished_sequences); their block tables are not freed. *)
Batch == Range(outputs.scheduled)

Computes(e) == status[e.id] \in Live

LengthCapped(r, n) == n > MaxModelLen \/ n - prompt_len[r] >= MaxNewTokens

UpdateNumComputedTokens(e) == computed[e.id] + e.chunk

(* remove_finished_sequences *)
RemoveFinishedSequences_Keep(q, st) == q

RemoveFinishedSequences(q, st) == Keep(q, {r \in Requests : st[r] \in Live})

Sampled == {e.id : e \in {e \in Batch : e.do_sample}}

(* `stopped`: the sequences whose new token is a stop token *)
ProcessOutputs(stopped) ==
    LET computing == {e \in Batch : Computes(e)}
        grown(r) == IF r \in Sampled THEN length[r] + 1 ELSE length[r]
        tokens(r) == IF \E e \in computing : e.id = r
                     THEN UpdateNumComputedTokens(CHOOSE e \in computing : e.id = r)
                     ELSE computed[r]
        ended == stopped \cup {r \in Sampled : LengthCapped(r, grown(r))}
    IN  /\ err = "none" /\ phase = "idle" /\ in_flight
        /\ in_flight' = FALSE
        /\ IF \E e \in computing : tokens(e.id) > length[e.id]
           THEN /\ err' = "InvalidNumberGeneratedTokens"
                /\ UNCHANGED <<running, seqs>>
           ELSE /\ length' = [r \in Requests |-> grown(r)]
                /\ computed' = [r \in Requests |-> tokens(r)]
                /\ stage' = [r \in Requests |->
                        IF (\E e \in computing : e.id = r) /\ tokens(r) = length[r]
                        THEN "Decode" ELSE stage[r]]
                /\ status' = [r \in Requests |-> IF r \in ended THEN "Finished" ELSE status[r]]
                /\ running' = RemoveFinishedSequences(running, status')
                /\ UNCHANGED <<prompt_len, err>>
        /\ UNCHANGED <<waiting, swapped, blocks, phase, pass, outputs>>

(* abort_sequence_group.  `index` is the position of the group in the
   concatenated queues, their total length when it is in none. *)
AbortSequenceGroup(r) ==
    LET all == waiting \o running \o swapped
        found == \E i \in DOMAIN all : all[i] = r
        index == IF found THEN (CHOOSE i \in DOMAIN all :
                        all[i] = r /\ \A j \in 1..(i - 1) : all[j] # r) - 1
                 ELSE Len(all)
        w == Len(waiting)
        wr == Len(waiting) + Len(running)
        Without(q) == Keep(q, Requests \ {r})
    IN  /\ err = "none" /\ phase = "idle"
        /\ IF found /\ status[r] \in Live
           THEN /\ status' = [status EXCEPT ![r] = "FinishedAborted"]
                /\ FreeSequence(r)
           ELSE UNCHANGED <<status, blocks>>
        /\ IF w <= index /\ index < wr
           THEN running' = Without(running) /\ UNCHANGED <<waiting, swapped>>
           ELSE IF index > wr
           THEN swapped' = Keep(swapped, {r}) /\ UNCHANGED <<waiting, running>>
           ELSE waiting' = Without(waiting) /\ UNCHANGED <<running, swapped>>
        /\ UNCHANGED <<prompt_len, length, computed, stage, phase, pass, batch, err>>

-----------------------------------------------------------------------------
(* The calls the engine makes *)
PassStep ==
    \/ StopPrefills \/ StopRunning \/ StopSwapped \/ PassFails
    \/ PrefillIgnored \/ PrefillScheduled
    \/ RunningScheduled \/ Preempt
    \/ SwappedIgnored \/ SwappedScheduled
    \/ Commit

Next ==
    \/ \E r \in Requests : AddSequenceGroup(r)
    \/ Schedule \/ PassStep
    \/ \E stopped \in SUBSET Sampled : ProcessOutputs(stopped)

Spec == Init /\ [][Next]_vars

(* ... and the aborts the scheduler exports, which nothing in the engine calls *)
NextWithAborts ==
    \/ Next
    \/ \E r \in Requests : AbortSequenceGroup(r)

SpecWithAborts == Init /\ [][NextWithAborts]_vars

-----------------------------------------------------------------------------
(* Properties *)

(* Every variable of the scheduler but err, whose values LlmEngine extends, has
   its type. *)
SchedulerTypeOK ==
    /\ waiting \in Seq(Requests) /\ running \in Seq(Requests) /\ swapped \in Seq(Requests)
    /\ status \in [Requests -> Statuses]
    /\ prompt_len \in [Requests -> Nat]
    /\ length \in [Requests -> Nat]
    /\ computed \in [Requests -> Nat]
    /\ stage \in [Requests -> {"Prefill", "Decode"}]
    /\ gpu_table \in [Ids -> Nat] /\ cpu_table \in [Ids -> Nat]
    /\ free_gpu \in 0..NumGpuBlocks /\ free_cpu \in 0..NumCpuBlocks
    /\ phase \in {"idle", "prefills", "running", "swapped", "commit"}
    /\ \A f \in {"waiting", "running", "swapped", "preempted", "swapped_out",
                  "ignored", "infeasible"} : pass[f] \in Seq(Requests)
    /\ \A f \in {"prefills", "run_decodes", "run_prefills", "in_decodes",
                  "in_prefills"} : pass[f] \in Seq(Scheduled)
    /\ pass.tokens \in Nat /\ pass.num_seqs \in Nat
    /\ pass.blocks_in \in Nat /\ pass.blocks_out \in Nat
    /\ pass.token_ids \subseteq Requests /\ pass.seq_ids \subseteq Requests
    /\ outputs.scheduled \in Seq(Scheduled) /\ outputs.ignored \in Seq(Requests)
    /\ in_flight \in BOOLEAN

Between == phase = "idle" /\ err = "none"

Count(q, r) == Cardinality({i \in DOMAIN q : q[i] = r})

(* Between passes a request whose sequence is waiting, running or swapped is
   in exactly the queue of that name, once; a finished one is in none.  A pass
   rebuilds the three queues from a dozen lists and never loses, duplicates or
   misfiles a request. *)
QueuesMatchStatus ==
    Between => \A r \in Requests :
        /\ Count(waiting, r) = (IF status[r] = "Waiting" THEN 1 ELSE 0)
        /\ Count(running, r) = (IF status[r] = "Running" THEN 1 ELSE 0)
        /\ Count(swapped, r) = (IF status[r] = "Swapped" THEN 1 ELSE 0)

(* Block accounting: free blocks and block tables add up to the two pools at
   every step of a pass, swaps and preemptions included. *)
BlocksConserved ==
    /\ free_gpu + MapThenSumSet(LAMBDA i : gpu_table[i], Ids) = NumGpuBlocks
    /\ free_cpu + MapThenSumSet(LAMBDA i : cpu_table[i], Ids) = NumCpuBlocks

(* Every sequence of the batch the model is computing is still running and its
   GPU table has a slot for each of its tokens, the one being decoded included:
   nothing scheduled in a pass loses its blocks later in the same pass. *)
BatchBacked ==
    in_flight => \A e \in Batch :
        status[e.id] # "FinishedAborted" =>
            /\ status[e.id] = "Running"
            /\ gpu_table[SequenceId[e.id]] * BlockSize >= length[e.id]

(* A waiting sequence holds no block, a swapped one none of the GPU: what
   preemption and swapping free is really free. *)
PreemptedHoldNothing ==
    \A r \in Requests :
        /\ status[r] = "Waiting" => TableLen(r) = 0
        /\ status[r] = "Swapped" => gpu_table[SequenceId[r]] = 0

(* The batch keeps to max_num_batched_tokens and the running groups to
   max_num_sequences, although schedule_running charges the budget without
   asking it. *)
WithinBudget ==
    Between =>
        /\ FoldSeq(LAMBDA e, n : e.chunk + n, 0, outputs.scheduled) <= MaxBatchedTokens
        /\ FoldSeq(LAMBDA r, n : GetMaxNumRunningSeqs(r) + n, 0, running) <= MaxNumSequences

(* schedule returns no error: none of its checks fires and no block operation
   it decided on fails. *)
NoSchedulerError == err = "none"

(* SchedulerOutputs::validate: one pass never swaps in and swaps out. *)
NeverSwapBothWays ==
    phase = "commit" => pass.blocks_in = 0 \/ pass.blocks_out = 0

(* A pass that preempts does it in reverse order of arrival: what it keeps
   running arrived before everything it preempted. *)
PreemptLatestFirst ==
    phase = "commit" =>
        \A kept \in Range(RequestsOf(pass.run_decodes)) :
            \A victim \in Range(pass.preempted \o pass.swapped_out) : kept < victim

Started(r) == length[r] > prompt_len[r]

(* Preempted requests wait in front of the ones that never ran. *)
PreemptedBeforeNew ==
    \A i, j \in DOMAIN waiting :
        i < j /\ Started(waiting[j]) => Started(waiting[i])

(* First come, first served: while a request still waits for its first run, no
   later one has run. *)
AdmittedInArrivalOrder ==
    Between => \A r, q \in Requests :
        r < q /\ status[r] = "Waiting" /\ ~Started(r) /\ status[q] # "Unborn"
            => ~Started(q) /\ status[q] # "Running"

(* process_generated_outputs: "Frees finished sequence groups". *)
FinishedHoldNothing ==
    Between => \A r \in Requests : status[r] = "Finished" => TableLen(r) = 0

=============================================================================
