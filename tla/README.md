# A TLA+ verification of atoma-infer

This directory models `atoma-infer` from the HTTP handlers down to the cells of the paged KV
cache: the block manager, the continuous-batching scheduler and the engine task of
`backends/vllm`, the worker and the addresses its kernels read and write, the model threads of
several GPUs, and the service, tokenizer and server around them. TLC checks the models on small
instances; TLAPS proves the safety of the block manager, the scheduler, the engine, the model
threads and the service for every value of their constants. Paths below are relative to `src/backends/vllm/src/` unless they start with `src/`.

## Inventory of the system

| Part | State | Operations | Interaction |
|---|---|---|---|
| Block allocator, blocks (`block_allocator.rs`, `block.rs`) | free list per device; reference count per block | `allocate`, `free` | owned by the block manager |
| Block manager (`block_manager.rs`) | block table per sequence id | `can_*`, `allocate`, `append_slots`, `fork`, `swap_in`, `swap_out`, `free`, `reset` | called by the scheduler |
| Sequences (`sequence.rs`) | status, stage, tokens, computed tokens, logical blocks | `add_token_id`, `update_num_computed_tokens`, `reset_state_for_recompute` | shared by scheduler and engine behind `Arc<RwLock>` |
| Scheduler (`scheduler.rs`, `policy.rs`) | queues waiting, running, swapped | `add_sequence_group`, `schedule`, `abort_sequence_group`, `remove_finished_sequences` | called by the engine |
| Engine (`llm_engine.rs`) | last outputs, response senders | `run` (a `select!` loop), `step`, `handle_outputs` | channels to the service, the model thread and the clients |
| Model threads (`model_executor.rs`) | a command channel per rank | `start`, `run`, `send`, `sample` | one one-shot reply per batch, from rank 0; collectives among the ranks |
| Worker, cache engine (`worker.rs`) | GPU and CPU caches | `execute_model`, `cache_swap`, `prepare_input_tensors` | inside the model thread |
| Attention and models (`src/models/`) | none between batches | `Llama::forward`, `FlashAttention::forward`, AllReduce | called by the worker |
| Kernels, bindings (`src/csrc/`) | none | `swap_blocks`, `copy_blocks`, `reshape_and_cache_flash`, `flash_attn_*` | called by attention |
| Service (`llm_service.rs`) | request counter, task handles | `start`, `run`, `handle_request`, `stop` | server → validation → engine |
| Validation, tokenizer (`validation.rs`, `tokenizer.rs`) | worker tasks | `validate`, `validate_input`, round robin | one-shot channels |
| Evictor (`evictor.rs`) | LRU table | `evict`, `add`, `update`, `remove` | used by nothing else |
| Configuration (`config.rs`) | none | `verify_args`, memory sizing | read at start |
| Server (`src/server/`) | request counter, stream status | `run_server`, `completion_handler`, `Streamer::poll_next` | clients; a shutdown channel to the service |

What is hard: the block manager keeps three views of one fact (tables, reference counts, free
lists) in step through copy on write, forks and swaps. The scheduler decides from counts it took
earlier, preempts groups in the middle of a pass and rebuilds its queues from many lists. The
engine, the model thread and the clients run concurrently, and the engine only acts when a
request or a reply arrives. The worker carries out the scheduler's swaps and copies later and in
another order, and flattens all sequences into one tensor. Several GPUs meet in collectives that
wait for everyone. A shutdown meets requests anywhere on their way. `PROJECT.json` lists each hazard at its line, with the properties
aimed at it.

What makes each part correct:

- block manager: the three views agree; the capacity tests suffice; a write reaches one sequence
  only; a swap preserves contents and sharing;
- scheduler: no request is lost or duplicated; a batch is backed by blocks; the budget holds; the
  earliest requests keep running; no internal error;
- engine: one batch at a time; every finished request is answered, once; every request is
  eventually answered;
- worker, attention, kernels: a sequence reads back the keys and values of its own tokens and of
  nothing else, and each output is computed from its own sequence; no batch is refused;
- model threads: all ranks are in the same collective of the same batch; none falls behind;
- service and server: a client gets its own answer, whole and in order, or an error; limits hold;
  a shutdown cuts nobody off, and ends.

## Modules

### `BlockSpaceManager`

The block manager, both allocators, and the part of `Sequence` the manager reads. A block is a
(device, number) pair, so reference counts and free lists of both devices are one function and
one set. Which free block an allocation pops is open. Actions are the scheduler's call patterns:
`Allocate`, `StartAppend` and then `AppendSlots` for each sequence (the loop is open to every
order, as it iterates a `HashMap`), `SwapOut`, `SwapIn` followed by the append loop, `Abort`,
`PreemptByRecompute`, `Finish`, `Fork`, `Reset`, and `AddTokenId` when the batch has run. The
variable `slot` remembers that a sequence is in the batch being built. An action is guarded by the
code's own capacity test (`CanAllocate`, `CanAppendSlots`, `CanSwapOut`, `CanSwapIn`) and then does
what the operation does, which is to fail with `OutOfMemory` where the free list is empty
(`OutOfBlocks`); so a test that promises too much shows as an error. An operation's `Err` sets
`err`, after which nothing happens, because the engine propagates it out of `run`. The sliding
window is modelled too (`BlockSlidingWindow`, 0 for `None`).

Groups may hold several sequences that share a prompt or are forked, as the manager's tests do,
although the service builds groups of one.

### `Scheduler`

Requests are numbered by arrival time, so `FcfsPolicy` sorts by number. A group has one sequence.
Block tables are lengths and allocators are counters; `BlockSpaceManager` is where the identity
of blocks matters. A pass is a machine of small steps, one per loop iteration: `phase` says which
of `schedule_prefills`, `schedule_running` and `schedule_swapped` is running, `pass` holds its
locals (remaining queues, result lists, budget). `Verdict` says what the next iteration does with
the group at the front, in the order of the code's tests (queues are sorted when the pass starts;
the code does it at the start of the loop that reads them); `StopX`, `XIgnored`, `XScheduled`,
`Preempt` and `PassFails` do it; `Commit` checks the budget and writes the queues. In the code
nothing runs between these steps, and in the model only these steps are enabled while a pass is
under way. `ProcessOutputs` is the effect of `process_generated_outputs` on sequences and
queues: the token a sequence samples may be a stop token, or reach a length limit.
`AbortSequenceGroup` is exported by the scheduler but called by nothing in the engine, so it is
in `SpecWithAborts` only.

`passed_delay` compares clock readings; with a delay factor and running groups the model leaves
the answer open at every iteration (`Delayed`).

### `LlmEngine`

Extends `Scheduler` with the request channel, the sender maps, the model thread with its reply
channel, and what each client has seen. `at` says where the engine task is: in `select!`, about
to `step` (the sleep included), in a pass, or sending the responses. Clients and model thread
move at any time. A streamed token fails to send when the client has left, or when the receiver
went away on an earlier `Finished` of the same token (`StreamFails`): each of the four reasons to
finish, a stop sequence, the EOS token, the model's length and the request's, sends its own.

### `ModelForward`

One pass of the model over a batch, as pure operators. `PrepareInputTensors` flattens the
sequences into a row per token with positions, slots, lengths and padded tables;
`PrefillMetadata` and `DecodingMetadata` cut the rows; `FlashAttnVarlen` and `FlashAttnKvCache`
say which rows and slots a row sees, through the windows the bindings compute and the mask of the
kernel; `Sample` hands the selected rows back to the sequences. The numbers are left out: a key is
the token and position of its row (the first layer), a value is the text its row saw (the layers
above, which read what attention found below them). `TextOf` maps the keys a row sees to a text
and yields `Nothing` if they do not spell one, so any key too many, missing or foreign shows.
`ForwardFails` collects the `bail!`s that depend on the batch. A slot is a pair; the code packs
block and offset into one number and the kernel divides it again. Padding, block 0 in the code, is
the value `"pad"`, which is no block. The floats of `num_splits_heuristic` are rationals, and the
multiple of 16 a block size must be is `PageMultiple`, scaled down with the blocks. The block size,
which the kernels share with the block manager, is declared in `CacheConfig`.

### `PagedKvCache` and `KvCache`

`PagedKvCache` extends `BlockSpaceManager` and `ModelForward` with the memory: a cell per slot, for keys and for
values, on both devices. While the scheduler builds a batch (`EnterLoop` is the order of the loops
of the default policy) it collects `blocks_to_swap_in`, `blocks_to_swap_out` and
`blocks_to_copy`; `ExecuteModel` does what `execute_model` does: `CacheSwap` in the worker's order,
then `Forward`, then `Sample`, over every order the `HashMap`s may give the batch. Copies are one
step: `swap_blocks` drops the stream it forked, which waits for them. What free blocks hold is
left out of the state (`Relevant`), since it is dead until written.

`KvCache` is the abstract specification: per sequence its text, the tokens it can read back, and
the text the pending answer was computed from. `ImplementsKvCache` maps `known` to what attention
would read through the block table, with pending swaps and copies applied (`Readable`).

Two kernels do not do what their docs say (below). `Repaired` names the ones an instance takes as
repaired; with `Repaired = {}` the module is the code.

### `ModelThreads`

The threads of `ModelThreadDispatcher`, one per rank: the communicator, loading and its signal,
the broadcast configuration, the command channel, the forward pass as a number of AllReduce
operations each of which waits for all ranks, and the ways to fail, at every point. `AllReduce`
is one step of all ranks; NCCL may return earlier on a rank, which changes no order of calls.

### `LlmService`

Extends `ModelThreads` with everything between a client and rank 0: `completion_handler` and the
two ways to answer, `Streamer::poll_next` with what will poll it again (`wake`), the service task,
validation and the tokenizer's round robin, the engine's response channels and what
`update_sequence` sends, and the shutdown from Ctrl-C to the end of the last thread. A text is a
sequence of pieces, one per token; the decoded text leaves out special tokens; sampling parameters
are in tenths. The engine is reduced: the default policy with a cache that holds every request.
`LlmEngine` is where its scheduler matters. A request is removed from a task's variables when the
code drops it, so that `SenderAlive` says when a client's channel is closed. `start` may fail: it
panics on the first rank, in their order, whose loading signal is dropped (`StartPanics`), or returns
the error of a configuration or of `Scheduler::new`, before or after the configuration is broadcast
(`StartFails`). A batch whose reply channel is closed makes the engine `step` again
(`ReceiveClosed`): it schedules the prompts that have arrived since, or the running groups once more.

### `Lists`

`Keep(q, S)`, the filter of queues and batches, written as a recursive function. The prover has no
definition of `SelectSeq` and no lemma can take an operator as its argument.

### Proof modules

| Module | About | Uses |
|---|---|---|
| `BlockSpaceManagerProofs` | `BlockSpaceManager` | |
| `ListsProofs` | what `Keep`, `Tail`, `Append` and `\o` make of a list without repetition; the least number of a set, and the inductions from it; sums of a function over a finite set (`MapThenSumSet`) | |
| `SchedulerProofs` | `Scheduler` | `ListsProofs` |
| `LlmEngineProofs` | `LlmEngine` | `SchedulerProofs` |
| `ModelThreadsProofs` | every step of `ModelThreads` keeps `RanksInv` | |
| `PagedKvCacheProofs` | `PagedKvCache` and `ModelForward` | `BlockSpaceManagerProofs`, `ListsProofs` |
| `PagedKvCacheRefinement` | `PagedKvCache` implements `KvCache` | `PagedKvCacheProofs` |
| `LlmServiceProofs` | `LlmService` and the `ModelThreads` it extends | `ModelThreadsProofs`, `ListsProofs` |

### Instances

`MCBlockSpaceManager`, `MCScheduler`, `MCLlmEngine`, `MCPagedKvCache` and `MCLlmService` give the
constants values. In `MCScheduler` and `MCLlmEngine` the last `LastBestOf` requests ask for two candidates, which makes `preempt` choose swapping.

Definitions named `X_Y`, placed before the definition `X`, are variants with a plausible mistake.
No specification uses them; they serve to see that a property notices the mistake.

## Runs that pass

| Run | Instance | What it shows |
|---|---|---|
| `block_manager` | 4 GPU and 3 CPU blocks of 2 tokens; groups of up to 2 and 1 sequences of up to 3 blocks; no window; symmetric in blocks and in the members of a group | tables, counts and free lists agree through every operation; no operation fails; a write has one owner; swaps keep sharing; the inductive invariant, with `TypeOK` and `TablesOnDevice` among its parts, holds |
| `scheduler_swap` | 4 requests of 1, 2 or 7 tokens, 2 of them swapped; 3 GPU and 6 CPU blocks of 1 token; prompts up to 6 | queues match statuses; blocks add up; the batch is backed; preempted requests hold nothing; the budget holds; no error; the latest are preempted first |
| `scheduler_aborts` | 3 requests of 1, 3 or 9 tokens; 3 blocks of 2 tokens; recomputation only; delay factor; aborts | queues match statuses through aborts; preempted requests come before new ones; first come, first served |
| `scheduler_chunked` | chunked prefill, 4 requests of 1, 5 or 7 tokens with a budget of 4; 6 GPU and 12 CPU blocks | the batch is backed; the budget holds; never swaps both ways |
| `engine` | 3 requests of 1, 2 or 6 tokens, one streamed, one swapped; 5 GPU blocks; prompts up to 5; delay factor; clients leave, the model fails | one batch at a time; finished requests are answered; answers are final; every variable of engine and scheduler keeps its type; whoever waits is answered, with the exceptions below |
| `kv_cache` | 4 GPU and 2 CPU blocks of 2 tokens; groups of up to 2 and 1 sequences of up to 2 blocks; 2 query heads on 1 key head; both kernels repaired; symmetric in blocks and in the members of a group | the paged cache implements `KvCache`; the three maps of transfers do not interfere; no batch is refused; no split is empty |
| `service` | 2 requests (a stream of two tokens or an empty prompt; a completion, a stream that takes all the room left, one that asks for too much, one whose prompt fills the limit, one whose sum wraps); `max_input_length` equal to `max_total_tokens`; 2 tokenizer workers; 2 ranks with 1 collective each, of which one may fail; 3 batches; one client may leave; Ctrl-C | own answers, streams in order, token limits, matching collectives; every completion is answered, every stream and the process end |

The bounds are chosen so that the interesting cases happen: with one-token blocks every decode
needs a block, so preemption starts after a few tokens; three blocks for four requests force
chains of preemptions, swaps in both directions and a swapped group that can never come back;
prompts longer than the limit and than the cache are among the inputs; three or four requests
are enough for a victim, a survivor and a group that waits. In `kv_cache` two blocks per sequence
give a boundary to cross, two sharers a copy on write, and two CPU blocks a swap of a whole group;
prompts have at least two tokens (`MinPromptTokens`), because the tokenizer adds one. In `service`
two requests are enough for one to leave, be rejected or be answered while the other is anywhere
else; three batches for the longest of them; `U32` is 16 in place of 2^32, above every sum the
inputs make but that of the request that asks for `U32 - 1` tokens. TLC reports every action of the
specifications as taken.

Deadlock is not checked for the scheduler, the engine, the paged cache and the service: there are
finitely many requests, so a run legitimately ends, and an error ends the engine or the worker.

### Fairness

`FairEngineSpec` assumes weak fairness of the engine task (tokio polls a ready task) and of the
model thread (it answers or drops each batch it receives). Clients are under no fairness.
`EveryRequestAnswered` says that a client that waits is answered or leaves, with four exceptions,
each a state in which the code leaves it waiting: the engine has ended with an error; the model
thread has ended; the request was ignored by a pass; or `AsleepWithoutBlocks`, the engine has nothing
in flight, and a preempted group waits or the first group of a queue does not fit. The run reaches all
four. With 15 blocks the last one is unreachable, and the property says that no
request is left waiting for want of a step. The delay factor is on, so the run covers prefills
postponed again and again.

`ServiceSpec` assumes weak fairness of each handler, of the service, tokenizer, engine and server
tasks, of each rank, and of the steps the ranks take together. A handler that awaits a one-shot is
woken by it. A `Streamer` is not woken by its channel: `PollNext` stays enabled after `Pending`
because the keep-alive of the response polls the stream again when its timer fires
(`src/server/src/server.rs:482`). Nothing makes a client send or leave, anyone press Ctrl-C, or a
rank fail. Two states are exempt from the liveness properties because the code does not leave
them: a rank was lost, so that the others may wait in an AllReduce for ever (`RankLost`), and a
stream whose channel was closed before its first message (`NeverEnds`).

## Runs that end in a violation

Each checks what a comment or doc of the repository says against what the code does; the
findings in `PROJECT.json` quote both.

| Run | Property | What happens |
|---|---|---|
| `shared_sequence_id` | `BlocksConserved` | the request counter never moves, so tables overwrite each other |
| `finished_keep_blocks` | `FinishedHoldNothing` | finished sequences keep their blocks |
| `swap_loses_keys` | `ReadsBack` | on the CPU keys and values of a block share one place, so a swapped sequence reads the wrong ones |
| `output_text` | `OutputTextIsGenerated` | from its second token on, a completion's text repeats what it has |
| `stream_deltas` | `ChunksAreDeltas` | every chunk of a stream holds the whole text so far, the prompt included, not the increment |

Further disagreements met while modelling, visible in the models but without a run:

- `free_block_table` (`block_manager.rs:807`) frees the part of a table past the sliding window
  only, and panics on a shorter table. With `BlockSlidingWindow = 1` in
  `MCBlockSpaceManager.cfg` most of its invariants fail.
- `abort_sequence_group` (`scheduler.rs:430`, `:439`) misses the first swapped group and, for any
  other, keeps the aborted group and drops the rest. With `LastBestOf = 2`, 6 CPU blocks and
  `MaxNumSequences = 5` in `MCSchedulerAborts.cfg`, `QueuesMatchStatus` fails.
- `can_schedule` (`scheduler.rs:76`) reports a spent token budget as `EmptyScheduling`, which
  ends the engine; `NoSchedulerError` fails under the chunked policy.
- An ignored group (`llm_engine.rs:337`) is finished, and its client is never told.
- A client that left (`llm_engine.rs:188`), or a second `Finished` for one token
  (`llm_engine.rs:480`), makes a send fail, and the error ends the engine for everybody.
- Two groups preempted in one pass come back in reverse order of arrival (`scheduler.rs:1128`):
  they are pushed to the front in the order they were popped from the back.
- Under chunked prefill a prompt longer than two chunks is in no queue after the second
  (`scheduler.rs:1313`): `QueuesMatchStatus` fails with `MCSchedulerChunked.cfg`.
- A pass that preempts everything it has, or cannot admit the first group that waits, schedules
  nothing; the engine then sleeps until a request arrives (`llm_engine.rs:229`), although the
  comment there says that nothing was received.
- After a failed batch the next `step` finds prefills among the running groups and returns an error
  that ends the engine (`llm_engine.rs:200`).
- `copy_blocks` documents its mapping as `u32` (`src/csrc/src/cache_manager.rs:143`), gets it as
  `u32`, and reads it as `i64` (`:254`): any copy on write fails the batch. `ExecutionSucceeds` fails
  in `MCPagedKvCache.cfg` without `"copy_mapping"` in `Repaired`.
- A stream whose request is rejected, or whose engine has ended, before its first token is kept
  alive for ever (`src/server/src/stream.rs:97`), and a graceful shutdown waits for it.
- `completion_tokens` counts the prompt's tokens too
  (`src/server/src/api/chat_completions.rs:1009`).
- `max_total_tokens` is documented as the "Maximum total number of tokens (input + generated)
  allowed" (`config.rs:471`). A `max_new_tokens` near 2^32 wraps the sum of `validation.rs:138` and
  passes its check (`SumWraps`). A prompt that fills `max_total_tokens`, which a `max_input_length`
  as large allows and nothing forbids (`validation.rs:36`, `config.rs:477`), is granted 0 new tokens
  if it sets none, and gets one, since the count is compared after the token was added
  (`llm_engine.rs:491`, `FillsTheLimit`). `WithinTokenLimits` names both cases and bounds them; the
  run `service` reaches both.
- After a failed batch of decodings nothing is wrong with the running groups, and the engine sends
  them to the ended model thread again and again (`llm_engine.rs:200`; `send` only logs,
  `model_executor.rs:531`), without an answer and without an end.
- Mixed batches of prompts and decodings, which the doc of `FlashAttention`
  (`src/models/src/flash_attention.rs:169`) allows, give the decodings the tables of the whole
  batch, and the kernel refuses them (`DecodeFails`).
- With `nccl` the cache is allocated for `num_kv_heads / world_size` heads (`worker.rs:589`), while
  `split_kv_cache` reshapes it with the heads attention was built with.
- `truncate` counts characters in `tokenizer.rs:174` and tokens in `validation.rs:96`; the server never
  sets it.

The passing runs therefore give each request an id of its own (what the doc of `Sequence`
demands), use the window 0, and swap nothing where aborts are tried; `scheduler_chunked` checks
neither `QueuesMatchStatus` nor `NoSchedulerError`; `kv_cache` takes both kernels as repaired.

## Proofs

Every theorem is of the form `Spec => []Inv`, `Spec => [][A]_v` or `Spec => AbstractSpec`, for all
constants that satisfy the named assumptions of the module. TLC evaluates those assumptions in the
runs.

None of the properties is inductive alone. Each component has an invariant from which they follow;
its proof has one lemma per action, and the lemmas say what a step does to one part of the
invariant.

Inductions over lists, sets and numbers of ranks are by the least number of a set (`LeastNumber`,
from the well-foundedness of `<`): the library's induction theorems take a predicate as a
parameter, which the installed provers cannot instantiate. `Total` of `ListsProofs` is shown to
satisfy the recursion of a sum that way, and then that adding, removing or changing one member
changes the sum by what it should.

### The block manager

`BlockSpaceManagerProofs`, without a sliding window (`BlockSlidingWindow = 0`), for any finite,
disjoint sets of blocks, finitely many sequences and any positive block size:

| Theorem | Statement |
|---|---|
| `Invariance` | `IndInv` is an invariant |
| `TypeCorrect` | `TypeOK`: no negative reference count, no overfull block |
| `RefCountsCorrect` | `RefCountsMatchTables` |
| `FreeListCorrect` | `FreeListExact` |
| `CapacityChecksSuffice` | `NoOperationFails` |
| `WritesAreExclusive` | `ExclusiveWriteSlot` |
| `SharingAndDevices` | `SharedOnlyWithinGroup` and `TablesOnDevice` |
| `SwapsKeepSharing` | `SwapKeepsSharing`, a property of steps |

That counts match tables is preserved by copy on write and by swaps only if no table repeats a
block (`TablesDistinct`); that the append loop does not fail needs the free blocks counted against
the sequences left in the loop (`AppendFits`) and tables that lag the logical blocks by at most one
(`LengthsAgree`); that freeing does not fail needs the counts; that a free block belongs to nobody
needs the counts and the free list together. `IndInv` is their conjunction. `UsesAreOwners` (the
swap loops meet a block once per owner), `AllocateFits`, `MovedAreCounted` (the blocks a swap takes
are those `can_swap_*` counted), `FreesAreOwners`, `OwnersLeft` and `FreeMeansUnreferenced`
carry the counting, from the library's theorems on finite sets.

The assumption `BlockSlidingWindow = 0` is necessary: with a window tables repeat blocks, and the
code loses blocks when it frees one.

### The paged cache

`PagedKvCacheProofs`, under the same assumption and for any sizes of the kernels, with the two
kernels as they are or repaired:

| Theorem | Statement |
|---|---|
| `PagedDrivesManager` | `PagedSpec => Spec`: passes, batches and outputs call the block manager as its specification allows |
| `ManagerHoldsInCache` | so `IndInv` holds here too |
| `PagedInvariance` | `PagedInv` is an invariant |
| `TransfersNeverInterfere` | `TransfersDisjoint` |
| `BatchInvariance` | `BatchInv` is an invariant |
| `SplitsNeverEmpty` | `NoEmptySplit` |
| `BatchesExecute` | `ExecutionSucceeds`, given `KernelsFit` and a `copy_blocks` that reads its mapping as `u32` |

`PagedInv` adds three parts to `IndInv`:

- `Grouped`: the unfinished sequences of a group have one status, and the append loop is over all
  that run, so that a swap or a loop never takes a part of a group;
- `Pass`: which of the three maps may hold something in which loop;
- `Transfers`: while a pass goes on, a target of a swap in and a source of a copy are held by a
  sequence that keeps its table until the batch has run (`Pinned`: it is in the batch, in the append
  loop, or finished), a target of a swap out by a swapped sequence, and a target of a copy by the
  one sequence that will write to it. So none of them is free, and whatever the pass allocates next
  is no part of a pending transfer.

The hard step is the copy on write: the sequence gives up a block that may be the source of an
earlier copy or the target of a swap in. `OtherHolder` shows that a shared block has another holder,
that it is of the same group, and hence in the same append loop or finished.

That the worker accepts every batch rests on `BatchInv`:

- `Texts`: the text of an unfinished sequence is as long as its logical blocks say and no shorter
  than the shortest prompt, and no more of it is computed than there is;
- `Kinds`: a batch is all prompts or all decodings, by the loops it came from, and a prompt is the
  only scheduled sequence of its group (otherwise the pass has already failed with
  `InvalidPrefillSequences`);
- `Splits`: `num_splits` belongs to the batch whose outputs are being processed.

From these, `PromptRow` and `DecodeRow` say how many rows one sequence contributes to each tensor,
`TensorsFit` that the flattened tensors then agree in length, and `PromptBatch` and `DecodeBatch`
that no `bail!` of `forward` and of the kernels applies and that the padded tables are as wide as
the widest one. `FlatLists` shows that flattening loses and repeats no sequence for whatever order
the `HashMap`s have. The recursive functions behind `SumOf` and `FlattenSeq` are shown to exist
before anything is said of their values (`SumExists`, `FlatExists`).

`NoEmptySplit` is arithmetic after that: a number of splits `k` that makes the splits shorter than
`k - 1` would (`Eligible`) leaves none empty (`EligibleSplits`), and the heuristic chooses only
among those (`NumSplitsFit`), whatever the floats make of the efficiencies.

`KernelsFit` is what the kernels are built for: query heads a multiple of key heads, blocks a
multiple of the page size, and either prompts of two tokens or more, or no sharing of key heads.
The last part is needed: a batch of one prompt of one token takes the path `NgroupsSwapped` and
fails there. The instance of the run `kv_cache` satisfies it.

### The paged cache implements the abstract one

`PagedKvCacheRefinement`, for any number of blocks, sequences, groups and any block size:

| Theorem | Statement |
|---|---|
| `CacheInvariance` | `CacheInv` is an invariant |
| `CacheIsKept` | `PagedSpec => ImplementsKvCache` |
| `TextsReadBack` | `ReadsBack`, which `swap_loses_keys` refutes for `swap_blocks` as it is |
| `PagedTypes` | `PagedTypeOK` |

All four assume `Supported`: no sliding window, `KernelsFit`, both kernels repaired, and no more than
two sequences to a group. Each part is where the code stops keeping the promise. A window makes
tables repeat blocks. Without `KernelsFit` or with `copy_blocks` as it is, batches are refused. With
`swap_blocks` as it is, keys and values of a CPU block overwrite each other. And `blocks_to_copy`
has one target per source (`scheduler.rs:1702`): of three sequences that share a block, two copy it
in one pass and one of the copies is forgotten. The service builds groups of one sequence; the
instance of the run `kv_cache` has groups of two and satisfies `Supported`.

The worker carries out swaps and copies long after the tables have changed. So the invariant speaks
of where a block's content will come from: `Origin(b)` follows `b` back through the copies, the
swaps out and the swaps in, the reverse of the order of `cache_swap`. `CacheInv` is

- `AllStored`: each token a sequence has computed is in the slot its table names, looked up at the
  `Origin` of the block: its key with its position, its value with the text up to it. `Shape` says
  that the slot exists, `Covered` that the table reaches that far;
- `SingleSources`: the source of a pending copy has one holder left, so nobody will copy it again
  (this is where groups of two are needed);
- `LeftBehind`: what a pending swap reads is held only by sequences the pass does not swap any more;
- `PromptsAlone`: a prompt shares its blocks with nobody, so that writing it disturbs nobody;
- `Progress`: how much is computed, by where a sequence is: nothing while it waits, all but the last
  token before a decoding, everything after the batch. `Filled`: the last block holds a token;
- `Answers`: a pending answer is the whole text of its sequence.

The first half of the module shows that the steps of a pass keep it, which is a matter of `Origin`
and of `Transfers`: a swap or a copy on write names a new block and maps it to the old one, and
allocation takes blocks no pending transfer names. The second half follows a batch through the
model: which token of which sequence each row of the flattened tensors is, for whatever order the
`HashMap`s have; that `reshape_and_cache_flash` writes to no slot two sequences share; which places
the mask lets each row see, in prompts through `cu_seqlens` and in decodings through the padded block
tables and the splits; that the text a row makes of them is the text of its own sequence; and that
`sample` takes the last row of each.

A sequence can read what it has computed and no more (`Readable = Known`, from `AllStored`), so each
step maps to one of `KvCache`: `Prompt` to `Arrive`, `Recompute` to `Forget`, `ExecuteModel` to
`Compute`, `ProcessOutput` to `Process`, `ForkSequence` to `Branch`, `AbortOrFinish` to `End`,
`ResetManager` to `ForgetAll`, and every other step of a pass to stuttering.

### The scheduler

`SchedulerProofs`, for any finite set of requests, any prompts, capacities, limits and block size;
the last three theorems are about `SpecWithAborts`, the others about `Spec`.

| Theorem | Statement | Hypotheses |
|---|---|---|
| `SchedulerInvariant` | `Types` and `Filed` | |
| `SchedulerTypes` | `SchedulerTypeOK` | |
| `BudgetIsKept` | `WithinBudget` | |
| `SwapsOneWay` | `NeverSwapBothWays` | |
| `LatestPreemptedFirst` | `PreemptLatestFirst` | |
| `BlocksAddUp`, `PreemptionFreesBlocks`, `BatchIsBacked` | `BlocksConserved`, `PreemptedHoldNothing`, `BatchBacked` | `DistinctIds` |
| `NothingLostOrDuplicated` | `QueuesMatchStatus` | `~Chunked` |
| `PreemptedFirst`, `FirstComeFirstServed` | `PreemptedBeforeNew`, `AdmittedInArrivalOrder` | `~Chunked` |
| `OnlySwapOutFails` | the one error possible is `NotEnoughBlockSpaceForSwapOut` | `~Chunked`, `DistinctIds` |
| `ScheduleNeverFails` | `NoSchedulerError` | the same, and one candidate per request |
| `AbortsLoseNothing` | `QueuesMatchStatus` with aborts | `~Chunked`, `OneCandidate` |
| `AbortsKeepOrder` | `PreemptedBeforeNew`, `AdmittedInArrivalOrder` with aborts | `~Chunked`, `OneCandidate` |
| `AbortsKeepBlocks` | `BlocksConserved`, `PreemptedHoldNothing`, `BatchBacked`, `NoSchedulerError` with aborts | `~Chunked`, `OneCandidate`, `DistinctIds` |

The first two hypotheses are where the code stops keeping the promise. Without `DistinctIds` the violation
`shared_sequence_id` refutes `BlocksConserved`. With `Chunked` the policy drops a prompt at its
third chunk, and `can_schedule` reports a spent budget as an error. A request for several
candidates is preempted by swapping, which fails when the CPU has too few blocks.

The invariant has layers, each proved with the ones before it:

- `Types`: what every variable holds, the locals of a pass included;
- `Filed`: in the middle of a pass every request is in the one list, of the queues and the result
  lists, that its status names, no list repeats a request, and none holds a finished one. This is
  what makes `Commit` rebuild the queues without loss;
- `Tables`: the sum of all tables and the free blocks is the capacity; a waiting request holds
  nothing, a running one GPU blocks only, a swapped one CPU blocks only; what the pass has chosen is
  backed, and stays so although later iterations preempt others;
- `Paced`: what is left of the running queue arrived after everything the pass kept and before
  everything it preempted; swapping in starts only after a pass that preempted nothing;
- `Budget`: the counters of the budget are the sums over the lists of the pass, and
  `schedule_running`, which charges without asking, starts with room for all it can charge;
- `Flow`: under the default policy a request is either wholly uncomputed or computed up to its last
  token, so a whole prompt or one token is asked for, and none of the checks fires;
- `Arrival`: the waiting queue is the preempted requests, then the new ones by arrival; nothing that
  arrived after a request still waiting for its first run runs or has run; whoever runs and is not in
  the batch being built or computed has sampled a token.

With aborts the index arithmetic of `abort_sequence_group` is right as long as the swapped queue is
empty (`AbortEffect`), and it stays empty if every request asks for one candidate (`OneCandidate`,
from which `NoSwaps`); with swapped groups it loses them (see above). An abort may hit a member of
the batch in flight, which stays in the batch: so `Filed` allows an aborted member there, the blocks
of the batch are promised to the members that run, and `Served` keeps for the aborted ones what
`Arrival` says of those that run: nobody that arrived before them still waits for a first run.
Without it the order of arrival is not inductive.

### The engine

`LlmEngineProofs`, for the same constants and any set of streamed requests, with clients that leave
at any time and a model thread that may fail at any time:

| Theorem | Statement |
|---|---|
| `EngineInvariant` | `EngineInv`: `Types`, `Filed`, `Budget`, `Paced`, `NoAborts`, `EngineTypes`, `Where`, `Delivery` |
| `EngineDrivesScheduler` | every step is a step of the scheduler, or gives up the batch in flight (`Dropped`), or changes nothing of the scheduler |
| `EngineTypesHold` | `EngineTypeOK` |
| `OneBatchAtATime` | `NoPassWhileInFlight` |
| `FinishedGetAnswers` | `FinishedIsAnswered` |
| `AnswersAreFinal` | `AnsweredIsOver` |
| `SchedulerHoldsInEngine` | `WithinBudget`, `NeverSwapBothWays`, `PreemptLatestFirst` |
| `BlocksHoldInEngine` | `BlocksConserved`, `PreemptedHoldNothing`, `BatchBacked` (`DistinctIds`) |
| `QueuesHoldInEngine` | `QueuesMatchStatus` (`~Chunked`) |

`Where` relates the place of the engine task to the phase of the pass and to the batch in flight:
that a new request starts no pass while the model computes follows only from the last outputs being
non-empty. `Delivery` says what the engine owes: whoever is finished and waits is in the list being
sent, with a response channel. `NoAborts` records that the engine never calls
`abort_sequence_group`, so that every member of a batch runs.

The scheduler's invariants carry over because the lemmas of `SchedulerProofs` are about
`Next \/ Dropped`. `Flow` and `Arrival` do not: after a failed batch the running groups have blocks
but no sampled token, and the next `step` ends the engine (see the further disagreements).

### The model threads and the service

`ModelThreadsProofs` and `LlmServiceProofs`, for any number of ranks and collectives, requests and
tokenizer workers, any failure of any rank, clients that leave, and a shutdown at any time:

| Theorem | Statement |
|---|---|
| `ServiceInvariant` | `ServiceInv` is an invariant |
| `ServiceTypes` | `ServiceTypeOK` |
| `CollectivesAlwaysMatch` | `CollectivesMatch` |
| `RanksAlwaysKeepUp` | `RanksKeepUp` |
| `AnswersAreOwn` | `OwnAnswer` |
| `ShutdownDrains` | `NobodyCutOff` |
| `StreamsStayInOrder` | `StreamInOrder` |
| `LimitsHold` | `WithinTokenLimits` |

`ServiceInv` is the conjunction of

- `RanksInv`: the channel of a rank holds the consecutive numbers of the batches it has not seen,
  and its position in the forward pass is the position of all that are in the same batch;
- the types of server, service, engine and clients;
- `Lifecycle`: which tasks have ended given that others have;
- `Identities`: ids are distinct and below the counter;
- `Places`: where an open request can be: the inbox, the tokenizer, the engine's channel, active, or
  answered, and in one of them only;
- `Batches`, `Answers`: the batch in flight is of active requests, and an answer consists of the
  tokens of its request;
- `Limits`: whoever has tokens passed the validation and keeps to `MayHave`, what it was granted and
  the model's length; while it is active there is room for one more;
- `Streams`: received and queued messages together are the texts after each token, in order.

`LimitsHold` assumes nothing of the limits or the requests. The first token is granted to everybody
(`NewTokens`), because lengths are compared after it; that is where the exception `FillsTheLimit` of
the property comes from, and the `u32` sum of `validation.rs:138` is where `SumWraps` does.

### Only model-checked

Liveness, which the prover does not reach: `EveryRequestAnswered`, `EveryCompletionAnswered`,
`EveryStreamEnds` and `ProcessExits`. Every invariant and action property of the passing runs, and
the refinement, is stated by a theorem, under the hypotheses given above.

## Not modelled

- `LRUEvictor`: nothing constructs one.
- Mistral and Phi-3: the server loads Llama only. The attention bindings nobody calls: fixed length,
  windowed, ALiBi.
- The sliding window, prefix caching and chunked prefill in the worker: `prepare_input_tensors` is
  modelled as the default policy reaches it.
- The numbers: weights, logits, the draw of a token, log-probabilities.
- Data types, their serialisation, chat templates and schema validation; the routes `healthz` and
  `validate_completion_handler`, which keep no state; reading of configuration files and probing of
  memory (I/O).

Left out on purpose: metrics and tracing; access times and computed flags of blocks, which nothing
reads; `InvalidNumberWaitingSequence`, and in `Scheduler` `InvalidPrefillSequences`, which cannot
occur for groups of one sequence.
