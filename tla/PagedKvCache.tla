---------------------------- MODULE PagedKvCache ----------------------------
(***************************************************************************)
(* The block manager together with the worker that owns the memory:        *)
(* `ModelWorker::execute_model`, the `CacheEngine` and the block copies of *)
(* csrc.  The scheduler decides swaps and copies while it builds a batch;  *)
(* the worker carries them out later, in an order of its own, and then     *)
(* runs the model of ModelForward over the batch.                          *)
(*                                                                         *)
(* The cache keeps keys and values in two halves of one tensor per device. *)
(* Two of its operations differ from what their documentation says; an     *)
(* instance with Repaired = {} is the code as it is, one that names them   *)
(* in Repaired checks everything else.                                     *)
(***************************************************************************)
EXTENDS BlockSpaceManager, ModelForward

CONSTANTS
    MinPromptTokens,  \* the shortest prompt the tokenizer makes
    Repaired          \* "copy_mapping": copy_blocks reads its mapping as u32;
                      \* "cpu_offset": swap_blocks honours the offset of a CPU tensor

ASSUME WorkerAssumption ==
    /\ {PageMultiple, NumHeads, NumKvHeads, KeyBlock, NumSms, MinPromptTokens} \subseteq Nat \ {0}
    /\ Repaired \subseteq {"copy_mapping", "cpu_offset"}

VARIABLES
    text,                          \* the tokens of each sequence
    computed,                      \* num_computed_tokens
    cache,                         \* gpu_cache and cpu_cache
    blocks_to_swap_in,
    blocks_to_swap_out,
    blocks_to_copy,                \* the three maps of the batch, as functions
    loop,                          \* the loop of the scheduling pass, "none" outside
    preempted,                     \* the pass preempted a group
    executed,                      \* the batch ran, its outputs are being processed
    answer,                        \* the text each output was computed from
    num_splits,                    \* of a batch of decodings that has just run, else 0
    worker_err                     \* the error that ended the pass

worker_vars == <<text, computed, cache, blocks_to_swap_in, blocks_to_swap_out,
                 blocks_to_copy, loop, preempted, executed, answer, num_splits, worker_err>>

allVars == <<vars, worker_vars>>

results == <<answer, num_splits>>

(* The longest text the logical blocks hold *)
MaxTokens == MaxLogicalBlocks * BlockSize

Length(s) == (logical[s] - 1) * BlockSize + last_fill[s]

Empty == [b \in {} |-> b]

(* HashMap::insert of every pair of g *)
Insert(f, g) ==
    [b \in DOMAIN f \cup DOMAIN g |-> IF b \in DOMAIN g THEN g[b] ELSE f[b]]

NoAnswer == [s \in SeqIds |-> Nothing]

(* allocate_blocks: zeros *)
Zeros == [o \in 0..(BlockSize - 1) |-> Nothing]

PagedInit ==
    /\ Init
    /\ text = [s \in SeqIds |-> <<>>]
    /\ computed = [s \in SeqIds |-> 0]
    /\ cache = [half \in {"key", "value"} |-> [b \in Blocks |-> Zeros]]
    /\ blocks_to_swap_in = Empty
    /\ blocks_to_swap_out = Empty
    /\ blocks_to_copy = Empty
    /\ loop = "none"
    /\ preempted = FALSE
    /\ executed = FALSE
    /\ answer = NoAnswer
    /\ num_splits = 0
    /\ worker_err = "none"

-----------------------------------------------------------------------------
(* The memory *)

(* The half of its tensor a swap reads for a half of a source: the offset at
   which the values of a CPU tensor start is ignored, so it finds the keys *)
SourceHalf(half, a) ==
    IF a \in CpuBlocks /\ "cpu_offset" \notin Repaired THEN "key" ELSE half

(* The half it writes for a half of a target, with the same omission *)
TargetHalf(half, b) ==
    IF b \in CpuBlocks /\ "cpu_offset" \notin Repaired THEN "key" ELSE half

(* swap_blocks on one half: every block of m is copied to its target *)
SwapHalf(mem, m, half) ==
    [h \in {"key", "value"} |-> [b \in Blocks |->
        IF h = TargetHalf(half, b) /\ \E a \in DOMAIN m : m[a] = b
        THEN LET a == CHOOSE a \in DOMAIN m : m[a] = b IN mem[SourceHalf(half, a)][a]
        ELSE mem[h][b]]]

(* FlashAttention::swap_blocks: the keys, then the values *)
SwapBlocks(mem, m) == SwapHalf(SwapHalf(mem, m, "key"), m, "value")

(* copy_blocks: keys and values of every pair, within the GPU *)
CopyBlocks(mem, m) ==
    [h \in {"key", "value"} |-> [b \in Blocks |->
        IF \E a \in DOMAIN m : m[a] = b
        THEN LET a == CHOOSE a \in DOMAIN m : m[a] = b IN mem[h][a]
        ELSE mem[h][b]]]

CacheSwap_CopyFirst(mem) ==
    SwapBlocks(SwapBlocks(CopyBlocks(mem, blocks_to_copy), blocks_to_swap_in), blocks_to_swap_out)

(* cache_swap: blocks come in, then go out, then are copied *)
CacheSwap(mem) ==
    CopyBlocks(SwapBlocks(SwapBlocks(mem, blocks_to_swap_in), blocks_to_swap_out), blocks_to_copy)

(* What a free block still holds when no copy is pending is left out of the
   state: nothing may read it before it is written again, and a read of it is
   wrong for every text. *)
Relevant(mem, free) ==
    [half \in {"key", "value"} |-> [b \in Blocks |-> IF b \in free THEN Zeros ELSE mem[half][b]]]

-----------------------------------------------------------------------------
(* Building a batch.  The default policy prefills, or else goes through the
   running groups and, if it preempted none, the swapped ones. *)

Building == worker_err = "none" /\ ~executed

Between == Building /\ loop = "none"

EnterLoop_Ungated(l) ==
    /\ Building
    /\ loop' = l

EnterLoop(l) ==
    /\ Building
    /\ loop \in CASE l = "running"  -> {"none", "running"}
                  [] l = "swapped"  -> {"none", "running", "swapped"}
                  [] l = "prefills" -> {"none", "prefills"}
    /\ l = "swapped" => ~preempted
    /\ loop' = l

WorkerUnchanged ==
    UNCHANGED <<text, computed, cache, blocks_to_swap_in, blocks_to_swap_out,
                blocks_to_copy, preempted, executed, results, worker_err>>

Prompt(g) ==
    /\ Between
    /\ NewGroup(g)
    /\ \E s \in Members(g) : {s} = {q \in Members(g) : status'[q] # status[q]}
    /\ \A s \in Members(g) : status'[s] # status[s] => Length(s)' >= MinPromptTokens
    /\ text' = [s \in SeqIds |->
            IF status[s] # status'[s] THEN [i \in 1..Length(s)' |-> g] ELSE text[s]]
    /\ UNCHANGED <<computed, cache, blocks_to_swap_in, blocks_to_swap_out,
                   blocks_to_copy, loop, preempted, executed, results, worker_err>>

(* A prefill of a group with more than one sequence, finished ones counted, is
   refused once the metadata of the batch is built *)
Prefill(g) ==
    /\ EnterLoop("prefills")
    /\ Allocate(g)
    /\ worker_err' = IF Cardinality({s \in Members(g) : status[s] # "Unborn"}) = 1
                      THEN "none" ELSE "InvalidPrefillSequences"
    /\ UNCHANGED <<text, computed, cache, blocks_to_swap_in, blocks_to_swap_out,
                   blocks_to_copy, preempted, executed, results>>

(* Every running sequence of g got a token from its last output: one that
   reached the bound of its text finishes before the next pass *)
Extended(g) == \A s \in WithStatus(g, "Running") : computed[s] < Length(s)

Continue(g) ==
    /\ EnterLoop("running")
    /\ Extended(g)
    /\ StartAppend(g)
    /\ WorkerUnchanged

(* append_slots for one sequence: a copy on write is added to the map, under
   the block it copies *)
CopyMap_Dropped(s) == blocks_to_copy

CopyMap(s) ==
    LET n == Len(block_tables[s])
    IN  IF Len(block_tables'[s]) = n /\ n > 0 /\ block_tables'[s][n] # block_tables[s][n]
        THEN Insert(blocks_to_copy, [b \in {block_tables[s][n]} |-> block_tables'[s][n]])
        ELSE blocks_to_copy

AppendOne(s) ==
    /\ Building
    /\ AppendSlots(s)
    /\ blocks_to_copy' = CopyMap(s)
    /\ UNCHANGED <<text, computed, cache, blocks_to_swap_in, blocks_to_swap_out,
                   loop, preempted, executed, results, worker_err>>

SwapMap_Reversed(S) ==
    [b \in UNION {Range(block_tables'[s]) : s \in S} |->
        LET x == CHOOSE x \in S \X (1..MaxLogicalBlocks) :
                    x[2] \in DOMAIN block_tables[x[1]] /\ block_tables'[x[1]][x[2]] = b
        IN  block_tables[x[1]][x[2]]]

(* The map a swap of the sequences of S built, from old blocks to new ones *)
SwapMap(S) ==
    [b \in HeldBy(S) |->
        LET x == CHOOSE x \in S \X (1..MaxLogicalBlocks) :
                    x[2] \in DOMAIN block_tables[x[1]] /\ block_tables[x[1]][x[2]] = b
        IN  block_tables'[x[1]][x[2]]]

PreemptBySwap(g) ==
    /\ EnterLoop("running")
    /\ Extended(g)
    /\ SwapOut(g)
    /\ blocks_to_swap_out' = Insert(blocks_to_swap_out, SwapMap(WithStatus(g, "Running")))
    /\ preempted' = TRUE
    /\ UNCHANGED <<text, computed, cache, blocks_to_swap_in, blocks_to_copy,
                   executed, results, worker_err>>

Recompute(s) ==
    /\ EnterLoop("running")
    /\ Extended(GroupOf[s])
    /\ PreemptByRecompute(s)
    /\ computed' = [computed EXCEPT ![s] = 0]
    /\ preempted' = TRUE
    /\ UNCHANGED <<text, cache, blocks_to_swap_in, blocks_to_swap_out,
                   blocks_to_copy, executed, results, worker_err>>

Resume(g) ==
    /\ EnterLoop("swapped")
    /\ SwapIn(g)
    /\ blocks_to_swap_in' = Insert(blocks_to_swap_in, SwapMap(WithStatus(g, "Swapped")))
    /\ UNCHANGED <<text, computed, cache, blocks_to_swap_out, blocks_to_copy,
                   preempted, executed, results, worker_err>>

-----------------------------------------------------------------------------
(* execute_model.  `loop` is "none" again once the batch was sent. *)

Scheduled(g) == {s \in Members(g) : slot[s] # "none"}

Orders(S) == Injection(1..Cardinality(S), S)

(* SequenceGroupMetadata of g; `order` is the order of its HashMap *)
Metadata(g, order) ==
    LET is_prompt == \E s \in Scheduled(g) : slot[s] = "prefill"
    IN  [is_prompt        |-> is_prompt,
         token_chunk_size |-> IF is_prompt THEN Length(order[1]) - computed[order[1]] ELSE 1,
         seqs             |-> [k \in DOMAIN order |->
             [id |-> order[k], tokens |-> text[order[k]], computed |-> computed[order[k]],
              table |-> block_tables[order[k]]]]]

(* The batches the pass may have built *)
Batches ==
    LET G == {g \in Groups : Scheduled(g) # {}}
    IN  {[i \in DOMAIN gs |-> Metadata(gs[i], order[gs[i]])] :
            gs \in Orders(G),
            order \in {f \in [G -> UNION {Orders(Scheduled(g)) : g \in G}] :
                          \A g \in G : f[g] \in Orders(Scheduled(g))}}

CopyFails == blocks_to_copy # Empty /\ "copy_mapping" \notin Repaired

(* The model thread ends with the error. *)
Stop(e, mem) ==
    /\ worker_err' = e
    /\ cache' = mem
    /\ UNCHANGED <<computed, blocks_to_swap_in, blocks_to_swap_out,
                   blocks_to_copy, loop, preempted, executed, results>>

Completed(mem, outputs, splits) ==
    /\ cache' = Relevant(mem, free_blocks)
    /\ answer' = [s \in SeqIds |-> IF s \in DOMAIN outputs THEN outputs[s] ELSE answer[s]]
    /\ num_splits' = splits
    /\ computed' = [s \in SeqIds |-> IF s \in DOMAIN outputs THEN Length(s) ELSE computed[s]]
    /\ blocks_to_swap_in' = Empty
    /\ blocks_to_swap_out' = Empty
    /\ blocks_to_copy' = Empty
    /\ loop' = "none"
    /\ preempted' = FALSE
    /\ executed' = (outputs # Empty)
    /\ UNCHANGED worker_err

RunModel(batch, mem) ==
    LET in == PrepareInputTensors(batch)
        pass == Forward(mem, in)
    IN  IF ForwardFails(in) THEN Stop("CandleError", mem)
        ELSE IF InvalidLogits(batch, pass.logits) THEN Stop("InvalidLogits", pass.cache)
        ELSE Completed(pass.cache, Sample(batch, pass.logits), ComputeNumSplits(in))

ExecuteModel ==
    /\ Building /\ Idle
    /\ loop # "none"
    /\ IF CopyFails
       THEN Stop("UnexpectedDType",
                 SwapBlocks(SwapBlocks(cache, blocks_to_swap_in), blocks_to_swap_out))
       ELSE IF \A s \in SeqIds : slot[s] = "none" THEN Completed(CacheSwap(cache), Empty, 0)
       ELSE \E batch \in Batches : RunModel(batch, CacheSwap(cache))
    /\ UNCHANGED <<vars, text>>

(* The outputs of one sequence are processed: a token is added unless the text
   has reached its bound. *)
ProcessOutput(s) ==
    /\ executed
    /\ AddTokenId(s)
    /\ Length(s)' = Length(s) + (IF Length(s) < MaxTokens THEN 1 ELSE 0)
    /\ text' = IF Length(s)' = Length(s) THEN text ELSE [text EXCEPT ![s] = Append(@, s)]
    /\ answer' = [answer EXCEPT ![s] = Nothing]
    /\ executed' = (\E q \in SeqIds : slot'[q] # "none")
    /\ num_splits' = 0
    /\ UNCHANGED <<computed, cache, blocks_to_swap_in, blocks_to_swap_out,
                   blocks_to_copy, loop, preempted, worker_err>>

-----------------------------------------------------------------------------
(* Between batches.  The text of a sequence that ended is not looked at again. *)

ForkSequence(p, c) ==
    /\ Between
    /\ Fork(p, c)
    /\ text' = [text EXCEPT ![c] = text[p]]
    /\ computed' = [computed EXCEPT ![c] = computed[p]]
    /\ UNCHANGED <<cache, blocks_to_swap_in, blocks_to_swap_out, blocks_to_copy,
                   loop, preempted, executed, results, worker_err>>

AbortOrFinish(s) ==
    /\ Between
    /\ Abort(s) \/ Finish(s)
    /\ text' = [text EXCEPT ![s] = <<>>]
    /\ computed' = [computed EXCEPT ![s] = 0]
    /\ cache' = Relevant(cache, free_blocks')
    /\ UNCHANGED <<blocks_to_swap_in, blocks_to_swap_out, blocks_to_copy,
                   loop, preempted, executed, results, worker_err>>

ResetManager ==
    /\ Between
    /\ Reset
    /\ text' = [s \in SeqIds |-> <<>>]
    /\ computed' = [s \in SeqIds |-> 0]
    /\ cache' = Relevant(cache, free_blocks')
    /\ UNCHANGED <<blocks_to_swap_in, blocks_to_swap_out, blocks_to_copy,
                   loop, preempted, executed, results, worker_err>>

PagedNext ==
    \/ \E g \in Groups : Prompt(g) \/ Prefill(g) \/ Continue(g) \/ PreemptBySwap(g) \/ Resume(g)
    \/ \E s \in SeqIds : AppendOne(s) \/ Recompute(s) \/ ProcessOutput(s) \/ AbortOrFinish(s)
    \/ \E p, c \in SeqIds : ForkSequence(p, c)
    \/ ExecuteModel
    \/ ResetManager

PagedSpec == PagedInit /\ [][PagedNext]_allVars

-----------------------------------------------------------------------------
(* Properties *)

(* Every variable of the worker has its type. *)
PagedTypeOK ==
    /\ computed \in [SeqIds -> Nat]
    /\ \A s \in SeqIds : Len(text[s]) = (IF status[s] \in {"Unborn", "Finished"} THEN 0 ELSE Length(s))
    /\ \A s \in SeqIds : computed[s] <= Len(text[s])
    /\ DOMAIN blocks_to_swap_in \subseteq CpuBlocks /\ Range(blocks_to_swap_in) \subseteq GpuBlocks
    /\ DOMAIN blocks_to_swap_out \subseteq GpuBlocks /\ Range(blocks_to_swap_out) \subseteq CpuBlocks
    /\ DOMAIN blocks_to_copy \subseteq GpuBlocks /\ Range(blocks_to_copy) \subseteq GpuBlocks
    /\ loop \in {"none", "running", "swapped", "prefills"}
    /\ preempted \in BOOLEAN /\ executed \in BOOLEAN
    /\ answer \in [SeqIds -> Seq(SeqIds \cup Groups)]
    /\ worker_err \in {"none", "UnexpectedDType", "CandleError", "InvalidLogits",
                       "InvalidPrefillSequences"}

(* The memory as the worker will have left it before the forward pass *)
Memory == CacheSwap(cache)

(* The tokens attention reads back for each sequence through its block table *)
Readable ==
    LET memory == Memory
        at(half, s, i) == LET sl == SlotOf(block_tables[s], i - 1) IN memory[half][sl[1]][sl[2]]
    IN  [s \in SeqIds |->
            IF block_tables[s] = <<>> THEN <<>>
            ELSE [i \in 1..computed[s] |->
                IF /\ at("key", s, i) = Key(text[s][i], i - 1)
                   /\ at("value", s, i) = SubSeq(text[s], 1, i)
                THEN text[s][i] ELSE Nothing]]

(* The paged cache implements KvCache: through every mix of allocation,
   preemption, swapping, copy on write and fork, and with the copies done
   later and in the worker's order, every sequence reads back exactly the keys
   and values of its own tokens; and although execute_model flattens all
   sequences into one tensor, each output is computed from the whole text of
   its own sequence and of nothing else. *)
Contents == INSTANCE KvCache WITH known <- Readable

ImplementsKvCache == Contents!Spec

(* swap_blocks: "Swaps blocks from `src` to `dst` tensors": the keys and the
   values a sequence had computed are still its own after it was swapped out
   and in again. *)
ReadsBack ==
    \A s \in SeqIds : status[s] = "Running" => Readable[s] = SubSeq(text[s], 1, computed[s])

(* blocks_to_swap_in, blocks_to_swap_out and blocks_to_copy hold no block
   twice as a target, and a pass that swaps in has swapped nothing out, so the
   order of the copies within one map does not matter. *)
TransfersDisjoint ==
    /\ IsInjective(blocks_to_swap_in) /\ IsInjective(blocks_to_swap_out)
    /\ IsInjective(blocks_to_copy)
    /\ Range(blocks_to_copy) \cap DOMAIN blocks_to_copy = {}
    /\ blocks_to_swap_in = Empty \/ blocks_to_swap_out = Empty

(* No batch of the default policy is refused by the checks of copy_blocks,
   forward, the attention kernels or sample: shapes, tables and lengths of the
   flattened tensors fit together whatever mix of sequences is scheduled. *)
ExecutionSucceeds == worker_err \notin {"UnexpectedDType", "CandleError", "InvalidLogits"}

(* num_splits_heuristic: no split of the keys of the longest sequence is left
   without a block of keys. *)
NoEmptySplit ==
    num_splits > 0 =>
        LET n == CeilDiv(MaxOf({Len(block_tables[s]) : s \in {q \in SeqIds : slot[q] # "none"}})
                            * BlockSize, KeyBlock)
        IN  (num_splits - 1) * CeilDiv(n, num_splits) < n

=============================================================================
