---------------------------- MODULE ModelForward ----------------------------
(***************************************************************************)
(* One pass of the model over a batch: prepare_input_tensors flattens the  *)
(* sequences into one row per token, FlashAttentionMetadata cuts the rows  *)
(* into prompts and decodings, flash attention decides which keys a row    *)
(* sees, and sample hands the rows of logits back to the sequences.        *)
(*                                                                         *)
(* A batch is a sequence of groups [is_prompt, token_chunk_size, seqs], a  *)
(* sequence is [id, tokens, computed, table].  The numbers of a tensor are *)
(* left out.  A key stands for the first layer: it is the token and the    *)
(* position of its row.  A value stands for the layers above, which see    *)
(* what attention found below them: it is the text its row saw.  All       *)
(* layers share the rows, the slots and the masks.                         *)
(***************************************************************************)
EXTENDS Integers, Sequences, FiniteSets, SequencesExt, CacheConfig

CONSTANTS
    PageMultiple,  \* what the paged kernel wants BlockSize to be a multiple of
    NumHeads,      \* query heads of the model
    NumKvHeads,    \* key and value heads of the model
    KeyBlock,      \* block_n, the keys one thread block of the kernel handles
    NumSms         \* multiprocessors of the device, times two

Key(token, pos) == <<token, pos>>

(* An entry that is no key of any token and no text *)
Nothing == <<>>

SumOf(f, n) ==
    LET sum[k \in 0..n] == IF k = 0 THEN 0 ELSE sum[k - 1] + f[k]
    IN  sum[n]

(* The cumulative sums of l, from 0 *)
StartLocations(l) == [k \in 1..(Len(l) + 1) |-> SumOf(l, k - 1)]

MaxOf(S) == CHOOSE x \in S : \A y \in S : y <= x

CeilDiv(a, b) == (a + b - 1) \div b

-----------------------------------------------------------------------------
(* prepare_input_tensors *)

ContextLength(m, q) == IF m.is_prompt THEN q.computed ELSE Len(q.tokens) - 1

SequenceLength(m, q) ==
    LET end == ContextLength(m, q) + m.token_chunk_size
    IN  IF end < Len(q.tokens) THEN end ELSE Len(q.tokens)

QueryLength_WithContext(m, q) == SequenceLength(m, q)

QueryLength(m, q) ==
    IF m.is_prompt THEN SequenceLength(m, q) - ContextLength(m, q) ELSE 1

InputTokens(m, q) ==
    IF m.is_prompt THEN SubSeq(q.tokens, ContextLength(m, q) + 1, SequenceLength(m, q))
    ELSE <<q.tokens[Len(q.tokens)]>>

(* Positions count from 0 *)
InputPositions(m, q) ==
    [i \in 1..(SequenceLength(m, q) - ContextLength(m, q)) |-> ContextLength(m, q) + i - 1]

SlotOf_OffByOne(table, pos) ==
    LET i == ((pos + 1) \div BlockSize) + 1
    IN  <<table[IF i <= Len(table) THEN i ELSE Len(table)], pos % BlockSize>>

(* The slot of a position.  The code packs the block and the offset into one
   number and the kernel divides them again. *)
SlotOf(table, pos) == <<table[(pos \div BlockSize) + 1], pos % BlockSize>>

SlotMapping(m, q) ==
    [i \in DOMAIN InputPositions(m, q) |-> SlotOf(q.table, InputPositions(m, q)[i])]

(* Prompts get no table without chunked prefill *)
TableOf(m, q) == IF m.is_prompt THEN <<>> ELSE q.table

(* make_tensor_with_pad; the code pads with block 0, which must never be read *)
Padded(tables) ==
    LET width == MaxOf({Len(tables[k]) : k \in DOMAIN tables})
    IN  [k \in DOMAIN tables |->
            [i \in 1..width |-> IF i <= Len(tables[k]) THEN tables[k][i] ELSE "pad"]]

PrepareInputTensors(batch) ==
    LET flat == FlattenSeq([g \in DOMAIN batch |->
                    [k \in DOMAIN batch[g].seqs |-> <<batch[g], batch[g].seqs[k]>>]])
        n == Len(flat)
        each(Op(_, _)) == [k \in 1..n |-> Op(flat[k][1], flat[k][2])]
        query == each(QueryLength)
        prefill == [k \in 1..n |-> IF flat[k][1].is_prompt THEN query[k] ELSE 0]
    IN  [tokens             |-> FlattenSeq(each(InputTokens)),
         positions          |-> FlattenSeq(each(InputPositions)),
         slot_mapping       |-> FlattenSeq(each(SlotMapping)),
         sequence_lengths   |-> each(SequenceLength),
         query_start_loc    |-> StartLocations(query),
         seq_start_loc      |-> StartLocations(each(SequenceLength)),
         block_tables       |-> Padded(each(TableOf)),
         num_prefills       |-> Cardinality({k \in 1..n : flat[k][1].is_prompt}),
         num_prefill_tokens |-> SumOf(prefill, n),
         num_decode_tokens  |-> SumOf(query, n) - SumOf(prefill, n),
         max_prefill_seq_len |-> MaxOf({0} \cup
             {SequenceLength(flat[k][1], flat[k][2]) : k \in {j \in 1..n : flat[j][1].is_prompt}})]

(* FlashAttentionMetadata::new, without prefix caching: decodings get the
   tables of the whole batch *)
PrefillMetadata(in) ==
    [sequence_start_locations |-> SubSeq(in.seq_start_loc, 1, in.num_prefills + 1)]

DecodingMetadata(in) ==
    [block_tables     |-> in.block_tables,
     sequence_lengths |-> SubSeq(in.sequence_lengths, in.num_prefills + 1,
                                 Len(in.sequence_lengths))]

-----------------------------------------------------------------------------
(* The kernels *)

(* reshape_and_cache_flash on one half of the cache: row r leaves entries[r]
   at its slot *)
RowsAt(in, b, o) == {r \in DOMAIN in.slot_mapping : in.slot_mapping[r] = <<b, o>>}

(* What its checks refuse *)
CacheWriteFails(in) == Len(in.slot_mapping) # Len(in.tokens)

ReshapeAndCacheFlash(half, in, entries) ==
    [b \in DOMAIN half |-> [o \in DOMAIN half[b] |->
        IF RowsAt(in, b, o) = {} THEN half[b][o]
        ELSE entries[CHOOSE r \in RowsAt(in, b, o) : TRUE]]]

(* window_size_left and window_size_right of a prefill as the kernel gets them;
   -1 is open *)
Windows(causal, max_seqlen_k) ==
    IF causal THEN [left |-> max_seqlen_k, right |-> 0] ELSE [left |-> -1, right |-> -1]

(* Those of a decoding, which is always causal: a window as wide as the keys is
   open *)
DecodeWindows(seqlen_k) ==
    IF 0 >= seqlen_k THEN [left |-> -1, right |-> -1] ELSE [left |-> seqlen_k, right |-> 0]

(* apply_mask: row sees column col, of seqlen_q rows and seqlen_k columns *)
Visible(w, row, col, seqlen_q, seqlen_k) ==
    /\ w.right < 0 \/ col < row + 1 + seqlen_k - seqlen_q + w.right
    /\ w.left < 0 \/ col >= row + seqlen_k - seqlen_q - w.left

(* The causal argument of the prefill *)
Causal_Never(in) == FALSE

Causal(in) == Len(in.tokens) > 1

(* flash_attn_varlen: a row of a prompt sees rows of the same prompt *)
FlashAttnVarlen(in) ==
    LET start == PrefillMetadata(in).sequence_start_locations
        w == Windows(Causal(in), in.max_prefill_seq_len)
        len(b) == start[b + 1] - start[b]
    IN  FlattenSeq([b \in 1..(Len(start) - 1) |-> [row \in 1..len(b) |->
            {<<"row", start[b] + col + 1>> :
                col \in {c \in 0..(len(b) - 1) : Visible(w, row - 1, c, len(b), len(b))}}]])

(* flash_attn_kv_cache_full: a decoding sees the cache through its table *)
FlashAttnKvCache(in) ==
    LET meta == DecodingMetadata(in)
        w == DecodeWindows(Len(meta.block_tables[1]) * BlockSize)
    IN  [b \in DOMAIN meta.sequence_lengths |->
            {<<"slot", SlotOf(meta.block_tables[b], pos)>> :
                pos \in {p \in 0..(meta.sequence_lengths[b] - 1) :
                            Visible(w, 0, p, 1, meta.sequence_lengths[b])}}]

(* A batch of one prompt of one token takes the path that folds query heads
   into rows, and fails there *)
NgroupsSwapped(in) ==
    /\ in.max_prefill_seq_len = 1
    /\ ~Causal(in)
    /\ NumHeads > NumKvHeads

(* What the bails of forward and of the two kernels refuse *)
PrefillFails(in) ==
    \/ Len(PrefillMetadata(in).sequence_start_locations) < 2
    \/ NumHeads % NumKvHeads # 0
    \/ NgroupsSwapped(in)

DecodeFails(in) ==
    LET meta == DecodingMetadata(in)
    IN  \/ Len(meta.block_tables) # in.num_decode_tokens
        \/ Len(meta.sequence_lengths) # in.num_decode_tokens
        \/ BlockSize % PageMultiple # 0

(* apply_rotary_embed wants a position for every row *)
RotaryFails(in) == Len(in.positions) # Len(in.tokens)

ForwardFails(in) ==
    \/ RotaryFails(in)
    \/ CacheWriteFails(in)
    \/ Len(in.tokens) # in.num_prefill_tokens + in.num_decode_tokens
    \/ in.num_prefill_tokens > 0 /\ PrefillFails(in)
    \/ in.num_decode_tokens > 0 /\ DecodeFails(in)

(* FlashAttention::forward: what the rows of the prompts, then of the decodings,
   see *)
Attention(in) ==
    (IF in.num_prefill_tokens > 0 THEN FlashAttnVarlen(in) ELSE <<>>)
    \o (IF in.num_decode_tokens > 0 THEN FlashAttnKvCache(in) ELSE <<>>)

(* The entry at a place a row sees *)
EntryAt(half, entries, place) ==
    IF place[1] = "row" THEN entries[place[2]]
    ELSE IF place[2][1] \in DOMAIN half THEN half[place[2][1]][place[2][2]]
    ELSE Nothing

-----------------------------------------------------------------------------
(* num_splits_heuristic, with rationals for its floats: the smallest number of
   splits whose share of full waves is 85% of the best *)

Eligible_Any(n_blocks, k) == TRUE

(* One more split makes every split shorter *)
Eligible(n_blocks, k) == k = 1 \/ CeilDiv(n_blocks, k) # CeilDiv(n_blocks, k - 1)

NumSplits(work, n_blocks) ==
    LET max_splits == CHOOSE x \in {128, NumSms, n_blocks} :
                        \A y \in {128, NumSms, n_blocks} : x <= y
        waves(k) == CeilDiv(work * k, NumSms)
        tried == {k \in 1..max_splits : Eligible(n_blocks, k)}
        \* efficiency is work * k / (NumSms * waves(k))
        good(k) == \A j \in tried : 100 * k * waves(j) >= 85 * j * waves(k)
    IN  IF 10 * work >= 8 * NumSms \/ ~(\E k \in tried : good(k)) THEN 1
        ELSE CHOOSE k \in tried : good(k) /\ \A j \in tried : good(j) => k <= j

(* compute_num_splits, for a batch of decodings *)
ComputeNumSplits(in) ==
    IF in.num_decode_tokens = 0 THEN 0
    ELSE NumSplits(in.num_decode_tokens * NumHeads,
                   CeilDiv(Len(in.block_tables[1]) * BlockSize, KeyBlock))

-----------------------------------------------------------------------------
(* From rows to sequences *)

(* The text with these keys, Nothing when there is none *)
TextOf(keys) ==
    LET n == Cardinality(keys)
        at(i) == {e \in keys : Len(e) = 2 /\ e[2] = i - 1}
    IN  IF \A i \in 1..n : at(i) # {} THEN [i \in 1..n |-> (CHOOSE e \in at(i) : TRUE)[1]]
        ELSE Nothing

(* compute_selected_token_indices, from 0 *)
SelectedTokenIndices_First(in) ==
    [k \in 1..(Len(in.query_start_loc) - 1) |-> in.query_start_loc[k]]

SelectedTokenIndices(in) ==
    [k \in 1..(Len(in.query_start_loc) - 1) |-> in.query_start_loc[k + 1] - 1]

(* The keys of the first layer: rotary embeddings put the position in *)
InputKeys(in) == [r \in DOMAIN in.tokens |-> Key(in.tokens[r], in.positions[r])]

(* CausalSelfAttention::forward of the first layer: the text each row saw *)
FirstLayer(keys, in, places) ==
    [r \in DOMAIN places |-> TextOf({EntryAt(keys, InputKeys(in), p) : p \in places[r]})]

(* Block::forward of the layers above: a row carries the text it saw on if
   every row it saw carries the text up to there *)
LayersAbove(values, hidden, places) ==
    [r \in DOMAIN places |->
        IF {EntryAt(values, hidden, p) : p \in places[r]}
                = {SubSeq(hidden[r], 1, i) : i \in 1..Len(hidden[r])}
        THEN hidden[r] ELSE Nothing]

(* Llama::forward.  Every layer writes its keys and values and then attends, so
   the values, of the layers above, follow from the keys.  The logits of a
   selected row are the text it carries. *)
Forward(mem, in) ==
    LET places == Attention(in)
        keys == ReshapeAndCacheFlash(mem.key, in, InputKeys(in))
        hidden == FirstLayer(keys, in, places)
        values == ReshapeAndCacheFlash(mem.value, in, hidden)
        out == LayersAbove(values, hidden, places)
        selected == SelectedTokenIndices(in)
    IN  [logits |-> [k \in DOMAIN selected |-> out[selected[k] + 1]],
         cache  |-> [key |-> keys, value |-> values]]

NumSequences(batch) == SumOf([g \in DOMAIN batch |-> Len(batch[g].seqs)], Len(batch))

(* logits_idx, which runs through all groups, when sample is at sequence k of
   group g *)
LogitsIdx_PerGroup(batch, g, k) == k

LogitsIdx(batch, g, k) == SumOf([h \in DOMAIN batch |-> Len(batch[h].seqs)], g - 1) + k

InvalidLogits(batch, logits) == Len(logits) # NumSequences(batch)

(* sample: the logits each sequence's token is drawn from *)
Sample(batch, logits) ==
    LET places == {p \in (DOMAIN batch) \X (1..NumSequences(batch)) :
                        p[2] \in DOMAIN batch[p[1]].seqs}
    IN  [id \in {batch[p[1]].seqs[p[2]].id : p \in places} |->
            LET p == CHOOSE p \in places : batch[p[1]].seqs[p[2]].id = id
            IN  logits[LogitsIdx(batch, p[1], p[2])]]

=============================================================================
