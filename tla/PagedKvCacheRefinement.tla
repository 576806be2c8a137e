----------------------- MODULE PagedKvCacheRefinement -----------------------
(***************************************************************************)
(* Proof that PagedKvCache implements KvCache.  The inductive invariant is *)
(* CacheInv: the i-th token of every sequence is stored, key and value,    *)
(* where the sequence will look for it once the pending swaps and copies   *)
(* are done (AllStored); the rest of it says why no step of a pass, of the *)
(* worker or between batches can lose a token on the way.                  *)
(*                                                                         *)
(* The steps of a pass move tables and add to the maps; that is the first  *)
(* half.  The second follows a batch through the model: which token each   *)
(* row of the flattened tensors is, what the cache holds after it, which   *)
(* places each row sees and what text it makes of them.                    *)
(***************************************************************************)
EXTENDS PagedKvCacheProofs

-----------------------------------------------------------------------------
(* What the cache holds, and for whom *)

(* The block a pending map fills b from *)
SourceIn(m, b) == IF b \in Range(m) THEN CHOOSE a \in DOMAIN m : m[a] = b ELSE b

(* The block b's content comes from once all three maps are carried out, in the
   order of cache_swap *)
Origin(b) == SourceIn(blocks_to_swap_in, SourceIn(blocks_to_swap_out, SourceIn(blocks_to_copy, b)))

(* Where the i-th token of s is kept: its block and its place there *)
BlockAt(s, i) == SlotOf(block_tables[s], i - 1)[1]

(* The slot number within its block *)
OffsetOf(i) == (i - 1) % BlockSize

(* The i-th token of s is in the cache, or on its way to where s looks for it. *)
Stored(s, i) ==
    /\ cache["key"][Origin(BlockAt(s, i))][OffsetOf(i)] = Key(text[s][i], i - 1)
    /\ cache["value"][Origin(BlockAt(s, i))][OffsetOf(i)] = SubSeq(text[s], 1, i)

(* AllStored: what a sequence has computed is stored.  The other parts of CacheInv
   are there to keep this one. *)
AllStored == \A s \in SeqIds : \A i \in 1..computed[s] : Stored(s, i)

(* A cell for every slot of every block, of keys and of values *)
Shape == \A h \in {"key", "value"} : \A b \in Blocks : DOMAIN cache[h][b] = 0..(BlockSize - 1)

(* A block that copy on write reads is left to one holder: the map has one target
   per source, and no second copy will want the place. *)
SingleSources == \A b \in DOMAIN blocks_to_copy : ref_count[b] = 1

(* A block that a swap reads is not held by a sequence the pass may still swap. *)
LeftBehind ==
    \A b \in (DOMAIN blocks_to_swap_in) \cup (DOMAIN blocks_to_swap_out) :
        \A s \in SeqIds : b \in Range(block_tables[s]) => Pinned(s)

(* A prompt shares blocks with nobody. *)
PromptsAlone ==
    worker_err = "none" =>
        \A s, t \in SeqIds : slot[s] = "prefill" /\ GroupOf[t] = GroupOf[s] /\ t # s => block_tables[t] = <<>>

(* How much of its text a sequence has computed, by where it is: nothing while it
   waits, all but the last token when it is about to decode, all of it once its
   output is there. *)
ProgressOf(s) ==
    /\ status[s] = "Waiting" => computed[s] = 0
    /\ status[s] = "Swapped" => computed[s] + 1 = Length(s)
    /\ s \in appending => computed[s] + 1 = Length(s)
    /\ ~executed /\ slot[s] = "prefill" => computed[s] = 0
    /\ ~executed /\ slot[s] = "decode" => computed[s] + 1 = Length(s)
    /\ executed /\ slot[s] # "none" => computed[s] = Length(s)
    /\ status[s] = "Running" /\ slot[s] = "none" => computed[s] + 1 >= Length(s)

(* The same for all of them *)
Progress == \A s \in SeqIds : ProgressOf(s)

(* The pending answers are the whole texts of the sequences they are for. *)
Answers == answer = [s \in SeqIds |-> IF executed /\ slot[s] # "none" THEN text[s] ELSE Nothing]

(* The deployments the refinement is about: no sliding window, the kernels fit
   the model, copy_blocks and swap_blocks repaired, and no more than two
   sequences to a group. *)
Supported ==
    /\ BlockSlidingWindow = 0
    /\ KernelsFit
    /\ {"copy_mapping", "cpu_offset"} \subseteq Repaired
    /\ \A r, s, t \in SeqIds : GroupOf[r] = GroupOf[s] /\ GroupOf[s] = GroupOf[t]
                                 => r = s \/ s = t \/ r = t

(* In a map without repeated targets the source is the one that was inserted. *)
LEMMA SourceIs ==
    ASSUME NEW m, IsInjective(m)
    PROVE  /\ \A a \in DOMAIN m : SourceIn(m, m[a]) = a
           /\ \A b : b \notin Range(m) => SourceIn(m, b) = b
<1>1. ASSUME NEW a \in DOMAIN m PROVE SourceIn(m, m[a]) = a
  <2>1. m[a] \in Range(m)
    BY DEF Range
  <2>2. \A c \in DOMAIN m : m[c] = m[a] => c = a
    BY DEF IsInjective
  <2> QED BY <2>1, <2>2 DEF SourceIn
<1>2. \A b : b \notin Range(m) => SourceIn(m, b) = b
  BY DEF SourceIn
<1> QED BY <1>1, <1>2

(* A source of a block is a block. *)
LEMMA SourceBlock ==
    ASSUME NEW m, DOMAIN m \subseteq Blocks, NEW b \in Blocks
    PROVE  SourceIn(m, b) \in Blocks
BY DEF SourceIn, Range

(* The two halves of a repaired swap *)
LEMMA SwapAt ==
    ASSUME "cpu_offset" \in Repaired, NEW m, DOMAIN m \subseteq Blocks, NEW mem,
           NEW h \in {"key", "value"}, NEW b \in Blocks
    PROVE  SwapBlocks(mem, m)[h][b] = mem[h][SourceIn(m, b)]
<1>1. ASSUME NEW mm, NEW half \in {"key", "value"}, NEW k \in {"key", "value"}, NEW c \in Blocks
      PROVE  SwapHalf(mm, m, half)[k][c] = IF k = half THEN mm[k][SourceIn(m, c)] ELSE mm[k][c]
  <2>1. SwapHalf(mm, m, half)[k][c] =
          IF k = TargetHalf(half, c) /\ \E a \in DOMAIN m : m[a] = c
          THEN mm[SourceHalf(half, CHOOSE a \in DOMAIN m : m[a] = c)][CHOOSE a \in DOMAIN m : m[a] = c]
          ELSE mm[k][c]
    BY DEF SwapHalf
  <2>2. TargetHalf(half, c) = half
    BY DEF TargetHalf
  <2>3. \A a : SourceHalf(half, a) = half
    BY DEF SourceHalf
  <2>4. (\E a \in DOMAIN m : m[a] = c) <=> c \in Range(m)
    BY DEF Range
  <2> QED BY <2>1, <2>2, <2>3, <2>4 DEF SourceIn
<1>2. SourceIn(m, b) \in Blocks
  BY SourceBlock
<1>3. CASE h = "key"
  BY <1>1, <1>3 DEF SwapBlocks
<1>4. CASE h = "value"
  BY <1>1, <1>2, <1>4 DEF SwapBlocks
<1> QED BY <1>3, <1>4

(* The same for the copies on write *)
LEMMA CopyAt ==
    ASSUME NEW m, NEW mem, NEW h \in {"key", "value"}, NEW b \in Blocks
    PROVE  CopyBlocks(mem, m)[h][b] = mem[h][SourceIn(m, b)]
<1>1. CopyBlocks(mem, m)[h][b] =
        IF \E a \in DOMAIN m : m[a] = b THEN mem[h][CHOOSE a \in DOMAIN m : m[a] = b] ELSE mem[h][b]
  BY DEF CopyBlocks
<1>2. (\E a \in DOMAIN m : m[a] = b) <=> b \in Range(m)
  BY DEF Range
<1> QED BY <1>1, <1>2 DEF SourceIn

(* The memory the model will run on, block by block *)
LEMMA MemoryAt ==
    ASSUME "cpu_offset" \in Repaired, Transfers, NEW h \in {"key", "value"}, NEW b \in Blocks
    PROVE  Origin(b) \in Blocks /\ Memory[h][b] = cache[h][Origin(b)]
<1>1. /\ DOMAIN blocks_to_swap_in \subseteq Blocks /\ DOMAIN blocks_to_swap_out \subseteq Blocks
      /\ DOMAIN blocks_to_copy \subseteq Blocks
  BY DEF Transfers, SwapInsFixed, SwapOutsFixed, CopiesFixed, Blocks
<1>2. PICK b1 \in Blocks : b1 = SourceIn(blocks_to_copy, b)
  BY <1>1, SourceBlock
<1>3. PICK b2 \in Blocks : b2 = SourceIn(blocks_to_swap_out, b1)
  BY <1>1, SourceBlock
<1>4. PICK b3 \in Blocks : b3 = SourceIn(blocks_to_swap_in, b2)
  BY <1>1, SourceBlock
<1>5. Origin(b) = b3
  BY <1>2, <1>3, <1>4 DEF Origin
<1>6. PICK m1 : m1 = SwapBlocks(cache, blocks_to_swap_in)
  OBVIOUS
<1>7. PICK m2 : m2 = SwapBlocks(m1, blocks_to_swap_out)
  OBVIOUS
<1>8. m1[h][b2] = cache[h][b3] /\ m2[h][b1] = m1[h][b2]
  BY <1>1, <1>3, <1>4, <1>6, <1>7, SwapAt
<1>9. CopyBlocks(m2, blocks_to_copy)[h][b] = m2[h][b1]
  BY <1>2, CopyAt
<1>10. Memory = CopyBlocks(m2, blocks_to_copy)
  BY <1>6, <1>7 DEF Memory, CacheSwap
<1> QED BY <1>5, <1>8, <1>9, <1>10

(* The place in a block table of the block of the i-th token *)
IndexOf(i) == ((i - 1) \div BlockSize) + 1

(* Division with remainder *)
LEMMA DivIs ==
    ASSUME NEW x \in Nat, NEW b \in Nat \ {0}
    PROVE  /\ x \div b \in Nat /\ x % b \in 0..(b - 1)
           /\ x = b * (x \div b) + (x % b)
<1>1. PICK q \in Int, r \in Int : x = q * b + r /\ 0 <= r /\ r < b /\ q = x \div b /\ r = x % b
  <2>1. x = b * (x \div b) + (x % b) /\ x % b \in 0..(b - 1) /\ x \div b \in Int
    OBVIOUS
  <2> QED BY <2>1
<1>2. q \in Nat
  <2>1. ASSUME q < 0 PROVE FALSE
    <3>1. q * b <= -b
      BY <1>1, <2>1
    <3> QED BY <1>1, <3>1
  <2> QED BY <1>1, <2>1
<1> QED BY <1>1, <1>2

(* Positions from 1, their block in the table and their offset in it *)
LEMMA IndexIs ==
    ASSUME NEW i \in Nat \ {0}, NEW n \in Nat
    PROVE  /\ IndexOf(i) \in Nat \ {0} /\ OffsetOf(i) \in 0..(BlockSize - 1)
           /\ i = BlockSize * (IndexOf(i) - 1) + OffsetOf(i) + 1
           /\ i <= n * BlockSize <=> IndexOf(i) <= n
<1>1. PICK b \in Nat \ {0} : b = BlockSize
  BY SizesAssumption
<1>2. i - 1 \in Nat
  OBVIOUS
<1>3. PICK d \in Nat : d = (i - 1) \div b
  BY <1>2, DivIs
<1>4. PICK r \in 0..(b - 1) : r = (i - 1) % b
  BY <1>2, DivIs
<1>5. i - 1 = b * d + r
  BY <1>2, <1>3, <1>4, DivIs
<1>6. IndexOf(i) = d + 1 /\ OffsetOf(i) = r
  BY <1>1, <1>3, <1>4 DEF IndexOf, OffsetOf
<1>7. ASSUME d + 1 <= n PROVE i <= n * b
  <2>1. (d + 1) * b <= n * b /\ (d + 1) * b \in Nat /\ n * b \in Nat
    BY <1>7, MulMono
  <2>2. (d + 1) * b = b * d + b
    OBVIOUS
  <2>3. b * d \in Nat
    OBVIOUS
  <2> QED BY <1>5, <2>1, <2>2, <2>3
<1>8. ASSUME ~(d + 1 <= n) PROVE ~(i <= n * b)
  <2>1. n <= d
    BY <1>8
  <2>2. n * b <= d * b /\ n * b \in Nat /\ d * b \in Nat
    BY <2>1, MulMono
  <2>3. d * b = b * d
    OBVIOUS
  <2> QED BY <1>5, <2>2, <2>3
<1> QED BY <1>1, <1>5, <1>6, <1>7, <1>8

(* Block and offset tell positions apart. *)
LEMMA SamePosition ==
    ASSUME NEW i \in Nat \ {0}, NEW j \in Nat \ {0}, IndexOf(i) = IndexOf(j), OffsetOf(i) = OffsetOf(j)
    PROVE  i = j
<1>1. i = BlockSize * (IndexOf(i) - 1) + OffsetOf(i) + 1
  BY IndexIs
<1>2. j = BlockSize * (IndexOf(j) - 1) + OffsetOf(j) + 1
  BY IndexIs
<1> QED BY <1>1, <1>2

(* Every computed token has a block in the table of its sequence. *)
Covered == \A s \in SeqIds : computed[s] <= Len(block_tables[s]) * BlockSize

(* SlotOf in terms of IndexOf and OffsetOf *)
LEMMA SlotIs ==
    ASSUME NEW table, NEW i \in Nat
    PROVE  SlotOf(table, i - 1) = <<table[IndexOf(i)], OffsetOf(i)>>
BY DEF SlotOf, IndexOf, OffsetOf

(* A position the table covers is in a block that its sequence holds. *)
LEMMA BlockHeld ==
    ASSUME IndInv, NEW s \in SeqIds, NEW i \in Nat \ {0}, i <= Len(block_tables[s]) * BlockSize
    PROVE  /\ IndexOf(i) \in 1..Len(block_tables[s]) /\ IndexOf(i) \in DOMAIN block_tables[s]
           /\ BlockAt(s, i) = block_tables[s][IndexOf(i)]
           /\ BlockAt(s, i) \in Range(block_tables[s]) /\ BlockAt(s, i) \in Blocks
           /\ BlockAt(s, i) \notin free_blocks
<1>1. PICK t \in Seq(Blocks) : t = block_tables[s]
  BY DEF IndInv, TypeOK
<1>2. PICK n \in Nat : n = Len(t)
  OBVIOUS
<1>3. IndexOf(i) \in 1..n
  <2>1. IndexOf(i) \in Nat \ {0} /\ IndexOf(i) <= n
    BY <1>1, <1>2, IndexIs
  <2> QED BY <2>1
<1>4. IndexOf(i) \in DOMAIN t /\ t[IndexOf(i)] \in Range(t) /\ t[IndexOf(i)] \in Blocks
  BY <1>2, <1>3 DEF Range
<1>5. BlockAt(s, i) = t[IndexOf(i)]
  BY <1>1, SlotIs DEF BlockAt
<1>6. s \in Owners(BlockAt(s, i))
  BY <1>1, <1>4, <1>5 DEF Owners
<1>7. BlockAt(s, i) \notin free_blocks
  BY <1>4, <1>5, <1>6 DEF IndInv, FreeListExact
<1> QED BY <1>1, <1>2, <1>3, <1>4, <1>5, <1>7

(* The tokens a sequence has computed are covered by its table. *)
LEMMA ComputedHeld ==
    ASSUME IndInv, Texts, Covered, NEW s \in SeqIds, NEW i \in 1..computed[s]
    PROVE  /\ i \in Nat \ {0} /\ i <= Len(block_tables[s]) * BlockSize
           /\ i <= Len(text[s])
<1>1. computed[s] \in Nat /\ computed[s] <= Len(text[s]) /\ Len(text[s]) \in Nat
  BY DEF Texts, TextOK
<1>2. PICK n \in Nat : n = Len(block_tables[s]) * BlockSize
  <2>1. Len(block_tables[s]) \in Nat /\ BlockSize \in Nat
    BY SizesAssumption DEF IndInv, TypeOK
  <2>2. PICK a \in Nat : a = Len(block_tables[s])
    BY <2>1
  <2>3. PICK b \in Nat : b = BlockSize
    BY <2>1
  <2> QED BY <2>2, <2>3
<1>3. computed[s] <= n
  BY <1>2 DEF Covered
<1> QED BY <1>1, <1>2, <1>3

-----------------------------------------------------------------------------
(* What a step of a pass leaves where it was *)

(* Pairs with new sources and new targets leave the other targets alone. *)
LEMMA InsertSource ==
    ASSUME NEW f, NEW g, IsInjective(f), IsInjective(g), Range(f) \cap Range(g) = {},
           DOMAIN f \cap DOMAIN g = {}
    PROVE  /\ \A a \in DOMAIN g : SourceIn(Insert(f, g), g[a]) = a
           /\ \A x : x \notin Range(g) => SourceIn(Insert(f, g), x) = SourceIn(f, x)
<1> DEFINE h == Insert(f, g)
<1>1. /\ DOMAIN h = DOMAIN f \cup DOMAIN g
      /\ \A b \in DOMAIN g : h[b] = g[b]
      /\ \A b \in DOMAIN f : h[b] = f[b]
  BY DEF Insert
<1>2. IsInjective(h) /\ Range(h) \subseteq Range(f) \cup Range(g)
  BY InsertPairs
<1> HIDE DEF h
<1>3. ASSUME NEW a \in DOMAIN g PROVE SourceIn(h, g[a]) = a
  BY <1>1, <1>2, SourceIs
<1>4. ASSUME NEW x, x \notin Range(g) PROVE SourceIn(h, x) = SourceIn(f, x)
  <2>1. CASE x \in Range(f)
    <3>1. PICK a \in DOMAIN f : f[a] = x
      BY <2>1 DEF Range
    <3>2. SourceIn(f, x) = a
      BY <3>1, SourceIs
    <3>3. SourceIn(h, h[a]) = a /\ h[a] = x
      BY <1>1, <1>2, <3>1, SourceIs
    <3> QED BY <3>2, <3>3
  <2>2. CASE x \notin Range(f)
    BY <1>2, <1>4, <2>2, SourceIs
  <2> QED BY <2>1, <2>2
<1> QED BY <1>3, <1>4 DEF h

(* What a computed token of s still is after a step *)
KeptAt(s, i) ==
    /\ \A h \in {"key", "value"} :
          cache'[h][Origin(BlockAt(s, i))'][OffsetOf(i)] = cache[h][Origin(BlockAt(s, i))][OffsetOf(i)]
    /\ text'[s][i] = text[s][i] /\ SubSeq(text'[s], 1, i) = SubSeq(text[s], 1, i)

(* What is kept stays stored. *)
LEMMA StoredKept ==
    ASSUME AllStored, NEW s \in SeqIds, computed'[s] = computed[s],
           \A i \in 1..computed[s] : KeptAt(s, i)
    PROVE  \A i \in 1..computed'[s] : Stored(s, i)'
<1> SUFFICES ASSUME NEW i \in 1..computed[s] PROVE Stored(s, i)'
  OBVIOUS
<1>1. Stored(s, i) /\ KeptAt(s, i)
  BY DEF AllStored
<1>2. PICK b : b = Origin(BlockAt(s, i))
  OBVIOUS
<1>3. PICK c : c = Origin(BlockAt(s, i))'
  OBVIOUS
<1>4. /\ cache["key"][b][OffsetOf(i)] = Key(text[s][i], i - 1)
      /\ cache["value"][b][OffsetOf(i)] = SubSeq(text[s], 1, i)
  BY <1>1, <1>2 DEF Stored
<1>5. /\ cache'["key"][c][OffsetOf(i)] = Key(text'[s][i], i - 1)
      /\ cache'["value"][c][OffsetOf(i)] = SubSeq(text'[s], 1, i)
  BY <1>1, <1>2, <1>3, <1>4 DEF KeptAt
<1> QED BY <1>3, <1>5 DEF Stored, OffsetOf

(* A step that moves no block of s and changes no map *)
LEMMA StoredFrame ==
    ASSUME AllStored, UNCHANGED <<maps, cache>>, NEW s \in SeqIds,
           computed'[s] = computed[s], block_tables'[s] = block_tables[s], text'[s] = text[s]
    PROVE  \A i \in 1..computed'[s] : Stored(s, i)'
<1>1. ASSUME NEW i \in 1..computed[s] PROVE KeptAt(s, i)
  <2>1. Origin(BlockAt(s, i))' = Origin(BlockAt(s, i))
    BY DEF Origin, BlockAt, maps
  <2> QED BY <2>1 DEF KeptAt
<1> QED BY <1>1, StoredKept

(* A step in which every block of s comes from where its block came before *)
LEMMA StoredMoved ==
    ASSUME AllStored, UNCHANGED <<cache, text, computed>>, NEW s \in SeqIds,
           \A i \in 1..computed[s] : Origin(BlockAt(s, i))' = Origin(BlockAt(s, i))
    PROVE  \A i \in 1..computed'[s] : Stored(s, i)'
<1>1. \A i \in 1..computed[s] : KeptAt(s, i)
  BY DEF KeptAt
<1> QED BY <1>1, StoredKept

(* append_slots: a new block holds no computed token yet, a copied one will be
   filled from the block it replaces. *)
LEMMA AppendStored ==
    ASSUME Supported, IndInv, Grouped, Transfers, Texts, Covered, SingleSources, AllStored,
           NEW s \in SeqIds, AppendOne(s)
    PROVE  AllStored'
<1>0. /\ AppendSlots(s) /\ blocks_to_copy' = CopyMap(s)
      /\ UNCHANGED <<blocks_to_swap_in, blocks_to_swap_out, cache, text, computed>>
      /\ BlockSlidingWindow = 0
  BY DEF AppendOne, Supported
<1>1. s \in appending /\ slot[s] = "none"
  BY <1>0, AppendCases, AppendingFacts
<1> SUFFICES ASSUME NEW q \in SeqIds PROVE \A i \in 1..computed[q] : Stored(q, i)'
  BY <1>0 DEF AllStored
<1>2. CASE UNCHANGED block_tables
  <2>1. UNCHANGED maps
    BY <1>0, <1>2 DEF CopyMap, maps
  <2> QED BY <1>0, <1>2, <2>1, StoredFrame
<1>3. ASSUME NEW b, Grown(s, b), q # s PROVE \A i \in 1..computed[q] : Stored(q, i)'
  <2>1. UNCHANGED maps /\ block_tables'[q] = block_tables[q]
    <3>1. Len(block_tables'[s]) # Len(block_tables[s])
      BY <1>1, <1>3, AppendTables
    <3> QED BY <1>0, <1>1, <1>3, <3>1, AppendTables DEF CopyMap, maps
  <2> QED BY <1>0, <2>1, StoredFrame
<1>4. ASSUME NEW b, Grown(s, b), q = s PROVE \A i \in 1..computed[q] : Stored(q, i)'
  <2>1. UNCHANGED maps
    <3>1. Len(block_tables'[s]) # Len(block_tables[s])
      BY <1>1, <1>4, AppendTables
    <3> QED BY <1>0, <3>1 DEF CopyMap, maps
  <2>2. ASSUME NEW i \in 1..computed[s] PROVE Origin(BlockAt(s, i))' = Origin(BlockAt(s, i))
    <3>1. PICK t \in Seq(Blocks) : t = block_tables[s]
      BY DEF IndInv, TypeOK
    <3>2. i \in Nat \ {0} /\ IndexOf(i) \in 1..Len(t)
      BY <3>1, ComputedHeld, BlockHeld
    <3>3. block_tables'[s] = Append(t, b)
      BY <1>4, <3>1 DEF Grown, IndInv, TypeOK
    <3>4. Append(t, b)[IndexOf(i)] = t[IndexOf(i)]
      BY <3>2
    <3>5. BlockAt(s, i)' = BlockAt(s, i)
      BY <3>1, <3>2, <3>3, <3>4, SlotIs DEF BlockAt
    <3> QED BY <2>1, <3>5 DEF Origin, maps
  <2> QED BY <1>0, <1>4, <2>2, StoredMoved
<1>5. ASSUME NEW b, Copied(s, b) PROVE \A i \in 1..computed[q] : Stored(q, i)'
  <2>a. PICK n : n = Len(block_tables[s])
    OBVIOUS
  <2>b. PICK last : last = block_tables[s][n]
    OBVIOUS
  <2>c. PICK pair : pair = [x \in {last} |-> b]
    OBVIOUS
  <2>1. /\ n \in Nat \ {0} /\ Len(block_tables'[s]) = n
        /\ block_tables'[s][n] = b /\ b # last
        /\ b \in GpuBlocks /\ b \in free_blocks /\ b \in Blocks
        /\ \A p \in SeqIds : p # s => block_tables'[p] = block_tables[p]
    BY <1>1, <1>5, <2>a, <2>b, AppendTables
  <2>d. ref_count[last] # 1
    BY <1>5, <2>a, <2>b DEF Copied
  <2>2. blocks_to_copy' = Insert(blocks_to_copy, pair)
    BY <1>0, <2>a, <2>b, <2>c, <2>1 DEF CopyMap
  <2>3. last \in Blocks /\ last \in Range(block_tables[s])
    BY <1>1, <2>a, <2>b, AppendingFacts, LastBlock DEF Owners
  <2>4. DOMAIN pair = {last} /\ Range(pair) = {b} /\ IsInjective(pair) /\ pair[last] = b
    BY <2>c DEF Range, IsInjective
  <2>5. b \notin Range(blocks_to_copy) /\ last \notin Range(blocks_to_copy) /\ last \notin DOMAIN blocks_to_copy
    <3>1. GpuBlocks \subseteq Blocks
      BY DEF Blocks
    <3>2. b \notin Range(blocks_to_copy)
      BY <2>1, <3>1, TakenBlocks DEF Transfers, CopiesFixed
    <3>3. last \notin Range(blocks_to_copy)
      BY <1>1, <2>3 DEF Transfers, CopiesFixed, Private, Owners
    <3> QED BY <2>d, <3>2, <3>3 DEF SingleSources
  <2>6. /\ SourceIn(blocks_to_copy', b) = last /\ SourceIn(blocks_to_copy, last) = last
        /\ \A x : x # b => SourceIn(blocks_to_copy', x) = SourceIn(blocks_to_copy, x)
    <3>1. IsInjective(blocks_to_copy)
      BY DEF Transfers, CopiesFixed
    <3>2. /\ \A a \in DOMAIN pair : SourceIn(Insert(blocks_to_copy, pair), pair[a]) = a
          /\ \A x : x \notin Range(pair) =>
                SourceIn(Insert(blocks_to_copy, pair), x) = SourceIn(blocks_to_copy, x)
      BY <2>4, <2>5, <3>1, InsertSource
    <3> QED BY <2>2, <2>4, <2>5, <3>1, <3>2, SourceIs
  <2>7. ASSUME NEW i \in 1..computed[q] PROVE Origin(BlockAt(q, i))' = Origin(BlockAt(q, i))
    <3>1. /\ i \in Nat \ {0} /\ IndexOf(i) \in 1..Len(block_tables[q])
          /\ BlockAt(q, i) = block_tables[q][IndexOf(i)]
          /\ BlockAt(q, i) \notin free_blocks
      BY ComputedHeld, BlockHeld
    <3>2. PICK x : x = BlockAt(q, i)
      OBVIOUS
    <3>3. PICK y : y = BlockAt(q, i)'
      OBVIOUS
    <3>4. y = block_tables'[q][IndexOf(i)]
      BY <3>1, <3>3, SlotIs DEF BlockAt
    <3>5. CASE q = s /\ IndexOf(i) = n
      <4>1. x = last /\ y = b
        BY <2>1, <2>b, <3>1, <3>2, <3>4, <3>5
      <4>2. SourceIn(blocks_to_copy', y) = SourceIn(blocks_to_copy, x)
        BY <2>6, <4>1
      <4> QED BY <1>0, <3>2, <3>3, <4>2 DEF Origin
    <3>6. CASE ~(q = s /\ IndexOf(i) = n)
      <4>1. y = x
        <5>1. CASE q # s
          BY <2>1, <3>1, <3>2, <3>4, <5>1
        <5>2. CASE q = s
          <6>1. PICK t \in Seq(Blocks) : t = block_tables[s]
            BY DEF IndInv, TypeOK
          <6>2. block_tables'[s] = [t EXCEPT ![n] = b]
            BY <1>5, <2>a, <6>1 DEF Copied, IndInv, TypeOK
          <6> QED BY <3>1, <3>2, <3>4, <3>6, <5>2, <6>1, <6>2
        <5> QED BY <5>1, <5>2
      <4>2. x # b
        BY <2>1, <3>1, <3>2
      <4>3. SourceIn(blocks_to_copy', y) = SourceIn(blocks_to_copy, x)
        BY <2>6, <4>1, <4>2
      <4> QED BY <1>0, <3>2, <3>3, <4>3 DEF Origin
    <3> QED BY <3>5, <3>6
  <2> QED BY <1>0, <2>7, StoredMoved
<1> QED BY <1>0, <1>2, <1>3, <1>4, <1>5, AppendCases

(* A swap moves the tables of S along the pairs it adds to a map. *)
SwapPairs(S, pairs, target) ==
    /\ S \in SUBSET SeqIds /\ appending = {}
    /\ \A s \in S : slot[s] = "none" /\ status[s] # "Finished"
    /\ target \subseteq free_blocks
    /\ DOMAIN pairs = HeldBy(S) /\ IsInjective(pairs) /\ Range(pairs) \subseteq target
    /\ \A q \in SeqIds : q \notin S => block_tables'[q] = block_tables[q]
    /\ \A s \in S : /\ Len(block_tables'[s]) = Len(block_tables[s])
                    /\ \A i \in DOMAIN block_tables[s] :
                          /\ block_tables[s][i] \in HeldBy(S)
                          /\ block_tables'[s][i] = pairs[block_tables[s][i]]
    /\ Calm

(* PreemptBySwap moves the running sequences S of g out along pairs. *)
SwapsOut(g, S, pairs) ==
    /\ SwapPairs(S, pairs, FreeCpu) /\ HeldBy(S) \subseteq GpuBlocks
    /\ S = WithStatus(g, "Running")
    /\ blocks_to_swap_out' = Insert(blocks_to_swap_out, pairs)
    /\ UNCHANGED <<blocks_to_swap_in, blocks_to_copy, cache, text, computed>>
    /\ loop \in {"none", "running"}

(* Resume moves the swapped sequences S of g in along pairs. *)
SwapsIn(g, S, pairs) ==
    /\ SwapPairs(S, pairs, FreeGpu) /\ HeldBy(S) \subseteq CpuBlocks
    /\ S = WithStatus(g, "Swapped") /\ appending' = S
    /\ blocks_to_swap_in' = Insert(blocks_to_swap_in, pairs)
    /\ UNCHANGED <<blocks_to_swap_out, blocks_to_copy, cache, text, computed>>
    /\ ~preempted

(* The map that swap_out returns are such pairs *)
LEMMA SwapsOutIs ==
    ASSUME IndInv, IndInv', Grouped, NEW g \in Groups, PreemptBySwap(g)
    PROVE  \E S, pairs : SwapsOut(g, S, pairs)
<1>1. PICK S : S = WithStatus(g, "Running")
  OBVIOUS
<1>2. /\ appending = {} /\ \A s \in S : slot[s] = "none"
      /\ Swap(S, FreeCpu, "Swapped")
      /\ blocks_to_swap_out' = Insert(blocks_to_swap_out, SwapMap(S))
      /\ UNCHANGED <<blocks_to_swap_in, blocks_to_copy, cache, text, computed>>
      /\ loop \in {"none", "running"}
  <2>1. err' = "none"
    BY DEF IndInv, NoOperationFails
  <2> QED BY <1>1, <2>1 DEF PreemptBySwap, SwapOut, Idle, Fail, EnterLoop
<1>3. /\ S \in SUBSET SeqIds /\ FreeCpu \in SUBSET free_blocks /\ FreeCpu \in SUBSET Blocks
      /\ \A s \in S : status[s] = "Running"
  BY <1>1 DEF WithStatus, Members, FreeCpu, Blocks
<1>4. Calm /\ \A q \in SeqIds : q \notin S => block_tables'[q] = block_tables[q]
  BY <1>2, <1>3, SwapCalm
<1>5. PICK m : MovedBy(m, S, FreeCpu)
  BY <1>2, <1>3, SwapMoves DEF IndInv
<1>6. PICK pairs : pairs = SwapMap(S)
  OBVIOUS
<1>7. /\ DOMAIN pairs = HeldBy(S) /\ IsInjective(pairs) /\ Range(pairs) \subseteq FreeCpu
      /\ \A b \in HeldBy(S) : pairs[b] = m[b]
  BY <1>3, <1>5, <1>6, SwapMapIs DEF Grouped
<1>8. HeldBy(S) \subseteq GpuBlocks
  BY <1>3 DEF HeldBy, IndInv, TablesOnDevice
<1>9. \A s \in S : /\ Len(block_tables'[s]) = Len(block_tables[s])
                   /\ \A i \in DOMAIN block_tables[s] :
                         /\ block_tables[s][i] \in HeldBy(S)
                         /\ block_tables'[s][i] = pairs[block_tables[s][i]]
  BY <1>5, <1>7 DEF MovedBy
<1>10. SwapPairs(S, pairs, FreeCpu)
  BY <1>2, <1>3, <1>4, <1>7, <1>9 DEF SwapPairs
<1>11. SwapsOut(g, S, pairs)
  BY <1>1, <1>2, <1>6, <1>8, <1>10 DEF SwapsOut
<1> QED BY <1>11

(* and so is the one of swap_in. *)
LEMMA SwapsInIs ==
    ASSUME IndInv, IndInv', Grouped, NEW g \in Groups, Resume(g)
    PROVE  \E S, pairs : SwapsIn(g, S, pairs)
<1>1. PICK S : S = WithStatus(g, "Swapped")
  OBVIOUS
<1>2. /\ appending = {} /\ appending' = S
      /\ Swap(S, FreeGpu, "Running")
      /\ blocks_to_swap_in' = Insert(blocks_to_swap_in, SwapMap(S))
      /\ UNCHANGED <<blocks_to_swap_out, blocks_to_copy, cache, text, computed>> /\ ~preempted
  <2>1. err' = "none"
    BY DEF IndInv, NoOperationFails
  <2> QED BY <1>1, <2>1 DEF Resume, SwapIn, Idle, Fail, EnterLoop
<1>3. /\ S \in SUBSET SeqIds /\ FreeGpu \in SUBSET free_blocks /\ FreeGpu \in SUBSET Blocks
      /\ \A s \in S : status[s] = "Swapped" /\ slot[s] = "none"
  BY <1>1 DEF WithStatus, Members, FreeGpu, Blocks, IndInv, LengthsAgree, LengthOK
<1>4. Calm /\ \A q \in SeqIds : q \notin S => block_tables'[q] = block_tables[q]
  BY <1>2, <1>3, SwapCalm
<1>5. PICK m : MovedBy(m, S, FreeGpu)
  BY <1>2, <1>3, SwapMoves DEF IndInv
<1>6. PICK pairs : pairs = SwapMap(S)
  OBVIOUS
<1>7. /\ DOMAIN pairs = HeldBy(S) /\ IsInjective(pairs) /\ Range(pairs) \subseteq FreeGpu
      /\ \A b \in HeldBy(S) : pairs[b] = m[b]
  BY <1>3, <1>5, <1>6, SwapMapIs DEF Grouped
<1>8. HeldBy(S) \subseteq CpuBlocks
  BY <1>3 DEF HeldBy, IndInv, TablesOnDevice
<1>9. \A s \in S : /\ Len(block_tables'[s]) = Len(block_tables[s])
                   /\ \A i \in DOMAIN block_tables[s] :
                         /\ block_tables[s][i] \in HeldBy(S)
                         /\ block_tables'[s][i] = pairs[block_tables[s][i]]
  BY <1>5, <1>7 DEF MovedBy
<1>10. SwapPairs(S, pairs, FreeGpu)
  BY <1>2, <1>3, <1>4, <1>7, <1>9 DEF SwapPairs
<1>11. SwapsIn(g, S, pairs)
  BY <1>1, <1>2, <1>6, <1>8, <1>10 DEF SwapsIn
<1> QED BY <1>11

(* No pending transfer leaves from a block that a swap is about to move. *)
LEMMA SwapsApart ==
    ASSUME LeftBehind, NEW S, NEW pairs, NEW target, SwapPairs(S, pairs, target)
    PROVE  HeldBy(S) \cap (DOMAIN blocks_to_swap_in \cup DOMAIN blocks_to_swap_out) = {}
<1> SUFFICES ASSUME NEW b \in HeldBy(S), b \in DOMAIN blocks_to_swap_in \cup DOMAIN blocks_to_swap_out
             PROVE  FALSE
  OBVIOUS
<1>1. PICK s \in S : b \in Range(block_tables[s])
  BY DEF HeldBy
<1>2. s \in SeqIds /\ ~Pinned(s)
  BY <1>1 DEF SwapPairs, Pinned
<1> QED BY <1>1, <1>2 DEF LeftBehind

(* The block of a computed token before and after a swap *)
LEMMA SwappedBlock ==
    ASSUME IndInv, Texts, Covered, NEW S, NEW pairs, NEW target, SwapPairs(S, pairs, target),
           NEW s \in SeqIds, NEW i \in 1..computed[s]
    PROVE  /\ s \in S => /\ BlockAt(s, i) \in HeldBy(S)
                         /\ BlockAt(s, i)' = pairs[BlockAt(s, i)]
           /\ s \notin S => BlockAt(s, i)' = BlockAt(s, i)
           /\ BlockAt(s, i) \notin free_blocks /\ BlockAt(s, i) \in Blocks
<1>1. /\ i \in Nat \ {0} /\ IndexOf(i) \in DOMAIN block_tables[s]
      /\ BlockAt(s, i) = block_tables[s][IndexOf(i)]
      /\ BlockAt(s, i) \notin free_blocks /\ BlockAt(s, i) \in Blocks
  BY ComputedHeld, BlockHeld
<1>2. BlockAt(s, i)' = block_tables'[s][IndexOf(i)]
  BY <1>1, SlotIs DEF BlockAt
<1> QED BY <1>1, <1>2 DEF SwapPairs

(* Swapping a group out keeps everything stored: what it copies was not written
   to in this pass. *)
LEMMA SwapOutStored ==
    ASSUME Supported, IndInv, IndInv', Grouped, Pass, Transfers, Texts, Covered, LeftBehind, AllStored,
           NEW g \in Groups, PreemptBySwap(g)
    PROVE  AllStored'
<1>0. PICK S, pairs : SwapsOut(g, S, pairs)
  BY SwapsOutIs
<1>1. /\ SwapPairs(S, pairs, FreeCpu) /\ HeldBy(S) \subseteq GpuBlocks
      /\ S = WithStatus(g, "Running")
      /\ blocks_to_swap_out' = Insert(blocks_to_swap_out, pairs)
      /\ UNCHANGED <<blocks_to_swap_in, blocks_to_copy, cache, text, computed>>
      /\ loop \in {"none", "running"}
  BY <1>0 DEF SwapsOut
<1>2. /\ IsInjective(blocks_to_swap_out) /\ IsInjective(pairs) /\ IsInjective(blocks_to_copy)
      /\ Range(pairs) \subseteq FreeCpu /\ FreeCpu \subseteq CpuBlocks /\ FreeCpu \subseteq free_blocks
      /\ DOMAIN pairs = HeldBy(S)
      /\ Range(blocks_to_copy) \subseteq GpuBlocks /\ Range(blocks_to_swap_out) \subseteq CpuBlocks
      /\ DOMAIN blocks_to_copy \subseteq GpuBlocks
      /\ CpuBlocks \cap GpuBlocks = {} /\ CpuBlocks \subseteq Blocks
  BY <1>1, BlocksAssumption DEF SwapPairs, Transfers, SwapOutsFixed, CopiesFixed, FreeCpu, Blocks
<1>3. Range(blocks_to_swap_out) \cap Range(pairs) = {} /\ DOMAIN blocks_to_swap_out \cap DOMAIN pairs = {}
  <2>1. \A b \in Range(blocks_to_swap_out) : b \in Blocks /\ b \notin free_blocks
    BY TakenBlocks DEF Transfers, SwapOutsFixed, Blocks
  <2>2. DOMAIN blocks_to_swap_out \cap HeldBy(S) = {}
    BY <1>1, SwapsApart
  <2> QED BY <1>2, <2>1, <2>2
<1>4. /\ \A a \in HeldBy(S) : SourceIn(blocks_to_swap_out', pairs[a]) = a
      /\ \A x : x \notin Range(pairs) => SourceIn(blocks_to_swap_out', x) = SourceIn(blocks_to_swap_out, x)
  BY <1>1, <1>2, <1>3, InsertSource
<1>5. \A x : SourceIn(blocks_to_swap_in, x) = x
  <2>1. blocks_to_swap_in = Empty
    BY <1>1 DEF Pass
  <2> QED BY <2>1, EmptyMap, SourceIs
<1>6. ASSUME NEW s \in SeqIds, NEW i \in 1..computed[s]
      PROVE  Origin(BlockAt(s, i))' = Origin(BlockAt(s, i))
  <2>1. PICK x : x = BlockAt(s, i)
    OBVIOUS
  <2>2. PICK y : y = BlockAt(s, i)'
    OBVIOUS
  <2>3. /\ s \in S => x \in HeldBy(S) /\ y = pairs[x]
        /\ s \notin S => y = x
        /\ x \notin free_blocks /\ x \in Blocks
    BY <1>1, <2>1, <2>2, SwappedBlock
  <2>4. Origin(BlockAt(s, i)) = SourceIn(blocks_to_swap_out, SourceIn(blocks_to_copy, x))
    BY <1>5, <2>1 DEF Origin
  <2>5. Origin(BlockAt(s, i))' = SourceIn(blocks_to_swap_out', SourceIn(blocks_to_copy, y))
    BY <1>1, <1>5, <2>2 DEF Origin
  <2>6. CASE s \in S
    <3>1. y \in Range(pairs)
      BY <1>2, <2>3, <2>6 DEF Range
    <3>2. SourceIn(blocks_to_copy, y) = y
      BY <1>2, <3>1, SourceIs
    <3>3. SourceIn(blocks_to_swap_out', y) = x
      BY <1>4, <2>3, <2>6
    <3>4. x \notin Range(blocks_to_copy)
      <4>1. ASSUME x \in Range(blocks_to_copy) PROVE FALSE
        <5>1. PICK q \in SeqIds : slot[q] = "decode" /\ Owners(x) = {q}
          BY <4>1 DEF Transfers, CopiesFixed, Private
        <5>2. s \in Owners(x)
          BY <2>1, <2>3, ComputedHeld, BlockHeld DEF Owners
        <5>3. q = s
          BY <5>1, <5>2
        <5> QED BY <1>1, <2>6, <5>1, <5>3 DEF SwapPairs
      <4> QED BY <4>1
    <3>5. SourceIn(blocks_to_copy, x) = x
      BY <1>2, <3>4, SourceIs
    <3>6. SourceIn(blocks_to_swap_out, x) = x
      BY <1>1, <1>2, <2>3, <2>6, SourceIs
    <3> QED BY <2>4, <2>5, <3>2, <3>3, <3>5, <3>6
  <2>7. CASE s \notin S
    <3>1. PICK z : z = SourceIn(blocks_to_copy, x)
      OBVIOUS
    <3>2. z \notin Range(pairs)
      <4>1. CASE x \in Range(blocks_to_copy)
        <5>1. z \in DOMAIN blocks_to_copy
          BY <3>1, <4>1 DEF SourceIn, Range
        <5> QED BY <1>2, <5>1
      <4>2. CASE x \notin Range(blocks_to_copy)
        BY <1>2, <2>3, <3>1, <4>2, SourceIs
      <4> QED BY <4>1, <4>2
    <3> QED BY <1>4, <2>3, <2>4, <2>5, <2>7, <3>1, <3>2
  <2> QED BY <2>6, <2>7
<1>7. \A s \in SeqIds : \A i \in 1..computed'[s] : Stored(s, i)'
  BY <1>1, <1>6, StoredMoved
<1> QED BY <1>7 DEF AllStored

(* So does swapping a group in: a pass that swaps in has swapped nothing out. *)
LEMMA SwapInStored ==
    ASSUME Supported, IndInv, IndInv', Grouped, Pass, Transfers, Texts, Covered, LeftBehind, AllStored,
           NEW g \in Groups, Resume(g)
    PROVE  AllStored'
<1>0. PICK S, pairs : SwapsIn(g, S, pairs)
  BY SwapsInIs
<1>1. /\ SwapPairs(S, pairs, FreeGpu) /\ HeldBy(S) \subseteq CpuBlocks
      /\ S = WithStatus(g, "Swapped") /\ appending' = S
      /\ blocks_to_swap_in' = Insert(blocks_to_swap_in, pairs)
      /\ UNCHANGED <<blocks_to_swap_out, blocks_to_copy, cache, text, computed>>
      /\ ~preempted
  BY <1>0 DEF SwapsIn
<1>2. /\ IsInjective(blocks_to_swap_in) /\ IsInjective(pairs) /\ IsInjective(blocks_to_copy)
      /\ Range(pairs) \subseteq FreeGpu /\ FreeGpu \subseteq GpuBlocks /\ FreeGpu \subseteq free_blocks
      /\ DOMAIN pairs = HeldBy(S)
      /\ Range(blocks_to_copy) \subseteq GpuBlocks /\ Range(blocks_to_swap_in) \subseteq GpuBlocks
      /\ DOMAIN blocks_to_copy \subseteq GpuBlocks
      /\ CpuBlocks \cap GpuBlocks = {} /\ GpuBlocks \subseteq Blocks
  BY <1>1, BlocksAssumption DEF SwapPairs, Transfers, SwapInsFixed, CopiesFixed, FreeGpu, Blocks
<1>3. Range(blocks_to_swap_in) \cap Range(pairs) = {} /\ DOMAIN blocks_to_swap_in \cap DOMAIN pairs = {}
  <2>1. \A b \in Range(blocks_to_swap_in) : b \in Blocks /\ b \notin free_blocks
    BY TakenBlocks DEF Transfers, SwapInsFixed, Blocks
  <2>2. DOMAIN blocks_to_swap_in \cap HeldBy(S) = {}
    BY <1>1, SwapsApart
  <2> QED BY <1>2, <2>1, <2>2
<1>4. /\ \A a \in HeldBy(S) : SourceIn(blocks_to_swap_in', pairs[a]) = a
      /\ \A x : x \notin Range(pairs) => SourceIn(blocks_to_swap_in', x) = SourceIn(blocks_to_swap_in, x)
  BY <1>1, <1>2, <1>3, InsertSource
<1>5. \A x : SourceIn(blocks_to_swap_out, x) = x
  <2>1. blocks_to_swap_out = Empty
    BY <1>1 DEF Pass
  <2> QED BY <2>1, EmptyMap, SourceIs
<1>6. ASSUME NEW s \in SeqIds, NEW i \in 1..computed[s]
      PROVE  Origin(BlockAt(s, i))' = Origin(BlockAt(s, i))
  <2>1. PICK x : x = BlockAt(s, i)
    OBVIOUS
  <2>2. PICK y : y = BlockAt(s, i)'
    OBVIOUS
  <2>3. /\ s \in S => x \in HeldBy(S) /\ y = pairs[x]
        /\ s \notin S => y = x
        /\ x \notin free_blocks /\ x \in Blocks
    BY <1>1, <2>1, <2>2, SwappedBlock
  <2>4. Origin(BlockAt(s, i)) = SourceIn(blocks_to_swap_in, SourceIn(blocks_to_copy, x))
    BY <1>5, <2>1 DEF Origin
  <2>5. Origin(BlockAt(s, i))' = SourceIn(blocks_to_swap_in', SourceIn(blocks_to_copy, y))
    BY <1>1, <1>5, <2>2 DEF Origin
  <2>6. CASE s \in S
    <3>1. y \in Range(pairs)
      BY <1>2, <2>3, <2>6 DEF Range
    <3>2. SourceIn(blocks_to_copy, y) = y
      <4>1. y \notin Range(blocks_to_copy)
        BY <1>2, <3>1, TakenBlocks DEF Transfers, CopiesFixed
      <4> QED BY <1>2, <4>1, SourceIs
    <3>3. SourceIn(blocks_to_swap_in', y) = x
      BY <1>4, <2>3, <2>6
    <3>4. x \in CpuBlocks
      BY <1>1, <2>3, <2>6
    <3>5. SourceIn(blocks_to_copy, x) = x /\ SourceIn(blocks_to_swap_in, x) = x
      BY <1>2, <3>4, SourceIs
    <3> QED BY <2>4, <2>5, <3>2, <3>3, <3>5
  <2>7. CASE s \notin S
    <3>1. PICK z : z = SourceIn(blocks_to_copy, x)
      OBVIOUS
    <3>2. z \notin Range(pairs)
      <4>1. CASE x \in Range(blocks_to_copy)
        <5>1. z \in DOMAIN blocks_to_copy
          BY <3>1, <4>1 DEF SourceIn, Range
        <5>2. z \notin free_blocks
          BY <1>2, <5>1, TakenBlocks DEF Transfers, CopiesFixed
        <5> QED BY <1>2, <5>2
      <4>2. CASE x \notin Range(blocks_to_copy)
        BY <1>2, <2>3, <3>1, <4>2, SourceIs
      <4> QED BY <4>1, <4>2
    <3> QED BY <1>4, <2>3, <2>4, <2>5, <2>7, <3>1, <3>2
  <2> QED BY <2>6, <2>7
<1>7. \A s \in SeqIds : \A i \in 1..computed'[s] : Stored(s, i)'
  BY <1>1, <1>6, StoredMoved
<1> QED BY <1>7 DEF AllStored

(* What the steps of a pass do to the sequences *)
SameTexts == UNCHANGED <<logical, last_fill, text, computed>>

(* Admitting g gives its waiting sequences W blocks and a slot. *)
Prefills(g, W) ==
    /\ W = WithStatus(g, "Waiting") /\ W # {}
    /\ \A q \in SeqIds : q \notin W => /\ block_tables'[q] = block_tables[q] /\ slot'[q] = slot[q]
                                       /\ status'[q] = status[q]
    /\ \A q \in W : status[q] = "Waiting" /\ status'[q] = "Running" /\ slot'[q] = "prefill"
    /\ SameTexts /\ UNCHANGED <<maps, cache, answer, executed>> /\ ~executed
    /\ appending = {} /\ appending' = {} /\ loop \in {"none", "prefills"} /\ loop' = "prefills"
    /\ worker_err = "none" /\ Calm
    /\ worker_err' = "none" => Cardinality({s \in Members(g) : status[s] # "Unborn"}) = 1

(* That is what Prefill does. *)
LEMMA PrefillIs ==
    ASSUME Supported, IndInv, NEW g \in Groups, Prefill(g)
    PROVE  \E W \in SUBSET SeqIds : Prefills(g, W)
<1>1. PICK W : W = WithStatus(g, "Waiting")
  OBVIOUS
<1>2. /\ SameTexts /\ UNCHANGED <<maps, cache, answer, executed>> /\ ~executed
      /\ appending = {} /\ appending' = {} /\ loop \in {"none", "prefills"} /\ loop' = "prefills"
      /\ worker_err = "none" /\ Allocate(g)
      /\ worker_err' = "none" => Cardinality({s \in Members(g) : status[s] # "Unborn"}) = 1
  BY AllocateSucceeds DEF Prefill, EnterLoop, Building, SameTexts, maps, results
<1>3. /\ status' = SetStatus(W, "Running") /\ W # {}
      /\ slot' = [s \in SeqIds |-> IF s \in W THEN "prefill" ELSE slot[s]]
      /\ \A q \in SeqIds : q \notin W => block_tables'[q] = block_tables[q]
  BY <1>1, <1>2, AllocateSucceeds
<1>4. Calm
  BY <1>2, AllocateCalm DEF Supported
<1>5. W \in SUBSET SeqIds /\ \A q \in W : status[q] = "Waiting"
  BY <1>1 DEF WithStatus, Members
<1>6. \A q \in SeqIds : status'[q] = IF q \in W THEN "Running" ELSE status[q]
  BY <1>3 DEF SetStatus
<1>7. \A q \in SeqIds : slot'[q] = IF q \in W THEN "prefill" ELSE slot[q]
  BY <1>3
<1>8. Prefills(g, W)
  BY <1>1, <1>2, <1>3, <1>4, <1>5, <1>6, <1>7 DEF Prefills
<1> QED BY <1>5, <1>8

(* Continuing a group only announces the append. *)
LEMMA ContinueIs ==
    ASSUME IndInv, NEW g \in Groups, Continue(g)
    PROVE  /\ UNCHANGED <<status, block_tables, slot, maps, cache, answer, executed, ref_count>>
           /\ SameTexts /\ appending = {} /\ ~executed
           /\ loop \in {"none", "running"} /\ loop' = "running" /\ Calm
           /\ \A s \in appending' : s \in SeqIds /\ status[s] = "Running" /\ slot[s] = "none"
                                    /\ computed[s] < Length(s)
<1>1. StartAppend(g)
  BY DEF Continue
<1>2. Calm
  BY <1>1, StartAppendCalm
<1>3. \A s \in appending' : s \in SeqIds /\ status[s] = "Running" /\ slot[s] = "none"
                            /\ computed[s] < Length(s)
  BY DEF Continue, StartAppend, Extended, WithStatus, Members
<1> QED BY <1>2, <1>3 DEF Continue, StartAppend, Idle, WorkerUnchanged, EnterLoop, Building, SameTexts, maps, results

(* Preemption by recomputation gives up the blocks of one sequence. *)
LEMMA RecomputeIs ==
    ASSUME Supported, IndInv, NEW s \in SeqIds, Recompute(s)
    PROVE  /\ UNCHANGED <<logical, last_fill, text, maps, cache, answer, executed, slot, appending>>
           /\ appending = {} /\ ~executed /\ Calm /\ loop \in {"none", "running"} /\ loop' = "running"
           /\ status'[s] = "Waiting" /\ block_tables'[s] = <<>> /\ slot[s] = "none" /\ status[s] = "Running"
           /\ computed' = [computed EXCEPT ![s] = 0]
           /\ \A q \in SeqIds : q # s => status'[q] = status[q] /\ block_tables'[q] = block_tables[q]
<1>1. /\ PreemptByRecompute(s) /\ computed' = [computed EXCEPT ![s] = 0] /\ BlockSlidingWindow = 0
      /\ UNCHANGED <<text, maps, cache, answer, executed>> /\ ~executed
      /\ loop \in {"none", "running"} /\ loop' = "running"
  BY DEF Recompute, EnterLoop, Building, maps, results, Supported
<1>2. appending = {} /\ status[s] = "Running" /\ slot[s] = "none" /\ FreeSequence(s, "Waiting")
  BY <1>1 DEF PreemptByRecompute, Idle
<1>3. /\ FreeTables({s}) /\ status' = [status EXCEPT ![s] = "Waiting"]
      /\ slot' = [slot EXCEPT ![s] = "none"] /\ UNCHANGED <<appending, logical, last_fill>>
  BY <1>1, <1>2, FreeNeverFails DEF FreeSequence
<1>4. block_tables' = [q \in SeqIds |-> IF q \in {s} THEN <<>> ELSE block_tables[q]]
  BY <1>3 DEF FreeTables
<1>5. slot' = slot /\ status \in [SeqIds -> Statuses]
  BY <1>2, <1>3 DEF IndInv, TypeOK
<1>6. Calm
  BY <1>1, RecomputeCalm
<1> QED BY <1>1, <1>2, <1>3, <1>4, <1>5, <1>6

(* append_slots touches one sequence. *)
LEMMA AppendIs ==
    ASSUME Supported, IndInv, NEW s \in SeqIds, AppendOne(s)
    PROVE  /\ UNCHANGED <<status, blocks_to_swap_in, blocks_to_swap_out, cache, answer, executed, loop>>
           /\ SameTexts /\ ~executed
           /\ s \in appending /\ appending' = appending \ {s} /\ slot' = [slot EXCEPT ![s] = "decode"]
           /\ \A q \in SeqIds : q # s => block_tables'[q] = block_tables[q] /\ slot'[q] = slot[q]
           /\ Len(block_tables'[s]) >= Len(block_tables[s])
           /\ slot'[s] = "decode" /\ slot[s] = "none" /\ Len(block_tables[s]) \in Nat
<1>1. /\ AppendSlots(s) /\ BlockSlidingWindow = 0 /\ ~executed
      /\ UNCHANGED <<text, computed, blocks_to_swap_in, blocks_to_swap_out, cache, answer, executed, loop>>
  BY DEF AppendOne, Building, results, Supported
<1>2. /\ s \in appending /\ SlotReady(s)
      /\ UNCHANGED block_tables \/ (\E b : Grown(s, b)) \/ (\E b : Copied(s, b))
  BY <1>1, AppendCases
<1>3. slot[s] = "none" /\ Len(block_tables[s]) \in Nat /\ slot \in [SeqIds -> Slots]
  BY <1>2 DEF IndInv, AppendFits, TypeOK
<1>4. /\ \A q \in SeqIds : q # s => block_tables'[q] = block_tables[q]
      /\ Len(block_tables'[s]) >= Len(block_tables[s])
  <2>1. CASE UNCHANGED block_tables
    BY <1>3, <2>1
  <2>2. ASSUME NEW b, Grown(s, b) \/ Copied(s, b)
        PROVE  /\ \A q \in SeqIds : q # s => block_tables'[q] = block_tables[q]
               /\ Len(block_tables'[s]) >= Len(block_tables[s])
    BY <1>2, <1>3, <2>2, AppendTables
  <2> QED BY <1>2, <2>1, <2>2
<1> QED BY <1>1, <1>2, <1>3, <1>4 DEF SlotReady, SameTexts

(* A swap moves whole tables and changes the status of their sequences. *)
LEMMA SwapStatus ==
    ASSUME IndInv, IndInv', Grouped, NEW g \in Groups, PreemptBySwap(g) \/ Resume(g)
    PROVE  \E S \in SUBSET SeqIds :
              /\ SameTexts /\ UNCHANGED <<slot, cache, answer, executed, blocks_to_copy>> /\ ~executed
              /\ appending = {} /\ Calm
              /\ \A q \in SeqIds : q \notin S => status'[q] = status[q] /\ block_tables'[q] = block_tables[q]
              /\ \A q \in S : slot[q] = "none" /\ Len(block_tables'[q]) = Len(block_tables[q])
              /\ PreemptBySwap(g) =>
                    /\ appending' = {} /\ loop' = "running" /\ loop \in {"none", "running"}
                    /\ \A q \in S : status[q] = "Running" /\ status'[q] = "Swapped" /\ computed[q] < Length(q)
              /\ Resume(g) =>
                    /\ appending' = S /\ loop' = "swapped" /\ ~preempted
                    /\ \A q \in S : status[q] = "Swapped" /\ status'[q] = "Running"
<1>0. err' = "none"
  BY DEF IndInv, NoOperationFails
<1>1. CASE PreemptBySwap(g)
  <2>1. PICK S, pairs : SwapsOut(g, S, pairs)
    BY <1>1, SwapsOutIs
  <2>2. /\ SwapPairs(S, pairs, FreeCpu) /\ S = WithStatus(g, "Running")
    BY <2>1 DEF SwapsOut
  <2>3. /\ SameTexts /\ UNCHANGED <<slot, cache, answer, executed, blocks_to_copy>> /\ ~executed
        /\ appending = {} /\ appending' = {} /\ loop' = "running" /\ loop \in {"none", "running"}
        /\ \A q \in S : computed[q] < Length(q)
        /\ status' = SetStatus(S, "Swapped")
    BY <1>0, <1>1, <2>2 DEF PreemptBySwap, SwapOut, Swap, Fail, EnterLoop, Building, Idle, SameTexts,
       Extended, results
  <2>4. S \in SUBSET SeqIds /\ \A q \in S : status[q] = "Running"
    BY <2>2 DEF WithStatus, Members
  <2>5. \A q \in SeqIds : status'[q] = IF q \in S THEN "Swapped" ELSE status[q]
    BY <2>3 DEF SetStatus
  <2>6. ~Resume(g)
    BY <1>1, <2>4, <2>3, <2>5 DEF Resume, EnterLoop
  <2> QED BY <1>1, <2>2, <2>3, <2>4, <2>5, <2>6 DEF SwapPairs
<1>2. CASE Resume(g)
  <2>1. PICK S, pairs : SwapsIn(g, S, pairs)
    BY <1>2, SwapsInIs
  <2>2. /\ SwapPairs(S, pairs, FreeGpu) /\ S = WithStatus(g, "Swapped")
    BY <2>1 DEF SwapsIn
  <2>3. /\ SameTexts /\ UNCHANGED <<slot, cache, answer, executed, blocks_to_copy>> /\ ~executed
        /\ appending = {} /\ appending' = S /\ loop' = "swapped" /\ ~preempted
        /\ status' = SetStatus(S, "Running")
    BY <1>0, <1>2, <2>2 DEF Resume, SwapIn, Swap, Fail, EnterLoop, Building, Idle, SameTexts, results
  <2>4. S \in SUBSET SeqIds /\ \A q \in S : status[q] = "Swapped"
    BY <2>2 DEF WithStatus, Members
  <2>5. \A q \in SeqIds : status'[q] = IF q \in S THEN "Running" ELSE status[q]
    BY <2>3 DEF SetStatus
  <2>6. ~PreemptBySwap(g)
    BY <2>3 DEF PreemptBySwap, EnterLoop
  <2> QED BY <1>2, <2>2, <2>3, <2>4, <2>5, <2>6 DEF SwapPairs
<1> QED BY <1>1, <1>2

-----------------------------------------------------------------------------
(* The sources of copies, and what swaps leave behind *)

(* A step of the pass that adds no pair *)
LEMMA CalmSources ==
    ASSUME IndInv, IndInv', Transfers, Calm, SingleSources, UNCHANGED blocks_to_copy
    PROVE  SingleSources'
<1> SUFFICES ASSUME NEW b \in DOMAIN blocks_to_copy PROVE ref_count'[b] = 1
  BY DEF SingleSources
<1>1. HeldFast(b) /\ b \in Blocks
  BY DEF Transfers, CopiesFixed, Blocks
<1>2. PICK q \in SeqIds : Pinned(q) /\ b \in Range(block_tables[q])
  BY <1>1 DEF HeldFast
<1>3. b \notin free_blocks
  BY <1>1, TakenBlocks
<1>4. Owners(b) = {q}
  <2>1. Cardinality(Owners(b)) = 1
    BY <1>1 DEF SingleSources, IndInv, RefCountsMatchTables
  <2>2. IsFiniteSet(Owners(b)) /\ q \in Owners(b)
    BY <1>2, SequencesAssumption, FS_Subset DEF Owners
  <2> QED BY <2>1, <2>2, FS_Singleton
<1>5. Owners(b)' = {q}
  <2>1. b \in Range(block_tables'[q])
    BY <1>2 DEF Calm
  <2>2. ASSUME NEW p \in SeqIds, b \in Range(block_tables'[p]) PROVE p = q
    <3>1. b \in Range(block_tables[p])
      BY <1>3, <2>2 DEF Calm
    <3> QED BY <1>4, <3>1 DEF Owners
  <2> QED BY <2>1, <2>2 DEF Owners
<1>6. ref_count'[b] = Cardinality(Owners(b)')
  BY <1>1 DEF IndInv, RefCountsMatchTables, Blocks
<1> QED BY <1>5, <1>6, FS_Singleton

-----------------------------------------------------------------------------
(* The transfers of a pass, one sequence's blocks at a time *)

(* append_slots leaves the block it copies to one holder: no third sequence of
   the group can have had it. *)
LEMMA AppendSources ==
    ASSUME Supported, IndInv, IndInv', Grouped, Transfers, SingleSources, NEW s \in SeqIds, AppendOne(s)
    PROVE  SingleSources'
<1>0. /\ AppendSlots(s) /\ blocks_to_copy' = CopyMap(s) /\ BlockSlidingWindow = 0
  BY DEF AppendOne, Supported
<1>1. s \in appending
  BY <1>0, AppendCases
<1>2. ASSUME NEW b \in Blocks, NEW q, Owners(b)' = {q} PROVE ref_count'[b] = 1
  <2>1. ref_count'[b] = Cardinality(Owners(b)')
    BY DEF IndInv, RefCountsMatchTables, Blocks
  <2> QED BY <1>2, <2>1, FS_Singleton
<1>3. ASSUME NEW b \in DOMAIN blocks_to_copy
      PROVE  b \in Blocks /\ b \notin free_blocks /\ \E q \in SeqIds : Owners(b) = {q}
  <2>1. HeldFast(b) /\ b \in Blocks
    BY DEF Transfers, CopiesFixed, Blocks
  <2>2. Cardinality(Owners(b)) = 1 /\ IsFiniteSet(Owners(b))
    BY <2>1, SequencesAssumption, FS_Subset DEF SingleSources, IndInv, RefCountsMatchTables, Owners
  <2>3. PICK q : Owners(b) = {q}
    BY <2>2, FS_Singleton
  <2> QED BY <2>1, <2>3, TakenBlocks DEF Owners
<1>4. CASE UNCHANGED block_tables
  <2>1. UNCHANGED blocks_to_copy
    BY <1>0, <1>4 DEF CopyMap
  <2>2. ASSUME NEW b \in DOMAIN blocks_to_copy PROVE ref_count'[b] = 1
    <3>1. Owners(b)' = Owners(b)
      BY <1>4 DEF Owners
    <3> QED BY <1>2, <1>3, <3>1
  <2> QED BY <2>1, <2>2 DEF SingleSources
<1>5. ASSUME NEW b, Grown(s, b) PROVE SingleSources'
  <2>1. UNCHANGED blocks_to_copy
    <3>1. Len(block_tables'[s]) # Len(block_tables[s])
      BY <1>1, <1>5, AppendTables
    <3> QED BY <1>0, <3>1 DEF CopyMap
  <2>2. ASSUME NEW x \in DOMAIN blocks_to_copy PROVE ref_count'[x] = 1
    <3>1. x # b
      BY <1>1, <1>3, <1>5, AppendTables
    <3>2. \A q \in SeqIds : x \in Range(block_tables'[q]) <=> x \in Range(block_tables[q])
      BY <1>1, <1>5, <3>1, AppendTables
    <3>3. Owners(x)' = Owners(x)
      BY <3>2 DEF Owners
    <3> QED BY <1>2, <1>3, <3>3
  <2> QED BY <2>1, <2>2 DEF SingleSources
<1>6. ASSUME NEW b, Copied(s, b) PROVE SingleSources'
  <2>a. PICK n : n = Len(block_tables[s])
    OBVIOUS
  <2>b. PICK last : last = block_tables[s][n]
    OBVIOUS
  <2>1. /\ n \in Nat \ {0} /\ Len(block_tables'[s]) = n
        /\ block_tables'[s][n] = b /\ b # last
        /\ b \in GpuBlocks /\ b \in free_blocks /\ b \in Blocks
        /\ \A p \in SeqIds : p # s => block_tables'[p] = block_tables[p]
        /\ Range(block_tables'[s]) \subseteq Range(block_tables[s]) \cup {b}
        /\ \A x \in Range(block_tables[s]) : x # last => x \in Range(block_tables'[s])
    BY <1>1, <1>6, <2>a, <2>b, AppendTables
  <2>2. ref_count[last] # 1
    BY <1>6, <2>a, <2>b DEF Copied
  <2>3. DOMAIN blocks_to_copy' = DOMAIN blocks_to_copy \cup {last}
    BY <1>0, <2>a, <2>b, <2>1 DEF CopyMap, Insert
  <2>4. last \in Blocks /\ last \in Range(block_tables[s])
    BY <1>1, <2>a, <2>b, AppendingFacts, LastBlock DEF Owners
  <2>5. ASSUME NEW x \in DOMAIN blocks_to_copy PROVE ref_count'[x] = 1
    <3>1. x # b /\ x # last
      BY <1>3, <2>1, <2>2 DEF SingleSources
    <3>2. \A q \in SeqIds : x \in Range(block_tables'[q]) <=> x \in Range(block_tables[q])
      BY <2>1, <3>1
    <3>3. Owners(x)' = Owners(x)
      BY <3>2 DEF Owners
    <3> QED BY <1>2, <1>3, <3>3
  <2>6. ref_count'[last] = 1
    <3>1. PICK q \in SeqIds : q # s /\ last \in Range(block_tables[q])
      BY <1>1, <2>2, <2>a, <2>b, OtherHolder
    <3>2. last \notin Range(block_tables'[s])
      <4>1. PICK t \in Seq(Blocks) : t = block_tables[s]
        BY DEF IndInv, TypeOK
      <4>2. block_tables'[s] = [t EXCEPT ![n] = b]
        BY <1>6, <2>a, <4>1 DEF Copied, IndInv, TypeOK
      <4>3. \A i, j \in 1..n : t[i] = t[j] => i = j
        BY <2>a, <4>1 DEF IndInv, TablesDistinct, IsInjective
      <4>4. ASSUME NEW i \in 1..n PROVE [t EXCEPT ![n] = b][i] # last
        BY <2>1, <2>a, <2>b, <4>1, <4>3
      <4>5. DOMAIN block_tables'[s] = 1..n
        BY <2>a, <4>1, <4>2
      <4> QED BY <4>2, <4>4, <4>5 DEF Range
    <3>3. ASSUME NEW p \in SeqIds, last \in Range(block_tables'[p]) PROVE p = q
      <4>1. p # s /\ last \in Range(block_tables[p])
        BY <2>1, <3>2, <3>3
      <4>2. GroupOf[p] = GroupOf[s] /\ GroupOf[s] = GroupOf[q]
        BY <2>4, <3>1, <4>1 DEF IndInv, SharedOnlyWithinGroup
      <4> QED BY <3>1, <4>1, <4>2 DEF Supported
    <3>4. Owners(last)' = {q}
      BY <2>1, <3>1, <3>3 DEF Owners
    <3> QED BY <1>2, <2>4, <3>4
  <2> QED BY <2>3, <2>5, <2>6 DEF SingleSources
<1> QED BY <1>0, <1>4, <1>5, <1>6, AppendCases

(* Outside a pass no transfer is pending. *)
LEMMA NoTransfers ==
    ASSUME Pass', loop' = "none"
    PROVE  SingleSources' /\ LeftBehind'
<1>1. blocks_to_swap_in' = Empty /\ blocks_to_swap_out' = Empty /\ blocks_to_copy' = Empty
  BY DEF Pass
<1> QED BY <1>1, EmptyMap DEF SingleSources, LeftBehind

(* SingleSources is kept. *)
LEMMA SourcesNext ==
    ASSUME Supported, IndInv, IndInv', Grouped, Pass, Transfers, SingleSources, [PagedNext]_allVars
    PROVE  SingleSources'
<1>0. Pass'
  BY PassNext
<1>1. ASSUME NEW g \in Groups, Prefill(g) PROVE SingleSources'
  <2>1. Calm /\ UNCHANGED blocks_to_copy
    BY <1>1, PrefillIs DEF maps, Prefills
  <2> QED BY <2>1, CalmSources
<1>2. ASSUME NEW g \in Groups, Continue(g) PROVE SingleSources'
  <2>1. Calm /\ UNCHANGED blocks_to_copy
    BY <1>2, ContinueIs DEF maps
  <2> QED BY <2>1, CalmSources
<1>3. ASSUME NEW g \in Groups, PreemptBySwap(g) \/ Resume(g) PROVE SingleSources'
  <2>1. Calm /\ UNCHANGED blocks_to_copy
    BY <1>3, SwapStatus
  <2> QED BY <2>1, CalmSources
<1>4. ASSUME NEW s \in SeqIds, Recompute(s) PROVE SingleSources'
  <2>1. Calm /\ UNCHANGED blocks_to_copy
    BY <1>4, RecomputeIs DEF maps
  <2> QED BY <2>1, CalmSources
<1>5. ASSUME loop' = "none" PROVE SingleSources'
  BY <1>0, <1>5, NoTransfers
<1>6. ASSUME NEW g \in Groups, Prompt(g) PROVE loop' = "none"
  BY <1>6 DEF Prompt, Between
<1>7. ASSUME NEW s \in SeqIds, ProcessOutput(s) \/ AbortOrFinish(s) PROVE loop' = "none"
  BY <1>7 DEF ProcessOutput, AbortOrFinish, Between, Pass
<1>8. ASSUME NEW p \in SeqIds, NEW c \in SeqIds, ForkSequence(p, c) PROVE loop' = "none"
  BY <1>8 DEF ForkSequence, Between
<1>9. ASSUME ResetManager PROVE loop' = "none"
  BY <1>9 DEF ResetManager, Between
<1>10. ASSUME ExecuteModel PROVE SingleSources'
  <2>1. CASE loop' = "none"
    BY <1>5, <2>1
  <2>2. CASE UNCHANGED maps
    BY <1>10, <2>2, Outcome DEF SingleSources, maps, vars
  <2> QED BY <1>10, <2>1, <2>2, Outcome
<1>11. ASSUME UNCHANGED allVars PROVE SingleSources'
  BY <1>11 DEF allVars, vars, worker_vars, SingleSources
<1> QED BY <1>1, <1>2, <1>3, <1>4, <1>5, <1>6, <1>7, <1>8, <1>9, <1>10, <1>11, AppendSources DEF PagedNext

(* A step of the pass that adds no swap: whoever gets a block keeps it. *)
LEMMA CalmLeft ==
    ASSUME LeftBehind, Calm, UNCHANGED <<blocks_to_swap_in, blocks_to_swap_out>>,
           \A q \in SeqIds : Range(block_tables'[q]) \subseteq Range(block_tables[q]) \/ Pinned(q)'
    PROVE  LeftBehind'
<1>1. ASSUME NEW b \in DOMAIN blocks_to_swap_in \cup DOMAIN blocks_to_swap_out,
             NEW q \in SeqIds, b \in Range(block_tables'[q])
      PROVE  Pinned(q)'
  <2>1. CASE Range(block_tables'[q]) \subseteq Range(block_tables[q])
    <3>1. Pinned(q)
      BY <1>1, <2>1 DEF LeftBehind
    <3> QED BY <3>1 DEF Calm
  <2> QED BY <2>1
<1> QED BY <1>1 DEF LeftBehind

(* The blocks a swap leaves are held otherwise by finished sequences only. *)
LEMMA SwapLeft ==
    ASSUME IndInv, IndInv', Grouped, Pass, Transfers, LeftBehind, NEW g \in Groups,
           PreemptBySwap(g) \/ Resume(g)
    PROVE  LeftBehind'
<1>1. PICK S, pairs, target :
         /\ SwapPairs(S, pairs, target)
         /\ \E st \in {"Running", "Swapped"} : S = WithStatus(g, st)
         /\ DOMAIN blocks_to_swap_in' \cup DOMAIN blocks_to_swap_out'
                \subseteq DOMAIN blocks_to_swap_in \cup DOMAIN blocks_to_swap_out \cup HeldBy(S)
         /\ \A q \in S : Range(block_tables'[q]) \cap HeldBy(S) = {}
         /\ \A q \in S : \/ Pinned(q)'
                        \/ Range(block_tables'[q]) \cap (DOMAIN blocks_to_swap_in \cup DOMAIN blocks_to_swap_out) = {}
  <2>1. CASE PreemptBySwap(g)
    <3>1. PICK S, pairs : SwapsOut(g, S, pairs)
      BY <2>1, SwapsOutIs
    <3>2. /\ SwapPairs(S, pairs, FreeCpu) /\ S = WithStatus(g, "Running") /\ HeldBy(S) \subseteq GpuBlocks
          /\ blocks_to_swap_out' = Insert(blocks_to_swap_out, pairs) /\ UNCHANGED blocks_to_swap_in
          /\ loop \in {"none", "running"}
      BY <3>1 DEF SwapsOut
    <3>3. DOMAIN pairs = HeldBy(S) /\ DOMAIN blocks_to_swap_out' = DOMAIN blocks_to_swap_out \cup HeldBy(S)
      BY <3>2 DEF SwapPairs, Insert
    <3>4. \A q \in S : status'[q] = "Swapped" /\ q \in SeqIds
      <4>1. err' = "none"
        BY DEF IndInv, NoOperationFails
      <4>2. status' = SetStatus(S, "Swapped") /\ S \in SUBSET SeqIds
        BY <2>1, <3>2, <4>1 DEF PreemptBySwap, SwapOut, Swap, Fail, WithStatus, Members
      <4> QED BY <4>2 DEF SetStatus
    <3>5. \A q \in S : Range(block_tables'[q]) \cap HeldBy(S) = {}
      <4>1. \A q \in S : Range(block_tables'[q]) \subseteq CpuBlocks
        BY <3>4 DEF IndInv, TablesOnDevice
      <4> QED BY <3>2, <4>1, BlocksAssumption
    <3>6. \A q \in S : Range(block_tables'[q]) \cap (DOMAIN blocks_to_swap_in \cup DOMAIN blocks_to_swap_out) = {}
      <4>1. \A q \in S : Range(block_tables'[q]) \subseteq CpuBlocks
        BY <3>4 DEF IndInv, TablesOnDevice
      <4>2. blocks_to_swap_in = Empty
        BY <3>2 DEF Pass
      <4>3. DOMAIN blocks_to_swap_out \subseteq GpuBlocks /\ DOMAIN blocks_to_swap_in = {}
        BY <4>2, EmptyMap DEF Transfers, SwapOutsFixed
      <4> QED BY <4>1, <4>3, BlocksAssumption
    <3> QED BY <3>2, <3>3, <3>5, <3>6
  <2>2. CASE Resume(g)
    <3>1. PICK S, pairs : SwapsIn(g, S, pairs)
      BY <2>2, SwapsInIs
    <3>2. /\ SwapPairs(S, pairs, FreeGpu) /\ S = WithStatus(g, "Swapped") /\ HeldBy(S) \subseteq CpuBlocks
          /\ blocks_to_swap_in' = Insert(blocks_to_swap_in, pairs) /\ UNCHANGED blocks_to_swap_out
          /\ appending' = S
      BY <3>1 DEF SwapsIn
    <3>3. DOMAIN pairs = HeldBy(S) /\ DOMAIN blocks_to_swap_in' = DOMAIN blocks_to_swap_in \cup HeldBy(S)
      BY <3>2 DEF SwapPairs, Insert
    <3>4. \A q \in S : status'[q] = "Running" /\ q \in SeqIds
      <4>1. err' = "none"
        BY DEF IndInv, NoOperationFails
      <4>2. status' = SetStatus(S, "Running") /\ S \in SUBSET SeqIds
        BY <2>2, <3>2, <4>1 DEF Resume, SwapIn, Swap, Fail, WithStatus, Members
      <4> QED BY <4>2 DEF SetStatus
    <3>5. \A q \in S : Range(block_tables'[q]) \cap HeldBy(S) = {}
      <4>1. \A q \in S : Range(block_tables'[q]) \subseteq GpuBlocks
        BY <3>4 DEF IndInv, TablesOnDevice
      <4> QED BY <3>2, <4>1, BlocksAssumption
    <3>6. \A q \in S : Pinned(q)'
      BY <3>2 DEF Pinned
    <3> QED BY <3>2, <3>3, <3>5, <3>6
  <2> QED BY <2>1, <2>2
<1>2. /\ S \in SUBSET SeqIds /\ Calm
      /\ \A q \in SeqIds : q \notin S => block_tables'[q] = block_tables[q]
  BY <1>1 DEF SwapPairs
<1>3. ASSUME NEW b \in HeldBy(S), NEW q \in SeqIds, b \in Range(block_tables'[q]) PROVE Pinned(q)'
  <2>1. q \notin S /\ b \in Range(block_tables[q])
    BY <1>1, <1>2, <1>3
  <2>2. PICK s \in S : b \in Range(block_tables[s])
    BY DEF HeldBy
  <2>3. s \in SeqIds /\ GroupOf[s] = g /\ status[s] \in Live
    BY <1>1, <2>2 DEF WithStatus, Members, Live
  <2>4. GroupOf[q] = g
    BY <2>1, <2>2, <2>3 DEF IndInv, SharedOnlyWithinGroup
  <2>5. status[q] \notin Live
    BY <1>1, <2>1, <2>2, <2>3, <2>4 DEF Grouped, Uniform, WithStatus, Members
  <2>6. status[q] = "Finished"
    <3>1. status[q] # "Unborn"
      BY <2>1 DEF IndInv, TablesOnDevice, Range
    <3> QED BY <2>5, <3>1 DEF IndInv, TypeOK, Statuses, Live
  <2> QED BY <1>2, <2>6 DEF Calm, Pinned
<1>4. ASSUME NEW b \in DOMAIN blocks_to_swap_in \cup DOMAIN blocks_to_swap_out,
             NEW q \in SeqIds, b \in Range(block_tables'[q])
      PROVE  Pinned(q)'
  <2>1. CASE q \notin S
    <3>1. Pinned(q)
      BY <1>2, <1>4, <2>1 DEF LeftBehind
    <3> QED BY <1>2, <3>1 DEF Calm
  <2>2. CASE q \in S
    BY <1>1, <1>4, <2>2
  <2> QED BY <2>1, <2>2
<1>5. ASSUME NEW b \in (DOMAIN blocks_to_swap_in \cup DOMAIN blocks_to_swap_out)',
             NEW q \in SeqIds, b \in Range(block_tables'[q])
      PROVE  Pinned(q)'
  BY <1>1, <1>3, <1>4, <1>5
<1> QED BY <1>5 DEF LeftBehind

-----------------------------------------------------------------------------
(* What running a batch does to everything but the memory *)

(* What running a batch does to everything but the memory *)
RanModel ==
    /\ UNCHANGED <<vars, text, worker_err>> /\ loop' = "none" /\ ~executed /\ executed' = (Busy # {})
    /\ appending = {} /\ worker_err = "none" /\ loop # "none"
    /\ computed' = [s \in SeqIds |-> IF s \in Busy THEN Length(s) ELSE computed[s]]
    /\ answer' = [s \in SeqIds |-> IF s \in Busy THEN text[s] ELSE answer[s]]

(* append_slots takes free blocks only, so LeftBehind is kept. *)
LEMMA AppendLeft ==
    ASSUME Supported, IndInv, LeftBehind, NEW s \in SeqIds, AppendOne(s)
    PROVE  LeftBehind'
<1>1. /\ UNCHANGED <<status, blocks_to_swap_in, blocks_to_swap_out>>
      /\ appending' = appending \ {s}
      /\ \A q \in SeqIds : q # s => block_tables'[q] = block_tables[q] /\ slot'[q] = slot[q]
      /\ slot'[s] = "decode"
  BY AppendIs
<1>2. ASSUME NEW b \in DOMAIN blocks_to_swap_in \cup DOMAIN blocks_to_swap_out,
             NEW q \in SeqIds, b \in Range(block_tables'[q])
      PROVE  Pinned(q)'
  <2>1. CASE q = s
    BY <1>1, <2>1 DEF Pinned
  <2>2. CASE q # s
    <3>1. Pinned(q)
      BY <1>1, <1>2, <2>2 DEF LeftBehind
    <3> QED BY <1>1, <2>2, <3>1 DEF Pinned
  <2> QED BY <2>1, <2>2
<1> QED BY <1>1, <1>2 DEF LeftBehind

(* LeftBehind is kept. *)
LEMMA LeftNext ==
    ASSUME Supported, IndInv, IndInv', Grouped, Pass, Transfers, LeftBehind, [PagedNext]_allVars,
           ExecuteModel => RanModel
    PROVE  LeftBehind'
<1>0. Pass'
  BY PassNext
<1>1. ASSUME NEW g \in Groups, Prefill(g) PROVE LeftBehind'
  <2>0. PICK W \in SUBSET SeqIds : Prefills(g, W)
    BY <1>1, PrefillIs
  <2>1. /\ Calm /\ UNCHANGED maps
        /\ \A q \in SeqIds : q \notin W => block_tables'[q] = block_tables[q]
        /\ \A q \in W : slot'[q] = "prefill"
    BY <2>0 DEF Prefills
  <2>2. UNCHANGED <<blocks_to_swap_in, blocks_to_swap_out>>
    BY <2>1 DEF maps
  <2>3. \A q \in SeqIds : Range(block_tables'[q]) \subseteq Range(block_tables[q]) \/ Pinned(q)'
    BY <2>1 DEF Pinned
  <2> QED BY <2>1, <2>2, <2>3, CalmLeft
<1>2. ASSUME NEW g \in Groups, Continue(g) PROVE LeftBehind'
  <2>1. Calm /\ UNCHANGED <<blocks_to_swap_in, blocks_to_swap_out>> /\ UNCHANGED block_tables
    BY <1>2, ContinueIs DEF maps
  <2> QED BY <2>1, CalmLeft
<1>3. ASSUME NEW s \in SeqIds, Recompute(s) PROVE LeftBehind'
  <2>1. Calm /\ UNCHANGED <<blocks_to_swap_in, blocks_to_swap_out>>
    BY <1>3, RecomputeIs DEF maps
  <2>2. \A q \in SeqIds : Range(block_tables'[q]) \subseteq Range(block_tables[q])
    BY <1>3, RecomputeIs DEF Range
  <2> QED BY <2>1, <2>2, CalmLeft
<1>5. ASSUME loop' = "none" PROVE LeftBehind'
  BY <1>0, <1>5, NoTransfers
<1>6. ASSUME NEW g \in Groups, Prompt(g) PROVE loop' = "none"
  BY <1>6 DEF Prompt, Between
<1>7. ASSUME NEW s \in SeqIds, ProcessOutput(s) \/ AbortOrFinish(s) PROVE loop' = "none"
  BY <1>7 DEF ProcessOutput, AbortOrFinish, Between, Pass
<1>8. ASSUME NEW p \in SeqIds, NEW c \in SeqIds, ForkSequence(p, c) PROVE loop' = "none"
  BY <1>8 DEF ForkSequence, Between
<1>9. ASSUME ResetManager PROVE loop' = "none"
  BY <1>9 DEF ResetManager, Between
<1>10. ASSUME ExecuteModel PROVE loop' = "none"
  BY <1>10 DEF RanModel
<1>11. ASSUME UNCHANGED allVars PROVE LeftBehind'
  BY <1>11 DEF allVars, vars, worker_vars, LeftBehind, Pinned
<1> QED BY <1>1, <1>2, <1>3, <1>5, <1>6, <1>7, <1>8, <1>9, <1>10, <1>11, AppendLeft, SwapLeft DEF PagedNext

-----------------------------------------------------------------------------
(* Prompts share nothing *)

(* A group that is prefilled without an error has one sequence. *)
LEMMA PrefillAlone ==
    ASSUME Supported, IndInv, PromptsAlone, NEW g \in Groups, Prefill(g)
    PROVE  PromptsAlone'
<1>0. PICK W \in SUBSET SeqIds : Prefills(g, W)
  BY PrefillIs
<1>1. /\ W = WithStatus(g, "Waiting")
      /\ \A q \in SeqIds : q \notin W => block_tables'[q] = block_tables[q] /\ slot'[q] = slot[q]
      /\ worker_err = "none" /\ worker_err' = "none" => Cardinality({s \in Members(g) : status[s] # "Unborn"}) = 1
  BY <1>0 DEF Prefills
<1>w. worker_err = "none"
  BY DEF Prefill, EnterLoop, Building
<1> SUFFICES ASSUME worker_err' = "none", NEW s \in SeqIds, NEW t \in SeqIds, slot'[s] = "prefill",
                    GroupOf[t] = GroupOf[s], t # s
             PROVE  block_tables'[t] = <<>>
  BY DEF PromptsAlone
<1>2. CASE GroupOf[s] # g
  <2>1. s \notin W /\ t \notin W
    BY <1>1, <1>2 DEF WithStatus, Members
  <2> QED BY <1>1, <1>w, <2>1 DEF PromptsAlone
<1>3. CASE GroupOf[s] = g
  <2> DEFINE M == {q \in Members(g) : status[q] # "Unborn"}
  <2>1. Cardinality(M) = 1
    BY <1>1, <1>w
  <2>2. IsFiniteSet(M)
    <3>1. M \subseteq SeqIds
      BY DEF Members
    <3> QED BY <3>1, SequencesAssumption, FS_Subset
  <2>3. s \in M
    <3>1. CASE s \in W
      BY <1>1, <1>3, <3>1 DEF WithStatus, Members
    <3>2. CASE s \notin W
      <4>1. slot[s] = "prefill"
        BY <1>1, <3>2
      <4>2. status[s] = "Running"
        BY <4>1 DEF IndInv, LengthsAgree, LengthOK
      <4> QED BY <1>3, <4>2 DEF Members
    <3> QED BY <3>1, <3>2
  <2> HIDE DEF M
  <2>4. \E x : M = {x}
    BY <2>1, <2>2, FS_Singleton
  <2>5. t \notin M
    BY <2>3, <2>4
  <2>6. status[t] = "Unborn"
    BY <1>3, <2>5 DEF M, Members
  <2>7. t \notin W /\ block_tables[t] = <<>>
    BY <1>1, <2>6 DEF WithStatus, IndInv, TablesOnDevice
  <2> QED BY <1>1, <2>7
<1> QED BY <1>2, <1>3

(* PromptsAlone is kept. *)
LEMMA AloneNext ==
    ASSUME Supported, IndInv, IndInv', Grouped, Pass, Texts, Kinds, PromptsAlone, [PagedNext]_allVars,
           ExecuteModel => RanModel
    PROVE  PromptsAlone'
<1>0. Pass' /\ Kinds'
  BY PassNext, KindsNext
<1>1. ASSUME loop' \in {"running", "swapped"} PROVE PromptsAlone'
  BY <1>0, <1>1 DEF Kinds, PromptsAlone, Busy
<1>2. ASSUME loop' = "none", ~executed' PROVE PromptsAlone'
  BY <1>0, <1>2 DEF Kinds, PromptsAlone, Busy
<1>3. ASSUME UNCHANGED <<worker_err, block_tables>>, \A s \in SeqIds : slot'[s] = slot[s] \/ slot'[s] = "none"
      PROVE  PromptsAlone'
  BY <1>3 DEF PromptsAlone
<1>4. ASSUME NEW g \in Groups, Prompt(g) PROVE loop' = "none" /\ ~executed'
  BY <1>4 DEF Prompt, Between, Building
<1>5. ASSUME NEW g \in Groups, Continue(g) \/ PreemptBySwap(g) \/ Resume(g) PROVE loop' \in {"running", "swapped"}
  BY <1>5 DEF Continue, PreemptBySwap, Resume, EnterLoop
<1>6. ASSUME NEW s \in SeqIds, Recompute(s) PROVE loop' \in {"running", "swapped"}
  BY <1>6 DEF Recompute, EnterLoop
<1>7. ASSUME NEW s \in SeqIds, AppendOne(s) PROVE loop' \in {"running", "swapped"}
  <2>1. s \in appending /\ UNCHANGED loop
    BY <1>7, AppendIs
  <2> QED BY <2>1 DEF Kinds
<1>8. ASSUME NEW s \in SeqIds, ProcessOutput(s) PROVE PromptsAlone'
  <2>1. UNCHANGED <<worker_err, block_tables>> /\ slot' = [slot EXCEPT ![s] = "none"]
    BY <1>8 DEF ProcessOutput, AddTokenId
  <2>2. \A q \in SeqIds : slot'[q] = slot[q] \/ slot'[q] = "none"
    BY <2>1 DEF IndInv, TypeOK
  <2> QED BY <1>3, <2>1, <2>2
<1>9. ASSUME NEW s \in SeqIds, AbortOrFinish(s) PROVE loop' = "none" /\ ~executed'
  BY <1>9 DEF AbortOrFinish, Between, Building
<1>10. ASSUME NEW p \in SeqIds, NEW c \in SeqIds, ForkSequence(p, c) PROVE loop' = "none" /\ ~executed'
  BY <1>10 DEF ForkSequence, Between, Building
<1>11. ASSUME ResetManager PROVE loop' = "none" /\ ~executed'
  BY <1>11 DEF ResetManager, Between, Building
<1>12. ASSUME ExecuteModel PROVE PromptsAlone'
  <2>1. UNCHANGED <<worker_err, block_tables, slot>>
    BY <1>12 DEF RanModel, vars
  <2> QED BY <1>3, <2>1
<1>13. ASSUME UNCHANGED allVars PROVE PromptsAlone'
  BY <1>13 DEF allVars, vars, worker_vars, PromptsAlone
<1> QED BY <1>1, <1>2, <1>4, <1>5, <1>6, <1>7, <1>8, <1>9, <1>10, <1>11, <1>12, <1>13, PrefillAlone DEF PagedNext

-----------------------------------------------------------------------------
(* Every computed token has a slot *)

(* Tables only shrink when what was computed is given up. *)
LEMMA CoveredFrame ==
    ASSUME IndInv, IndInv', Covered, Texts, Texts',
           \A s \in SeqIds : \/ computed'[s] = 0
                             \/ computed'[s] = computed[s] /\ Len(block_tables'[s]) >= Len(block_tables[s])
    PROVE  Covered'
<1> SUFFICES ASSUME NEW s \in SeqIds PROVE computed'[s] <= Len(block_tables'[s]) * BlockSize
  BY DEF Covered
<1>1. PICK b \in Nat : b = BlockSize
  BY SizesAssumption
<1>2. PICK m \in Nat : m = Len(block_tables[s])
  BY DEF IndInv, TypeOK
<1>3. PICK n \in Nat : n = Len(block_tables'[s])
  BY DEF IndInv, TypeOK
<1>4. computed[s] \in Nat /\ computed[s] <= m * b /\ computed'[s] \in Nat
  BY <1>1, <1>2 DEF Covered, Texts
<1>5. CASE computed'[s] = 0
  BY <1>1, <1>3, <1>5
<1>6. CASE computed'[s] = computed[s] /\ m <= n
  <2>1. m * b <= n * b /\ m * b \in Nat /\ n * b \in Nat
    BY <1>6, MulMono
  <2>2. PICK x \in Nat : x = computed[s]
    BY <1>4
  <2>3. PICK y \in Nat : y = m * b
    BY <2>1
  <2>4. PICK z \in Nat : z = n * b
    BY <2>1
  <2>5. x <= z
    BY <1>4, <2>1, <2>2, <2>3, <2>4
  <2> QED BY <1>1, <1>3, <1>6, <2>2, <2>4, <2>5
<1> QED BY <1>2, <1>3, <1>5, <1>6

(* The table of a scheduled sequence has room for its text. *)
LEMMA LengthFits ==
    ASSUME IndInv, NEW s \in SeqIds, slot[s] # "none"
    PROVE  Length(s) \in Int /\ Length(s) <= Len(block_tables[s]) * BlockSize
<1>1. PICK b \in Nat : b = BlockSize
  BY SizesAssumption
<1>2. PICK m \in Nat : m = logical[s]
  BY DEF IndInv, TypeOK
<1>3. PICK k \in 0..b : k = last_fill[s]
  BY <1>1 DEF IndInv, TypeOK
<1>4. Len(block_tables[s]) = m
  BY <1>2 DEF IndInv, LengthsAgree, LengthOK
<1>5. Length(s) = (m - 1) * b + k
  BY <1>1, <1>2, <1>3 DEF Length
<1>6. (m - 1) * b = m * b - b /\ m * b \in Nat
  OBVIOUS
<1> QED BY <1>1, <1>3, <1>4, <1>5, <1>6

-----------------------------------------------------------------------------
(* Between batches *)

(* Between batches nothing is scheduled and no transfer is pending. *)
LEMMA BetweenIs ==
    ASSUME Pass, Kinds, Between
    PROVE  /\ blocks_to_swap_in = Empty /\ blocks_to_swap_out = Empty /\ blocks_to_copy = Empty
           /\ appending = {} /\ loop = "none" /\ ~executed
           /\ \A s \in SeqIds : slot[s] = "none"
BY DEF Pass, Kinds, Between, Building, Busy

(* The step leaves q alone. *)
SameSequence(q) ==
    /\ status'[q] = status[q] /\ slot'[q] = slot[q] /\ logical'[q] = logical[q] /\ last_fill'[q] = last_fill[q]
    /\ text'[q] = text[q] /\ computed'[q] = computed[q] /\ block_tables'[q] = block_tables[q]

(* The sequences S get prompts of n blocks, k tokens in the last. *)
Starts(S, n, k) ==
    /\ S # {}
    /\ status' = [s \in SeqIds |-> IF s \in S THEN "Waiting" ELSE status[s]]
    /\ logical' = [s \in SeqIds |-> IF s \in S THEN n ELSE logical[s]]
    /\ last_fill' = [s \in SeqIds |-> IF s \in S THEN k ELSE last_fill[s]]

(* That is what the arrival of a prompt does. *)
LEMMA NewGroupIs ==
    ASSUME NEW g, Prompt(g)
    PROVE  \E S \in SUBSET Members(g), n \in 1..MaxLogicalBlocks, k \in 1..BlockSize : Starts(S, n, k)
<1>1. NewGroup(g)
  BY DEF Prompt
<1> QED BY <1>1 DEF NewGroup, Starts

(* A prompt arrives for sequences that were not there. *)
LEMMA PromptIs ==
    ASSUME IndInv, Texts, NEW g \in Groups, Prompt(g)
    PROVE  /\ Between /\ UNCHANGED <<block_tables, slot, appending, computed, cache, maps, answer, executed, loop>>
           /\ \A q \in SeqIds :
                 \/ SameSequence(q)
                 \/ status[q] = "Unborn" /\ status'[q] = "Waiting" /\ computed[q] = 0 /\ text[q] = <<>>
<1>0. PICK S \in SUBSET Members(g), n \in 1..MaxLogicalBlocks, k \in 1..BlockSize : Starts(S, n, k)
  BY NewGroupIs
<1>1. /\ status' = [s \in SeqIds |-> IF s \in S THEN "Waiting" ELSE status[s]]
      /\ logical' = [s \in SeqIds |-> IF s \in S THEN n ELSE logical[s]]
      /\ last_fill' = [s \in SeqIds |-> IF s \in S THEN k ELSE last_fill[s]]
  BY <1>0 DEF Starts
<1>2. /\ Between /\ UNCHANGED <<block_tables, slot, appending, computed, cache, maps, answer, executed, loop>>
      /\ \A s \in Members(g) : status[s] = "Unborn"
      /\ \A s \in SeqIds : status[s] = status'[s] => text'[s] = text[s]
  BY DEF Prompt, NewGroup, maps, results
<1>3. ASSUME NEW q \in SeqIds, q \notin S PROVE SameSequence(q)
  <2>1. status'[q] = status[q] /\ logical'[q] = logical[q] /\ last_fill'[q] = last_fill[q]
    BY <1>1, <1>3
  <2> QED BY <1>2, <2>1 DEF SameSequence
<1>4. ASSUME NEW q \in SeqIds, q \in S
      PROVE  status[q] = "Unborn" /\ status'[q] = "Waiting" /\ computed[q] = 0 /\ text[q] = <<>>
  <2>1. status[q] = "Unborn" /\ status'[q] = "Waiting"
    BY <1>1, <1>2, <1>4
  <2>2. text[q] = <<>> /\ computed[q] <= Len(text[q]) /\ computed[q] \in Nat
    BY <2>1 DEF Texts, TextOK, Live
  <2> QED BY <2>1, <2>2
<1> QED BY <1>2, <1>3, <1>4

(* An output adds at most one token to its own sequence. *)
LEMMA OutputIs ==
    ASSUME IndInv, Texts, Pass, NEW s \in SeqIds, ProcessOutput(s)
    PROVE  /\ executed /\ loop = "none" /\ loop' = "none" /\ slot[s] # "none" /\ slot'[s] = "none"
           /\ UNCHANGED <<status, block_tables, appending, computed, cache, maps>> /\ appending = {}
           /\ \A q \in SeqIds : q # s => SameSequence(q)
           /\ answer' = [answer EXCEPT ![s] = Nothing]
           /\ executed' = (\E q \in SeqIds : slot'[q] # "none")
           /\ Length(s) \in Int /\ Length(s)' \in {Length(s), Length(s) + 1}
           /\ UNCHANGED text \/ text' = [text EXCEPT ![s] = Append(text[s], s)]
<1>1. /\ executed /\ AddTokenId(s) /\ UNCHANGED <<computed, cache, maps, loop>>
      /\ answer' = [answer EXCEPT ![s] = Nothing]
      /\ executed' = (\E q \in SeqIds : slot'[q] # "none")
      /\ Length(s)' = Length(s) + (IF Length(s) < MaxTokens THEN 1 ELSE 0)
      /\ text' = IF Length(s)' = Length(s) THEN text ELSE [text EXCEPT ![s] = Append(@, s)]
  BY DEF ProcessOutput, maps
<1>2. /\ appending = {} /\ slot[s] # "none" /\ slot' = [slot EXCEPT ![s] = "none"]
      /\ UNCHANGED <<status, block_tables, appending>>
  BY <1>1 DEF AddTokenId, Idle
<1>3. loop = "none"
  BY <1>1 DEF Pass
<1>4. status[s] = "Running"
  BY <1>2 DEF IndInv, LengthsAgree, LengthOK
<1>5. Length(s) \in Int /\ Length(s)' \in {Length(s), Length(s) + 1}
  <2>1. Len(text[s]) = Length(s) /\ Len(text[s]) \in Nat
    BY <1>4 DEF Texts, TextOK, Live
  <2> QED BY <1>1, <2>1
<1>6. UNCHANGED text \/ text' = [text EXCEPT ![s] = Append(text[s], s)]
  BY <1>1 DEF Texts
<1>7. ASSUME NEW q \in SeqIds, q # s PROVE SameSequence(q)
  <2>1. logical'[q] = logical[q] /\ last_fill'[q] = last_fill[q]
    BY <1>1, <1>7 DEF AddTokenId, IndInv, TypeOK
  <2>2. slot'[q] = slot[q] /\ text'[q] = text[q]
    BY <1>2, <1>6, <1>7 DEF IndInv, TypeOK, Texts
  <2> QED BY <1>1, <1>2, <2>1, <2>2 DEF SameSequence
<1>8. slot'[s] = "none"
  BY <1>2 DEF IndInv, TypeOK
<1> QED BY <1>1, <1>2, <1>3, <1>5, <1>6, <1>7, <1>8

(* A fork gives the child the text, the tokens computed and the table of the
   parent. *)
LEMMA ForkIs ==
    ASSUME IndInv, Texts, NEW p \in SeqIds, NEW c \in SeqIds, ForkSequence(p, c)
    PROVE  /\ Between /\ UNCHANGED <<slot, appending, cache, maps, answer, executed, loop>> /\ p # c
           /\ \A q \in SeqIds : q # c => SameSequence(q)
           /\ status[p] = "Running" /\ status'[c] = "Running" /\ Length(c)' = Length(p)
           /\ status[c] = "Unborn"
           /\ computed'[c] = computed[p] /\ text'[c] = text[p] /\ block_tables'[c] = block_tables[p]
           /\ text' = [text EXCEPT ![c] = text[p]]
<1>1. /\ Between /\ Fork(p, c) /\ UNCHANGED <<slot, appending, cache, maps, answer, executed, loop>>
      /\ text' = [text EXCEPT ![c] = text[p]] /\ computed' = [computed EXCEPT ![c] = computed[p]]
  BY DEF ForkSequence, Fork, maps, results
<1>2. /\ status[p] = "Running" /\ status[c] = "Unborn"
      /\ status' = [status EXCEPT ![c] = status[p]]
      /\ logical' = [logical EXCEPT ![c] = logical[p]]
      /\ last_fill' = [last_fill EXCEPT ![c] = last_fill[p]]
      /\ block_tables' = [block_tables EXCEPT ![c] = block_tables[p]]
  BY <1>1 DEF Fork
<1>3. /\ status \in [SeqIds -> Statuses] /\ DOMAIN logical = SeqIds /\ DOMAIN last_fill = SeqIds
      /\ DOMAIN block_tables = SeqIds /\ DOMAIN text = SeqIds /\ DOMAIN computed = SeqIds
      /\ DOMAIN status = SeqIds
  BY DEF IndInv, TypeOK, Texts
<1>4. \A q \in SeqIds : q # c => SameSequence(q)
  BY <1>1, <1>2, <1>3 DEF SameSequence
<1>5. /\ status'[c] = "Running" /\ logical'[c] = logical[p] /\ last_fill'[c] = last_fill[p]
      /\ computed'[c] = computed[p] /\ text'[c] = text[p] /\ block_tables'[c] = block_tables[p]
  BY <1>1, <1>2, <1>3
<1> QED BY <1>1, <1>2, <1>4, <1>5 DEF Length

(* A sequence that ends leaves the others alone. *)
LEMMA EndIs ==
    ASSUME IndInv, IndInv', Texts, NEW s \in SeqIds, AbortOrFinish(s)
    PROVE  /\ Between /\ UNCHANGED <<appending, maps, answer, executed, loop>>
           /\ \A q \in SeqIds : q # s => SameSequence(q)
           /\ status'[s] = "Finished" /\ computed'[s] = 0 /\ text'[s] = <<>>
           /\ text' = [text EXCEPT ![s] = <<>>]
           /\ slot'[s] = "none" \/ slot'[s] = slot[s]
           /\ cache' = Relevant(cache, free_blocks')
<1>0. err' = "none"
  BY DEF IndInv, NoOperationFails
<1>1. /\ Between /\ UNCHANGED <<maps, answer, executed, loop>>
      /\ text' = [text EXCEPT ![s] = <<>>] /\ computed' = [computed EXCEPT ![s] = 0]
      /\ cache' = Relevant(cache, free_blocks')
  BY DEF AbortOrFinish, maps, results
<1>2. /\ status' = [status EXCEPT ![s] = "Finished"] /\ UNCHANGED <<logical, last_fill, appending>>
      /\ slot' = slot \/ slot' = [slot EXCEPT ![s] = "none"]
      /\ \A q \in SeqIds : q # s => block_tables'[q] = block_tables[q]
  BY <1>0 DEF AbortOrFinish, Abort, Finish, FreeSequence, Fail, FreeTables
<1>3. DOMAIN status = SeqIds /\ DOMAIN text = SeqIds /\ DOMAIN computed = SeqIds /\ DOMAIN slot = SeqIds
  BY DEF IndInv, TypeOK, Texts
<1>4. \A q \in SeqIds : q # s => SameSequence(q)
  BY <1>1, <1>2, <1>3 DEF SameSequence
<1> QED BY <1>1, <1>2, <1>3, <1>4

(* A reset clears every sequence. *)
LEMMA ResetIs ==
    ASSUME IndInv, IndInv', ResetManager
    PROVE  /\ Between /\ UNCHANGED <<appending, maps, answer, executed, loop>>
           /\ \A s \in SeqIds : /\ status'[s] = "Unborn" /\ slot'[s] = "none" /\ computed'[s] = 0
                                /\ text'[s] = <<>>
           /\ text' = [s \in SeqIds |-> <<>>]
           /\ cache' = Relevant(cache, free_blocks')
<1>0. err' = "none"
  BY DEF IndInv, NoOperationFails
<1>1. /\ Between /\ UNCHANGED <<maps, answer, executed, loop>>
      /\ text' = [s \in SeqIds |-> <<>>] /\ computed' = [s \in SeqIds |-> 0]
      /\ cache' = Relevant(cache, free_blocks')
  BY DEF ResetManager, maps, results
<1>2. UNCHANGED appending /\ status' = [s \in SeqIds |-> "Unborn"] /\ slot' = [s \in SeqIds |-> "none"]
  BY <1>0 DEF ResetManager, Reset, Fail
<1> QED BY <1>1, <1>2

-----------------------------------------------------------------------------
(* Covered, put together *)

(* Covered is kept: blocks are given up only together with what they held. *)
LEMMA CoveredNext ==
    ASSUME Supported, IndInv, IndInv', Grouped, Pass, Texts, Texts', Kinds, Covered, Progress,
           [PagedNext]_allVars, ExecuteModel => RanModel
    PROVE  Covered'
<1> DEFINE Keeps(s) == \/ computed'[s] = 0
                       \/ computed'[s] = computed[s] /\ Len(block_tables'[s]) >= Len(block_tables[s])
<1>0. \A s \in SeqIds : Len(block_tables[s]) \in Nat
  BY DEF IndInv, TypeOK
<1>1. ASSUME \A s \in SeqIds : Keeps(s) PROVE Covered'
  BY <1>1, CoveredFrame
<1>2. ASSUME NEW s \in SeqIds, SameSequence(s) PROVE Keeps(s)
  BY <1>0, <1>2 DEF SameSequence
<1>3. ASSUME NEW g \in Groups, Prompt(g) PROVE Covered'
  <2>1. UNCHANGED <<block_tables, computed>>
    BY <1>3, PromptIs
  <2> QED BY <1>0, <1>1, <2>1
<1>4. ASSUME NEW g \in Groups, Prefill(g) PROVE Covered'
  <2>0. PICK W \in SUBSET SeqIds : Prefills(g, W)
    BY <1>4, PrefillIs
  <2>1. /\ \A q \in SeqIds : q \notin W => block_tables'[q] = block_tables[q]
        /\ \A q \in W : status[q] = "Waiting"
        /\ UNCHANGED computed
    BY <2>0 DEF Prefills, SameTexts
  <2>2. \A q \in SeqIds : Keeps(q)
    BY <1>0, <2>1 DEF Progress, ProgressOf
  <2> QED BY <1>1, <2>2
<1>5. ASSUME NEW g \in Groups, Continue(g) PROVE Covered'
  <2>1. UNCHANGED <<block_tables, computed>>
    BY <1>5, ContinueIs DEF SameTexts
  <2> QED BY <1>0, <1>1, <2>1
<1>6. ASSUME NEW g \in Groups, PreemptBySwap(g) \/ Resume(g) PROVE Covered'
  <2>1. PICK S \in SUBSET SeqIds :
            /\ UNCHANGED computed
            /\ \A q \in SeqIds : q \notin S => block_tables'[q] = block_tables[q]
            /\ \A q \in S : Len(block_tables'[q]) = Len(block_tables[q])
    BY <1>6, SwapStatus DEF SameTexts
  <2>2. \A q \in SeqIds : Keeps(q)
    BY <1>0, <2>1
  <2> QED BY <1>1, <2>2
<1>7. ASSUME NEW s \in SeqIds, AppendOne(s) PROVE Covered'
  <2>1. /\ UNCHANGED computed /\ Len(block_tables'[s]) >= Len(block_tables[s])
        /\ \A q \in SeqIds : q # s => block_tables'[q] = block_tables[q]
    BY <1>7, AppendIs DEF SameTexts
  <2>2. \A q \in SeqIds : Keeps(q)
    BY <1>0, <2>1
  <2> QED BY <1>1, <2>2
<1>8. ASSUME NEW s \in SeqIds, Recompute(s) PROVE Covered'
  <2>1. /\ computed' = [computed EXCEPT ![s] = 0]
        /\ \A q \in SeqIds : q # s => block_tables'[q] = block_tables[q]
    BY <1>8, RecomputeIs
  <2>2. \A q \in SeqIds : Keeps(q)
    BY <1>0, <2>1 DEF Texts
  <2> QED BY <1>1, <2>2
<1>9. ASSUME NEW s \in SeqIds, ProcessOutput(s) PROVE Covered'
  <2>1. UNCHANGED <<block_tables, computed>>
    BY <1>9, OutputIs
  <2> QED BY <1>0, <1>1, <2>1
<1>10. ASSUME NEW s \in SeqIds, AbortOrFinish(s) PROVE Covered'
  <2>1. computed'[s] = 0 /\ \A q \in SeqIds : q # s => SameSequence(q)
    BY <1>10, EndIs
  <2> QED BY <1>1, <1>2, <2>1
<1>11. ASSUME NEW p \in SeqIds, NEW c \in SeqIds, ForkSequence(p, c) PROVE Covered'
  <2>1. /\ computed'[c] = computed[p] /\ block_tables'[c] = block_tables[p]
        /\ \A q \in SeqIds : q # c => SameSequence(q)
    BY <1>11, ForkIs
  <2>2. \A q \in SeqIds : q # c => computed'[q] = computed[q] /\ block_tables'[q] = block_tables[q]
    BY <2>1 DEF SameSequence
  <2> QED BY <2>1, <2>2 DEF Covered
<1>12. ASSUME ResetManager PROVE Covered'
  BY <1>1, <1>12, ResetIs
<1>13. ASSUME ExecuteModel PROVE Covered'
  <2>1. /\ UNCHANGED block_tables
        /\ computed' = [s \in SeqIds |-> IF s \in Busy THEN Length(s) ELSE computed[s]]
    BY <1>13 DEF RanModel, vars
  <2>2. \A s \in Busy : Length(s) <= Len(block_tables[s]) * BlockSize
    BY LengthFits DEF Busy
  <2> QED BY <2>1, <2>2 DEF Covered
<1>14. ASSUME UNCHANGED allVars PROVE Covered'
  BY <1>14 DEF allVars, vars, worker_vars, Covered
<1> HIDE DEF Keeps
<1> QED BY <1>3, <1>4, <1>5, <1>6, <1>7, <1>8, <1>9, <1>10, <1>11, <1>12, <1>13, <1>14 DEF PagedNext

-----------------------------------------------------------------------------
(* How far a sequence has been computed *)

(* Progress of a sequence that the step does not schedule *)
LEMMA ProgressKept ==
    ASSUME NEW q \in SeqIds, ProgressOf(q), q \in appending' => q \in appending,
           status'[q] = status[q], slot'[q] = slot[q], Length(q)' = Length(q), computed'[q] = computed[q],
           slot[q] = "none" \/ executed' = executed
    PROVE  ProgressOf(q)'
BY DEF ProgressOf

(* A sequence left alone keeps its length. *)
LEMMA SameLength == ASSUME NEW q, SameSequence(q) PROVE Length(q)' = Length(q)
BY DEF SameSequence, Length

(* A step of the pass: sequences it is not about keep their progress. *)
LEMMA PassProgress ==
    ASSUME Supported, IndInv, IndInv', Grouped, Pass, Texts, Kinds, Progress,
           \/ \E g \in Groups : Prefill(g) \/ Continue(g) \/ PreemptBySwap(g) \/ Resume(g)
           \/ \E s \in SeqIds : AppendOne(s) \/ Recompute(s)
    PROVE  Progress'
<1>0. \A s \in SeqIds : computed[s] \in Nat /\ Length(s) \in Int
  <2>1. \A s \in SeqIds : computed[s] \in Nat
    BY DEF Texts
  <2>2. ASSUME NEW s \in SeqIds PROVE Length(s) \in Int
    <3>1. PICK b \in Nat : b = BlockSize
      BY SizesAssumption
    <3>2. PICK m \in Nat : m = logical[s]
      BY DEF IndInv, TypeOK
    <3>3. PICK k \in Nat : k = last_fill[s]
      BY <3>1 DEF IndInv, TypeOK
    <3> QED BY <3>1, <3>2, <3>3 DEF Length
  <2> QED BY <2>1, <2>2
<1>1. \A s \in SeqIds : ProgressOf(s)
  BY DEF Progress
<1>2. ASSUME SameTexts PROVE \A s \in SeqIds : Length(s)' = Length(s) /\ computed'[s] = computed[s]
  BY <1>2 DEF SameTexts, Length
<1>3. ASSUME NEW g \in Groups, Prefill(g) PROVE Progress'
  <2>0. PICK W \in SUBSET SeqIds : Prefills(g, W)
    BY <1>3, PrefillIs
  <2>1. /\ \A q \in SeqIds : q \notin W => slot'[q] = slot[q] /\ status'[q] = status[q]
        /\ \A q \in W : status[q] = "Waiting" /\ status'[q] = "Running" /\ slot'[q] = "prefill"
        /\ SameTexts /\ UNCHANGED executed /\ ~executed /\ appending' = {}
    BY <2>0 DEF Prefills
  <2>2. ASSUME NEW q \in SeqIds PROVE ProgressOf(q)'
    <3>1. CASE q \in W
      <4>1. computed'[q] = 0
        BY <1>1, <1>2, <2>1, <3>1 DEF ProgressOf
      <4> QED BY <2>1, <3>1, <4>1 DEF ProgressOf
    <3>2. CASE q \notin W
      BY <1>1, <1>2, <2>1, <3>2, ProgressKept
    <3> QED BY <3>1, <3>2
  <2> QED BY <2>2 DEF Progress
<1>4. ASSUME NEW g \in Groups, Continue(g) PROVE Progress'
  <2>1. /\ UNCHANGED <<status, slot, executed>> /\ SameTexts
        /\ \A s \in appending' : status[s] = "Running" /\ slot[s] = "none" /\ computed[s] < Length(s)
    BY <1>4, ContinueIs
  <2>2. ASSUME NEW q \in SeqIds PROVE ProgressOf(q)'
    <3>1. CASE q \in appending'
      <4>1. computed[q] + 1 = Length(q)
        BY <1>0, <1>1, <2>1, <3>1 DEF ProgressOf
      <4>2. computed'[q] + 1 = Length(q)' /\ status'[q] = "Running" /\ slot'[q] = "none"
        BY <1>2, <2>1, <3>1, <4>1
      <4>3. computed'[q] + 1 >= Length(q)'
        BY <1>0, <1>2, <2>1, <4>2
      <4> QED BY <4>2, <4>3 DEF ProgressOf
    <3>2. CASE q \notin appending'
      BY <1>1, <1>2, <2>1, <3>2, ProgressKept
    <3> QED BY <3>1, <3>2
  <2> QED BY <2>2 DEF Progress
<1>5. ASSUME NEW g \in Groups, PreemptBySwap(g) PROVE Progress'
  <2>1. PICK S \in SUBSET SeqIds :
            /\ SameTexts /\ UNCHANGED <<slot, executed>> /\ appending' = {}
            /\ \A q \in SeqIds : q \notin S => status'[q] = status[q]
            /\ \A q \in S : slot[q] = "none" /\ status[q] = "Running" /\ status'[q] = "Swapped" /\ computed[q] < Length(q)
    BY <1>5, SwapStatus
  <2>2. ASSUME NEW q \in SeqIds PROVE ProgressOf(q)'
    <3>1. CASE q \in S
      <4>1. computed[q] + 1 = Length(q)
        BY <1>0, <1>1, <2>1, <3>1 DEF ProgressOf
      <4>2. computed'[q] + 1 = Length(q)' /\ status'[q] = "Swapped" /\ slot'[q] = "none"
        BY <1>2, <2>1, <3>1, <4>1
      <4> QED BY <2>1, <4>2 DEF ProgressOf
    <3>2. CASE q \notin S
      BY <1>1, <1>2, <2>1, <3>2, ProgressKept
    <3> QED BY <3>1, <3>2
  <2> QED BY <2>2 DEF Progress
<1>6. ASSUME NEW g \in Groups, Resume(g) PROVE Progress'
  <2>1. PICK S \in SUBSET SeqIds :
            /\ SameTexts /\ UNCHANGED <<slot, executed>> /\ appending' = S
            /\ \A q \in SeqIds : q \notin S => status'[q] = status[q]
            /\ \A q \in S : slot[q] = "none" /\ status[q] = "Swapped" /\ status'[q] = "Running"
    BY <1>6, SwapStatus
  <2>2. ASSUME NEW q \in SeqIds PROVE ProgressOf(q)'
    <3>1. CASE q \in S
      <4>1. computed[q] + 1 = Length(q)
        BY <1>1, <2>1, <3>1 DEF ProgressOf
      <4>2. computed'[q] + 1 = Length(q)' /\ status'[q] = "Running" /\ slot'[q] = "none"
        BY <1>2, <2>1, <3>1, <4>1
      <4>3. computed'[q] + 1 >= Length(q)'
        BY <1>0, <1>2, <2>1, <4>2
      <4> QED BY <2>1, <4>2, <4>3 DEF ProgressOf
    <3>2. CASE q \notin S
      BY <1>1, <1>2, <2>1, <3>2, ProgressKept
    <3> QED BY <3>1, <3>2
  <2> QED BY <2>2 DEF Progress
<1>7. ASSUME NEW s \in SeqIds, AppendOne(s) PROVE Progress'
  <2>1. /\ UNCHANGED <<status, executed>> /\ SameTexts /\ ~executed
        /\ s \in appending /\ appending' = appending \ {s} /\ slot'[s] = "decode"
        /\ \A q \in SeqIds : q # s => slot'[q] = slot[q]
    BY <1>7, AppendIs
  <2>2. ASSUME NEW q \in SeqIds PROVE ProgressOf(q)'
    <3>1. CASE q = s
      <4>1. computed[q] + 1 = Length(q) /\ status[q] = "Running"
        BY <1>1, <2>1, <3>1 DEF ProgressOf, IndInv, AppendFits
      <4>2. computed'[q] + 1 = Length(q)' /\ status'[q] = "Running" /\ slot'[q] = "decode"
        BY <1>2, <2>1, <3>1, <4>1
      <4> QED BY <2>1, <3>1, <4>2 DEF ProgressOf
    <3>2. CASE q # s
      BY <1>1, <1>2, <2>1, <3>2, ProgressKept
    <3> QED BY <3>1, <3>2
  <2> QED BY <2>2 DEF Progress
<1>8. ASSUME NEW s \in SeqIds, Recompute(s) PROVE Progress'
  <2>1. /\ UNCHANGED <<logical, last_fill, executed, slot, appending>> /\ appending = {} /\ ~executed
        /\ status'[s] = "Waiting" /\ slot[s] = "none" /\ computed' = [computed EXCEPT ![s] = 0]
        /\ \A q \in SeqIds : q # s => status'[q] = status[q]
    BY <1>8, RecomputeIs
  <2>2. DOMAIN computed = SeqIds /\ \A q \in SeqIds : Length(q)' = Length(q)
    BY <2>1 DEF Texts, Length
  <2>3. ASSUME NEW q \in SeqIds PROVE ProgressOf(q)'
    <3>1. CASE q = s
      <4>1. computed'[q] = 0 /\ status'[q] = "Waiting" /\ slot'[q] = "none" /\ q \notin appending'
        BY <2>1, <2>2, <3>1
      <4> QED BY <4>1 DEF ProgressOf
    <3>2. CASE q # s
      <4>1. computed'[q] = computed[q]
        BY <2>1, <2>2, <3>2
      <4> QED BY <1>1, <2>1, <2>2, <3>2, <4>1, ProgressKept
    <3> QED BY <3>1, <3>2
  <2> QED BY <2>3 DEF Progress
<1> QED BY <1>3, <1>4, <1>5, <1>6, <1>7, <1>8

(* Progress is kept. *)
LEMMA ProgressNext ==
    ASSUME Supported, IndInv, IndInv', Grouped, Pass, Texts, Kinds, Progress,
           [PagedNext]_allVars, ExecuteModel => RanModel
    PROVE  Progress'
<1>0. \A s \in SeqIds : computed[s] \in Nat /\ ProgressOf(s)
  BY DEF Texts, Progress
<1>1. ASSUME NEW q \in SeqIds, SameSequence(q), appending' = appending, slot[q] = "none" \/ executed' = executed
      PROVE  ProgressOf(q)'
  BY <1>0, <1>1, ProgressKept, SameLength DEF SameSequence
<1>2. ASSUME NEW g \in Groups, Prompt(g) PROVE Progress'
  <2>1. /\ Between /\ UNCHANGED <<slot, appending, computed, executed>>
        /\ \A q \in SeqIds :
             \/ SameSequence(q)
             \/ status[q] = "Unborn" /\ status'[q] = "Waiting" /\ computed[q] = 0 /\ text[q] = <<>>
    BY <1>2, PromptIs
  <2>2. appending = {} /\ \A q \in SeqIds : slot[q] = "none"
    BY <2>1, BetweenIs
  <2>3. ASSUME NEW q \in SeqIds PROVE ProgressOf(q)'
    <3>1. CASE SameSequence(q)
      BY <1>1, <2>1, <3>1
    <3>2. CASE status'[q] = "Waiting" /\ computed[q] = 0
      BY <2>1, <2>2, <3>2 DEF ProgressOf
    <3> QED BY <2>1, <3>1, <3>2
  <2> QED BY <2>3 DEF Progress
<1>3. ASSUME NEW s \in SeqIds, ProcessOutput(s) PROVE Progress'
  <2>1. /\ executed /\ slot[s] # "none" /\ slot'[s] = "none"
        /\ UNCHANGED <<status, appending, computed>> /\ appending = {}
        /\ \A q \in SeqIds : q # s => SameSequence(q)
        /\ executed' = (\E q \in SeqIds : slot'[q] # "none")
        /\ Length(s) \in Int /\ Length(s)' \in {Length(s), Length(s) + 1}
    BY <1>3, OutputIs
  <2>2. ASSUME NEW q \in SeqIds PROVE ProgressOf(q)'
    <3>1. CASE q = s
      <4>1. status[s] = "Running" /\ computed[s] = Length(s)
        BY <1>0, <2>1 DEF IndInv, LengthsAgree, LengthOK, ProgressOf
      <4>2. computed'[s] + 1 >= Length(s)'
        BY <1>0, <2>1, <4>1
      <4> QED BY <2>1, <3>1, <4>1, <4>2 DEF ProgressOf
    <3>2. CASE q # s
      <4>1. SameSequence(q)
        BY <2>1, <3>2
      <4>2. CASE slot[q] = "none"
        BY <1>1, <2>1, <4>1, <4>2
      <4>3. CASE slot[q] # "none"
        <5>1. executed'
          BY <2>1, <4>1, <4>3 DEF SameSequence
        <5> QED BY <1>1, <2>1, <4>1, <5>1
      <4> QED BY <4>2, <4>3
    <3> QED BY <3>1, <3>2
  <2> QED BY <2>2 DEF Progress
<1>4. ASSUME NEW s \in SeqIds, AbortOrFinish(s) PROVE Progress'
  <2>1. /\ Between /\ UNCHANGED <<appending, executed>>
        /\ \A q \in SeqIds : q # s => SameSequence(q)
        /\ status'[s] = "Finished" /\ (slot'[s] = "none" \/ slot'[s] = slot[s])
    BY <1>4, EndIs
  <2>2. appending = {} /\ \A q \in SeqIds : slot[q] = "none"
    BY <2>1, BetweenIs
  <2>3. ProgressOf(s)'
    BY <2>1, <2>2 DEF ProgressOf
  <2> QED BY <1>1, <2>1, <2>3 DEF Progress
<1>5. ASSUME NEW p \in SeqIds, NEW c \in SeqIds, ForkSequence(p, c) PROVE Progress'
  <2>1. /\ Between /\ UNCHANGED <<slot, appending, executed>>
        /\ \A q \in SeqIds : q # c => SameSequence(q)
        /\ status[p] = "Running" /\ status'[c] = "Running" /\ Length(c)' = Length(p)
        /\ computed'[c] = computed[p]
    BY <1>5, ForkIs
  <2>2. appending = {} /\ \A q \in SeqIds : slot[q] = "none"
    BY <2>1, BetweenIs
  <2>3. computed'[c] + 1 >= Length(c)'
    BY <1>0, <2>1, <2>2 DEF ProgressOf
  <2>4. ProgressOf(c)'
    BY <2>1, <2>2, <2>3 DEF ProgressOf
  <2> QED BY <1>1, <2>1, <2>4 DEF Progress
<1>6. ASSUME ResetManager PROVE Progress'
  <2>1. /\ Between /\ UNCHANGED appending
        /\ \A s \in SeqIds : status'[s] = "Unborn" /\ slot'[s] = "none"
    BY <1>6, ResetIs
  <2>2. appending = {}
    BY <2>1, BetweenIs
  <2> QED BY <2>1, <2>2 DEF Progress, ProgressOf
<1>7. ASSUME ExecuteModel PROVE Progress'
  <2>1. /\ UNCHANGED <<status, slot, appending, logical, last_fill>> /\ appending = {}
        /\ ~executed /\ executed' = (Busy # {})
        /\ computed' = [s \in SeqIds |-> IF s \in Busy THEN Length(s) ELSE computed[s]]
    BY <1>7 DEF RanModel, vars
  <2>2. ASSUME NEW q \in SeqIds PROVE ProgressOf(q)'
    <3>1. CASE q \in Busy
      <4>1. status[q] = "Running" /\ slot[q] # "none" /\ executed'
        BY <2>1, <3>1 DEF Busy, IndInv, LengthsAgree, LengthOK
      <4>2. computed'[q] = Length(q)'
        BY <2>1, <3>1 DEF Length
      <4> QED BY <2>1, <4>1, <4>2 DEF ProgressOf
    <3>2. CASE q \notin Busy
      <4>1. slot[q] = "none" /\ computed'[q] = computed[q] /\ Length(q)' = Length(q)
        BY <2>1, <3>2 DEF Busy, Length
      <4> QED BY <1>0, <2>1, <4>1, ProgressKept
    <3> QED BY <3>1, <3>2
  <2> QED BY <2>2 DEF Progress
<1>8. ASSUME UNCHANGED allVars PROVE Progress'
  BY <1>8 DEF allVars, vars, worker_vars, Progress, ProgressOf, Length
<1>9. ASSUME \/ \E g \in Groups : Prefill(g) \/ Continue(g) \/ PreemptBySwap(g) \/ Resume(g)
             \/ \E s \in SeqIds : AppendOne(s) \/ Recompute(s)
      PROVE Progress'
  BY <1>9, PassProgress
<1> QED BY <1>2, <1>3, <1>4, <1>5, <1>6, <1>7, <1>8, <1>9 DEF PagedNext

-----------------------------------------------------------------------------
(* The pending answers *)

(* Answers is kept. *)
LEMMA AnswersNext ==
    ASSUME Supported, IndInv, IndInv', Grouped, Pass, Texts, Kinds, Answers,
           [PagedNext]_allVars, ExecuteModel => RanModel
    PROVE  Answers'
<1>1. ASSUME ~executed, ~executed', answer' = answer PROVE Answers'
  BY <1>1 DEF Answers
<1>2. ASSUME NEW g \in Groups, Prompt(g) PROVE ~executed /\ ~executed' /\ answer' = answer
  BY <1>2 DEF Prompt, Between, Building, results
<1>3. ASSUME NEW g \in Groups, Prefill(g) \/ Continue(g) PROVE ~executed /\ ~executed' /\ answer' = answer
  BY <1>3 DEF Prefill, Continue, EnterLoop, WorkerUnchanged, Building, results
<1>4. ASSUME NEW g \in Groups, PreemptBySwap(g) \/ Resume(g) PROVE ~executed /\ ~executed' /\ answer' = answer
  BY <1>4 DEF PreemptBySwap, Resume, EnterLoop, Building, results
<1>5. ASSUME NEW s \in SeqIds, AppendOne(s) \/ Recompute(s) PROVE ~executed /\ ~executed' /\ answer' = answer
  BY <1>5 DEF AppendOne, Recompute, EnterLoop, Building, results
<1>6. ASSUME NEW s \in SeqIds, AbortOrFinish(s) PROVE ~executed /\ ~executed' /\ answer' = answer
  BY <1>6 DEF AbortOrFinish, Between, Building, results
<1>7. ASSUME NEW p \in SeqIds, NEW c \in SeqIds, ForkSequence(p, c) PROVE ~executed /\ ~executed' /\ answer' = answer
  BY <1>7 DEF ForkSequence, Between, Building, results
<1>8. ASSUME ResetManager PROVE ~executed /\ ~executed' /\ answer' = answer
  BY <1>8 DEF ResetManager, Between, Building, results
<1>9. ASSUME NEW s \in SeqIds, ProcessOutput(s) PROVE Answers'
  <2>1. /\ executed /\ slot'[s] = "none" /\ answer' = [answer EXCEPT ![s] = Nothing]
        /\ executed' = (\E q \in SeqIds : slot'[q] # "none")
        /\ \A q \in SeqIds : q # s => SameSequence(q)
    BY <1>9, OutputIs
  <2>2. answer = [q \in SeqIds |-> IF slot[q] # "none" THEN text[q] ELSE Nothing]
    BY <2>1 DEF Answers
  <2>3. ASSUME NEW q \in SeqIds
        PROVE  answer'[q] = IF executed' /\ slot'[q] # "none" THEN text'[q] ELSE Nothing
    BY <2>1, <2>2 DEF SameSequence
  <2>4. answer' = [q \in SeqIds |-> answer'[q]]
    BY <2>1, <2>2
  <2> QED BY <2>3, <2>4 DEF Answers
<1>10. ASSUME ExecuteModel PROVE Answers'
  <2>1. /\ UNCHANGED <<slot, text>> /\ ~executed /\ executed' = (Busy # {})
        /\ answer' = [s \in SeqIds |-> IF s \in Busy THEN text[s] ELSE answer[s]]
    BY <1>10 DEF RanModel, vars
  <2>2. \A q \in SeqIds : answer[q] = Nothing
    BY <2>1 DEF Answers
  <2>3. \A q \in SeqIds : q \in Busy <=> executed' /\ slot'[q] # "none"
    BY <2>1 DEF Busy
  <2> QED BY <2>1, <2>2, <2>3 DEF Answers
<1>11. ASSUME UNCHANGED allVars PROVE Answers'
  BY <1>11 DEF allVars, vars, worker_vars, Answers
<1> QED BY <1>1, <1>2, <1>3, <1>4, <1>5, <1>6, <1>7, <1>8, <1>9, <1>10, <1>11 DEF PagedNext

-----------------------------------------------------------------------------
(* What is stored stays stored *)

(* Nothing computed, nothing to be stored *)
LEMMA NoneStored == ASSUME NEW s, computed'[s] = 0 PROVE \A i \in 1..computed'[s] : Stored(s, i)'
BY DEF Stored

(* Giving blocks up only forgets what the free ones hold. *)
LEMMA EndStored ==
    ASSUME IndInv, IndInv', Pass, Kinds, Texts, Covered, AllStored, NEW s \in SeqIds, AbortOrFinish(s)
    PROVE  AllStored'
<1>1. /\ Between /\ UNCHANGED maps
      /\ \A q \in SeqIds : q # s => SameSequence(q)
      /\ computed'[s] = 0 /\ cache' = Relevant(cache, free_blocks')
  BY EndIs
<1>2. /\ blocks_to_swap_in = Empty /\ blocks_to_swap_out = Empty /\ blocks_to_copy = Empty
      /\ blocks_to_swap_in' = Empty /\ blocks_to_swap_out' = Empty /\ blocks_to_copy' = Empty
  BY <1>1, BetweenIs DEF maps
<1>3. \A x : SourceIn(Empty, x) = x
  BY EmptyMap, SourceIs
<1>4. ASSUME NEW q \in SeqIds PROVE \A i \in 1..computed'[q] : Stored(q, i)'
  <2>1. CASE q = s
    BY <1>1, <2>1, NoneStored
  <2>2. CASE q # s
    <3>1. computed'[q] = computed[q] /\ text'[q] = text[q] /\ block_tables'[q] = block_tables[q]
      BY <1>1, <2>2 DEF SameSequence
    <3>2. ASSUME NEW i \in 1..computed[q] PROVE KeptAt(q, i)
      <4>1. PICK b : b = BlockAt(q, i)
        OBVIOUS
      <4>2. i \in Nat \ {0} /\ i <= Len(block_tables[q]) * BlockSize
        BY ComputedHeld
      <4>3. b \in Blocks /\ b \in Range(block_tables[q])
        BY <4>1, <4>2, BlockHeld
      <4>4. BlockAt(q, i)' = b
        BY <3>1, <4>1 DEF BlockAt
      <4>5. b \notin free_blocks'
        <5>1. q \in Owners(b)'
          BY <3>1, <4>3 DEF Owners
        <5>2. b \in free_blocks' <=> Owners(b)' = {}
          BY <4>3 DEF IndInv, FreeListExact, Blocks
        <5> QED BY <5>1, <5>2
      <4>6. Origin(BlockAt(q, i)) = b
        BY <1>2, <1>3, <4>1 DEF Origin
      <4>7. Origin(BlockAt(q, i))' = b
        BY <1>2, <1>3, <4>4 DEF Origin
      <4>8. \A h \in {"key", "value"} : cache'[h][b] = cache[h][b]
        BY <1>1, <4>3, <4>5 DEF Relevant
      <4> QED BY <3>1, <4>6, <4>7, <4>8 DEF KeptAt
    <3> QED BY <3>1, <3>2, StoredKept
  <2> QED BY <2>1, <2>2
<1> QED BY <1>4 DEF AllStored

(* A token more at the end changes nothing that is stored. *)
LEMMA OutputStored ==
    ASSUME IndInv, Pass, Texts, Covered, AllStored, NEW s \in SeqIds, ProcessOutput(s)
    PROVE  AllStored'
<1>1. /\ UNCHANGED <<block_tables, computed, cache, maps>>
      /\ \A q \in SeqIds : q # s => SameSequence(q)
      /\ UNCHANGED text \/ text' = [text EXCEPT ![s] = Append(text[s], s)]
  BY OutputIs
<1>2. ASSUME NEW q \in SeqIds PROVE \A i \in 1..computed'[q] : Stored(q, i)'
  <2>1. CASE text'[q] = text[q]
    BY <1>1, <2>1, StoredFrame
  <2>2. CASE text'[q] # text[q]
    <3>0. PICK A : A = SeqIds \cup Groups
      OBVIOUS
    <3>1. PICK T \in Seq(A) : T = text[s]
      BY <3>0 DEF Texts
    <3>2. q = s /\ text'[s] = Append(T, s)
      BY <1>1, <2>2, <3>1 DEF SameSequence, Texts
    <3>3. ASSUME NEW i \in 1..computed[s] PROVE KeptAt(s, i)
      <4>1. i \in Nat \ {0} /\ i <= Len(T)
        BY <3>1, ComputedHeld
      <4>2. Append(T, s)[i] = T[i]
        BY <4>1
      <4>3. SubSeq(Append(T, s), 1, i) = SubSeq(T, 1, i)
        <5>1. SubSeq(T, 1, i) = [j \in 1..i |-> T[j]]
          BY <4>1
        <5>2. SubSeq(Append(T, s), 1, i) = [j \in 1..i |-> Append(T, s)[j]]
          <6>0. s \in A
            BY <3>0
          <6>1. Append(T, s) \in Seq(A)
            BY <6>0
          <6>2. PICK U \in Seq(A) : U = Append(T, s)
            BY <6>1
          <6> QED BY <4>1, <6>2
        <5>3. \A j \in 1..i : Append(T, s)[j] = T[j]
          BY <4>1
        <5> QED BY <5>1, <5>2, <5>3
      <4>4. Origin(BlockAt(s, i))' = Origin(BlockAt(s, i))
        BY <1>1 DEF Origin, BlockAt, maps
      <4> QED BY <1>1, <3>1, <3>2, <4>2, <4>3, <4>4 DEF KeptAt
    <3> QED BY <1>1, <3>2, <3>3, StoredKept
  <2> QED BY <2>1, <2>2
<1> QED BY <1>2 DEF AllStored

(* The child finds in the parent's blocks what the parent does. *)
LEMMA ForkStored ==
    ASSUME IndInv, Texts, AllStored, NEW p \in SeqIds, NEW c \in SeqIds, ForkSequence(p, c)
    PROVE  AllStored'
<1>1. /\ UNCHANGED <<cache, maps>> /\ \A q \in SeqIds : q # c => SameSequence(q)
      /\ computed'[c] = computed[p] /\ text'[c] = text[p] /\ block_tables'[c] = block_tables[p]
  BY ForkIs
<1>2. ASSUME NEW q \in SeqIds, q # c PROVE \A i \in 1..computed'[q] : Stored(q, i)'
  <2>1. computed'[q] = computed[q] /\ text'[q] = text[q] /\ block_tables'[q] = block_tables[q]
    BY <1>1, <1>2 DEF SameSequence
  <2> QED BY <1>1, <2>1, StoredFrame
<1>3. ASSUME NEW i \in 1..computed'[c] PROVE Stored(c, i)'
  <2>1. Stored(p, i)
    BY <1>1, <1>3 DEF AllStored
  <2>2. Origin(BlockAt(c, i))' = Origin(BlockAt(p, i))
    BY <1>1 DEF Origin, BlockAt, maps
  <2> QED BY <1>1, <2>1, <2>2 DEF Stored, OffsetOf
<1> QED BY <1>2, <1>3 DEF AllStored

(* AllStored is kept by every step, given that it is by the model. *)
LEMMA StoredNext ==
    ASSUME Supported, IndInv, IndInv', Grouped, Pass, Transfers, Texts, Kinds, Covered, LeftBehind,
           SingleSources, Progress, AllStored, [PagedNext]_allVars, ExecuteModel => AllStored'
    PROVE  AllStored'
<1> DEFINE Kept(q) == \A i \in 1..computed'[q] : Stored(q, i)'
<1>0. ASSUME \A q \in SeqIds : Kept(q) PROVE AllStored'
  BY <1>0 DEF AllStored
<1>1. ASSUME NEW q \in SeqIds, UNCHANGED <<maps, cache>>, computed'[q] = computed[q],
             block_tables'[q] = block_tables[q], text'[q] = text[q]
      PROVE  Kept(q)
  BY <1>1, StoredFrame
<1>2. ASSUME NEW q \in SeqIds, computed'[q] = 0 PROVE Kept(q)
  BY <1>2, NoneStored
<1> HIDE DEF Kept
<1>3. ASSUME NEW g \in Groups, Prompt(g) PROVE AllStored'
  <2>1. /\ UNCHANGED <<block_tables, computed, cache, maps>>
        /\ \A q \in SeqIds : SameSequence(q) \/ computed[q] = 0
    BY <1>3, PromptIs
  <2>2. \A q \in SeqIds : Kept(q)
    BY <1>1, <1>2, <2>1 DEF SameSequence
  <2> QED BY <1>0, <2>2
<1>4. ASSUME NEW g \in Groups, Prefill(g) PROVE AllStored'
  <2>0. PICK W \in SUBSET SeqIds : Prefills(g, W)
    BY <1>4, PrefillIs
  <2>1. /\ \A q \in SeqIds : q \notin W => block_tables'[q] = block_tables[q]
        /\ \A q \in W : status[q] = "Waiting"
        /\ SameTexts /\ UNCHANGED <<maps, cache>>
    BY <2>0 DEF Prefills
  <2>2. \A q \in W : computed'[q] = 0
    BY <2>1 DEF SameTexts, Progress, ProgressOf
  <2>3. \A q \in SeqIds : Kept(q)
    BY <1>1, <1>2, <2>1, <2>2 DEF SameTexts
  <2> QED BY <1>0, <2>3
<1>5. ASSUME NEW g \in Groups, Continue(g) PROVE AllStored'
  <2>1. UNCHANGED <<block_tables, maps, cache>> /\ SameTexts
    BY <1>5, ContinueIs
  <2>2. \A q \in SeqIds : Kept(q)
    BY <1>1, <2>1 DEF SameTexts
  <2> QED BY <1>0, <2>2
<1>6. ASSUME NEW s \in SeqIds, Recompute(s) PROVE AllStored'
  <2>1. /\ UNCHANGED <<text, maps, cache>> /\ computed' = [computed EXCEPT ![s] = 0]
        /\ \A q \in SeqIds : q # s => block_tables'[q] = block_tables[q]
    BY <1>6, RecomputeIs
  <2>2. DOMAIN computed = SeqIds
    BY DEF Texts
  <2>3. \A q \in SeqIds : Kept(q)
    BY <1>1, <1>2, <2>1, <2>2
  <2> QED BY <1>0, <2>3
<1>7. ASSUME ResetManager PROVE AllStored'
  <2>1. \A q \in SeqIds : Kept(q)
    BY <1>2, <1>7, ResetIs
  <2> QED BY <1>0, <2>1
<1>8. ASSUME UNCHANGED allVars PROVE AllStored'
  <2>1. UNCHANGED <<block_tables, maps, cache>> /\ SameTexts
    BY <1>8 DEF allVars, vars, worker_vars, maps, SameTexts
  <2>2. \A q \in SeqIds : Kept(q)
    BY <1>1, <2>1 DEF SameTexts
  <2> QED BY <1>0, <2>2
<1> QED BY <1>3, <1>4, <1>5, <1>6, <1>7, <1>8, AppendStored, SwapOutStored, SwapInStored, EndStored,
           OutputStored, ForkStored DEF PagedNext

(* So is the shape of the cache. *)
LEMMA ShapeNext ==
    ASSUME Shape, [PagedNext]_allVars, ExecuteModel => Shape'
    PROVE  Shape'
<1>1. ASSUME UNCHANGED cache PROVE Shape'
  BY <1>1 DEF Shape
<1>2. ASSUME cache' = Relevant(cache, free_blocks') PROVE Shape'
  <2>1. ASSUME NEW h \in {"key", "value"}, NEW b \in Blocks PROVE DOMAIN cache'[h][b] = 0..(BlockSize - 1)
    <3>1. cache'[h][b] = IF b \in free_blocks' THEN Zeros ELSE cache[h][b]
      BY <1>2 DEF Relevant
    <3>2. DOMAIN Zeros = 0..(BlockSize - 1)
      BY DEF Zeros
    <3> QED BY <3>1, <3>2 DEF Shape
  <2> QED BY <2>1 DEF Shape, Blocks
<1>3. CASE \E g \in Groups : Prompt(g) \/ Prefill(g) \/ Continue(g) \/ PreemptBySwap(g) \/ Resume(g)
  BY <1>1, <1>3 DEF Prompt, Prefill, Continue, PreemptBySwap, Resume, WorkerUnchanged
<1>4. CASE \E s \in SeqIds : AppendOne(s) \/ Recompute(s) \/ ProcessOutput(s) \/ AbortOrFinish(s)
  BY <1>1, <1>2, <1>4 DEF AppendOne, Recompute, ProcessOutput, AbortOrFinish
<1>5. CASE \E p, c \in SeqIds : ForkSequence(p, c)
  BY <1>1, <1>5 DEF ForkSequence
<1>6. CASE ResetManager
  BY <1>2, <1>6 DEF ResetManager
<1>7. CASE UNCHANGED allVars
  BY <1>1, <1>7 DEF allVars, worker_vars
<1> QED BY <1>3, <1>4, <1>5, <1>6, <1>7 DEF PagedNext

-----------------------------------------------------------------------------
(* Lists of lists, entry by entry *)

(* Sums of sizes cut their total into spans. *)
LEMMA SumSpans ==
    ASSUME NEW n \in Nat, NEW f, \A k \in 1..n : f[k] \in Nat, NEW k \in 1..n
    PROVE  /\ SumOf(f, k - 1) \in Nat /\ SumOf(f, k) \in Nat
           /\ SumOf(f, k) = SumOf(f, k - 1) + f[k]
           /\ SumOf(f, k) <= SumOf(f, n)
<1>1. \A m \in 0..n : SumOf(f, m) \in Nat
  <2> TAKE m \in 0..n
  <2>1. m \in Nat /\ \A i \in 1..m : f[i] \in Nat
    OBVIOUS
  <2> QED BY <2>1, SumNat
<1>2. k - 1 \in Nat /\ k - 1 \in 0..n /\ k \in 0..n /\ (k - 1) + 1 = k
  OBVIOUS
<1>3. SumOf(f, k) = SumOf(f, k - 1) + f[k]
  BY <1>2, SumStep
<1> DEFINE T == {m \in 0..n : m < k \/ SumOf(f, k) <= SumOf(f, m)}
<1>4. 0 \in T
  OBVIOUS
<1>5. ASSUME NEW m \in T, m < n PROVE m + 1 \in T
  <2>1. m \in Nat /\ m \in 0..n /\ m + 1 \in 0..n /\ m + 1 \in 1..n
    BY <1>5
  <2>2. SumOf(f, m + 1) = SumOf(f, m) + f[m + 1] /\ f[m + 1] \in Nat
    BY <2>1, SumStep
  <2>3. SumOf(f, m) \in Nat /\ SumOf(f, m + 1) \in Nat /\ SumOf(f, k) \in Nat
    BY <1>1, <1>2, <2>1
  <2>4. CASE m + 1 < k
    BY <2>1, <2>4
  <2>5. CASE m + 1 = k
    BY <2>1, <2>3, <2>5
  <2>6. CASE m >= k
    <3>1. SumOf(f, k) <= SumOf(f, m)
      BY <2>1, <2>6
    <3> QED BY <2>1, <2>2, <2>3, <3>1
  <2> QED BY <2>1, <2>4, <2>5, <2>6
<1> HIDE DEF T
<1>6. n \in T
  <2>1. T \subseteq 0..n
    BY DEF T
  <2> QED BY <1>4, <1>5, <2>1, UpTo
<1>7. SumOf(f, k) <= SumOf(f, n)
  BY <1>6 DEF T
<1> QED BY <1>1, <1>2, <1>3, <1>7

(* Every number up to the total is in a span. *)
LEMMA SumSplit ==
    ASSUME NEW n \in Nat, NEW f, \A k \in 1..n : f[k] \in Nat, NEW r \in 1..SumOf(f, n)
    PROVE  \E k \in 1..n : \E j \in 1..f[k] : r = SumOf(f, k - 1) + j
<1> DEFINE In(k) == \E j \in 1..f[k] : r = SumOf(f, k - 1) + j
           T == {m \in 0..n : r <= SumOf(f, m) => \E k \in 1..n : In(k)}
<1>0. r \in Nat \ {0}
  <2>1. SumOf(f, n) \in Nat
    BY SumNat
  <2> QED BY <2>1
<1>1. 0 \in T
  <2>1. SumOf(f, 0) = 0
    BY SumStep
  <2> QED BY <1>0, <2>1
<1>2. ASSUME NEW m \in T, m < n PROVE m + 1 \in T
  <2>1. m + 1 \in 0..n /\ m + 1 \in 1..n /\ (m + 1) - 1 = m
    BY <1>2
  <2>2. /\ SumOf(f, m) \in Nat /\ SumOf(f, m + 1) \in Nat /\ f[m + 1] \in Nat
        /\ SumOf(f, m + 1) = SumOf(f, m) + f[m + 1]
    BY <2>1, SumSpans
  <2>3. ASSUME r <= SumOf(f, m + 1) PROVE \E k \in 1..n : In(k)
    <3>1. CASE r <= SumOf(f, m)
      BY <3>1
    <3>2. CASE ~(r <= SumOf(f, m))
      <4>1. PICK j \in 1..f[m + 1] : r = SumOf(f, m) + j
        <5>1. r - SumOf(f, m) \in 1..f[m + 1] /\ r = SumOf(f, m) + (r - SumOf(f, m))
          BY <1>0, <2>2, <2>3, <3>2
        <5> QED BY <5>1
      <4>2. In(m + 1)
        BY <2>1, <4>1
      <4> QED BY <2>1, <4>2
    <3> QED BY <3>1, <3>2
  <2> HIDE DEF In
  <2> QED BY <2>1, <2>3
<1> HIDE DEF T
<1>3. n \in T
  <2>1. T \subseteq 0..n
    BY DEF T
  <2> QED BY <1>1, <1>2, <2>1, UpTo
<1> QED BY <1>0, <1>3 DEF T

(* Where an entry of a list is after flattening *)
LEMMA FlattenAt ==
    ASSUME NEW L, NEW n, NEW A, NEW lens, ListOfLists(L, n, A, lens)
    PROVE  \A k \in 1..n : \A j \in 1..lens[k] : FlattenSeq(L)[SumOf(lens, k - 1) + j] = L[k][j]
<1> SUFFICES ASSUME NEW k \in 1..n, NEW j \in 1..lens[k]
             PROVE  FlattenSeq(L)[SumOf(lens, k - 1) + j] = L[k][j]
  OBVIOUS
<1>0. /\ n \in Nat \ {0} /\ Len(L) = n
      /\ \A i \in 1..n : L[i] \in Seq(A) /\ lens[i] = Len(L[i]) /\ lens[i] \in Nat
  BY DEF ListOfLists
<1>1. PICK g : IsFlat(g, L, n) /\ FlattenSeq(L) = g[n]
  BY <1>0, FlatDef
<1>2. \A m \in 1..n : g[m] = IF m = 1 THEN L[m] ELSE g[m - 1] \o L[m]
  BY <1>1 DEF IsFlat
<1> DEFINE at == SumOf(lens, k - 1) + j
           Ok(m) == /\ g[m] \in Seq(A) /\ Len(g[m]) = SumOf(lens, m)
                    /\ k <= m => g[m][at] = L[k][j]
           T == {m \in 0..n : m = 0 \/ Ok(m)}
<1>3. /\ SumOf(lens, k - 1) \in Nat /\ SumOf(lens, k) \in Nat
      /\ SumOf(lens, k) = SumOf(lens, k - 1) + lens[k] /\ lens[k] \in Nat
  BY <1>0, SumSpans
<1>4. at \in Nat \ {0} /\ at <= SumOf(lens, k) /\ at > SumOf(lens, k - 1)
  BY <1>3
<1> HIDE DEF at
<1>5. 0 \in T
  BY <1>0
<1>6. ASSUME NEW m \in T, m < n PROVE m + 1 \in T
  <2>1. m + 1 \in 0..n /\ m + 1 \in 1..n /\ (m + 1) - 1 = m /\ m \in Nat
    BY <1>0, <1>6
  <2>2. SumOf(lens, 0) = 0 /\ SumOf(lens, m + 1) = SumOf(lens, m) + Len(L[m + 1])
    BY <1>0, <2>1, SumStep
  <2>3. CASE m = 0
    <3>1. g[m + 1] = L[m + 1] /\ L[m + 1] \in Seq(A)
      BY <1>0, <1>2, <2>1, <2>3
    <3>2. Len(g[m + 1]) = SumOf(lens, m + 1)
      BY <2>2, <2>3, <3>1
    <3>3. ASSUME k <= m + 1 PROVE g[m + 1][at] = L[k][j]
      <4>1. k = m + 1 /\ k - 1 = 0
        BY <2>3, <3>3
      <4>2. at = j
        BY <2>2, <4>1 DEF at
      <4> QED BY <3>1, <4>1, <4>2
    <3> QED BY <2>1, <3>1, <3>2, <3>3
  <2>4. CASE m # 0
    <3>1. Ok(m)
      BY <2>4
    <3>2. PICK p \in Seq(A) : p = g[m]
      BY <3>1
    <3>3. PICK q \in Seq(A) : q = L[m + 1]
      BY <1>0, <2>1
    <3>4. g[m + 1] = p \o q
      <4>1. m + 1 # 1
        BY <2>1, <2>4
      <4>2. g[m + 1] = g[(m + 1) - 1] \o L[m + 1]
        BY <1>2, <2>1, <4>1
      <4> QED BY <2>1, <3>2, <3>3, <4>2
    <3>5. p \o q \in Seq(A) /\ Len(p \o q) = Len(p) + Len(q)
      BY ConcatList
    <3>6. Len(g[m + 1]) = SumOf(lens, m + 1)
      BY <2>2, <3>1, <3>2, <3>3, <3>4, <3>5
    <3>7. ASSUME k <= m + 1 PROVE g[m + 1][at] = L[k][j]
      <4>1. CASE k = m + 1
        <5>1. SumOf(lens, k - 1) = Len(p)
          BY <2>1, <3>1, <3>2, <4>1
        <5>2. at = Len(p) + j /\ j \in 1..Len(q)
          BY <1>0, <3>3, <4>1, <5>1 DEF at
        <5>3. (p \o q)[at] = q[j]
          BY <5>2
        <5> QED BY <3>3, <3>4, <4>1, <5>3
      <4>2. CASE k <= m
        <5>1. p[at] = L[k][j]
          BY <3>1, <3>2, <4>2
        <5>2. at <= Len(p)
          <6>1. m \in 1..n /\ k \in 1..m
            BY <2>1, <2>4, <4>2
          <6>2. \A i \in 1..m : lens[i] \in Nat
            BY <1>0, <6>1
          <6>3. SumOf(lens, k) <= SumOf(lens, m)
            BY <2>1, <6>1, <6>2, SumSpans
          <6> QED BY <1>3, <1>4, <3>1, <3>2, <6>3
        <5>3. (p \o q)[at] = p[at]
          BY <1>4, <5>2
        <5> QED BY <3>4, <5>1, <5>3
      <4> QED BY <2>1, <3>7, <4>1, <4>2
    <3> QED BY <2>1, <3>4, <3>5, <3>6, <3>7
  <2> QED BY <2>3, <2>4
<1> HIDE DEF T
<1>7. n \in T
  <2>1. T \subseteq 0..n
    BY DEF T
  <2> QED BY <1>0, <1>5, <1>6, <2>1, UpTo
<1>8. g[n][at] = L[k][j]
  BY <1>0, <1>7 DEF T
<1> QED BY <1>1, <1>8 DEF at

(* n lists and their lengths *)
Lists(L, n, lens) ==
    /\ n \in Nat \ {0} /\ Len(L) = n
    /\ \A i \in 1..n : lens[i] \in Nat /\ Len(L[i]) = lens[i] /\ \E A : L[i] \in Seq(A)

(* What flattening does to the entries, whatever the lists hold *)
LEMMA FlattenEntries ==
    ASSUME NEW L, NEW n, NEW lens, Lists(L, n, lens)
    PROVE  /\ FlattenSeq(L) \in Seq(Range(FlattenSeq(L))) /\ Len(FlattenSeq(L)) = SumOf(lens, n)
           /\ \A k \in 1..n : \A j \in 1..lens[k] : FlattenSeq(L)[SumOf(lens, k - 1) + j] = L[k][j]
<1>0. /\ n \in Nat \ {0} /\ Len(L) = n
      /\ \A i \in 1..n : lens[i] \in Nat /\ Len(L[i]) = lens[i] /\ \E A : L[i] \in Seq(A)
  BY DEF Lists
<1> DEFINE A == UNION {Range(L[i]) : i \in 1..n}
<1>1. ASSUME NEW i \in 1..n PROVE L[i] \in Seq(A)
  <2>1. PICK B : L[i] \in Seq(B)
    BY <1>0
  <2>2. PICK l \in Seq(B) : l = L[i]
    BY <2>1
  <2>3. \A j \in 1..Len(l) : l[j] \in Range(l)
    BY DEF Range
  <2>4. \A j \in 1..Len(l) : l[j] \in A
    BY <2>2, <2>3
  <2> HIDE DEF A
  <2>5. PICK k \in Nat : k = Len(l) /\ l \in [1..k -> B]
    OBVIOUS
  <2>6. l \in [1..k -> A]
    BY <2>4, <2>5
  <2>7. l \in Seq(A)
    BY <2>5, <2>6
  <2> QED BY <2>2, <2>7
<1> HIDE DEF A
<1>2. ListOfLists(L, n, A, lens)
  BY <1>0, <1>1 DEF ListOfLists
<1>3. FlattenSeq(L) \in Seq(A) /\ Len(FlattenSeq(L)) = SumOf(lens, n)
  BY <1>2, Flatten
<1>4. PICK l \in Seq(A) : l = FlattenSeq(L)
  BY <1>3
<1>5. l \in Seq(Range(l))
  <2>1. PICK k \in Nat : k = Len(l) /\ l \in [1..k -> A]
    OBVIOUS
  <2>2. l = [i \in 1..k |-> l[i]]
    BY <2>1
  <2> QED BY <2>2, ListOfValues
<1>6. \A k \in 1..n : \A j \in 1..lens[k] : FlattenSeq(L)[SumOf(lens, k - 1) + j] = L[k][j]
  BY <1>2, FlattenAt
<1> QED BY <1>3, <1>4, <1>5, <1>6

(* The last block of a sequence holds a token. *)
Filled == \A s \in SeqIds : status[s] # "Unborn" => last_fill[s] >= 1

(* Filled is kept. *)
LEMMA FilledNext ==
    ASSUME Supported, IndInv, IndInv', Grouped, Pass, Texts, Filled, [PagedNext]_allVars
    PROVE  Filled'
<1> DEFINE Keeps(s) == status'[s] # "Unborn" => status[s] # "Unborn" /\ last_fill'[s] = last_fill[s]
<1>1. ASSUME \A s \in SeqIds : Keeps(s) PROVE Filled'
  BY <1>1 DEF Filled
<1>2. ASSUME NEW s \in SeqIds, SameSequence(s) PROVE Keeps(s)
  BY <1>2 DEF SameSequence
<1>3. ASSUME NEW g \in Groups, Prompt(g) PROVE Filled'
  <2>0. PICK S \in SUBSET Members(g), n \in 1..MaxLogicalBlocks, k \in 1..BlockSize : Starts(S, n, k)
    BY <1>3, NewGroupIs
  <2>1. /\ status' = [s \in SeqIds |-> IF s \in S THEN "Waiting" ELSE status[s]]
        /\ last_fill' = [s \in SeqIds |-> IF s \in S THEN k ELSE last_fill[s]]
    BY <2>0 DEF Starts
  <2>2. k >= 1
    BY SizesAssumption
  <2> QED BY <2>1, <2>2 DEF Filled
<1>4. ASSUME NEW g \in Groups, Prefill(g) PROVE Filled'
  <2>0. PICK W \in SUBSET SeqIds : Prefills(g, W)
    BY <1>4, PrefillIs
  <2>1. /\ \A q \in SeqIds : q \notin W => status'[q] = status[q]
        /\ \A q \in W : status[q] = "Waiting"
        /\ UNCHANGED last_fill
    BY <2>0 DEF Prefills, SameTexts
  <2>2. \A q \in SeqIds : Keeps(q)
    BY <2>1
  <2> QED BY <1>1, <2>2
<1>5. ASSUME NEW g \in Groups, Continue(g) PROVE Filled'
  <2>1. UNCHANGED <<status, last_fill>>
    BY <1>5, ContinueIs DEF SameTexts
  <2> QED BY <1>1, <2>1
<1>6. ASSUME NEW g \in Groups, PreemptBySwap(g) \/ Resume(g) PROVE Filled'
  <2>1. PICK S \in SUBSET SeqIds :
            /\ UNCHANGED last_fill
            /\ \A q \in SeqIds : q \notin S => status'[q] = status[q]
            /\ \A q \in S : status[q] # "Unborn"
    BY <1>6, SwapStatus DEF SameTexts
  <2>2. \A q \in SeqIds : Keeps(q)
    BY <2>1
  <2> QED BY <1>1, <2>2
<1>7. ASSUME NEW s \in SeqIds, AppendOne(s) PROVE Filled'
  <2>1. UNCHANGED <<status, last_fill>>
    BY <1>7, AppendIs DEF SameTexts
  <2> QED BY <1>1, <2>1
<1>8. ASSUME NEW s \in SeqIds, Recompute(s) PROVE Filled'
  <2>1. UNCHANGED last_fill /\ status[s] = "Running" /\ \A q \in SeqIds : q # s => status'[q] = status[q]
    BY <1>8, RecomputeIs
  <2>2. \A q \in SeqIds : Keeps(q)
    BY <2>1
  <2> QED BY <1>1, <2>2
<1>9. ASSUME NEW s \in SeqIds, ProcessOutput(s) PROVE Filled'
  <2>1. UNCHANGED status /\ \A q \in SeqIds : q # s => SameSequence(q)
    BY <1>9, OutputIs
  <2>2. /\ last_fill \in [SeqIds -> 0..BlockSize] /\ BlockSize \in Nat \ {0}
        /\ \/ last_fill' = [last_fill EXCEPT ![s] = @ + 1]
           \/ last_fill' = [last_fill EXCEPT ![s] = 1]
           \/ UNCHANGED last_fill
    BY <1>9, SizesAssumption DEF ProcessOutput, AddTokenId, IndInv, TypeOK
  <2>3. last_fill'[s] >= 1 \/ last_fill'[s] = last_fill[s]
    BY <2>2
  <2>4. \A q \in SeqIds : q # s => last_fill'[q] = last_fill[q]
    BY <2>1 DEF SameSequence
  <2> QED BY <2>1, <2>3, <2>4 DEF Filled
<1>10. ASSUME NEW s \in SeqIds, AbortOrFinish(s) PROVE Filled'
  <2>1. \A q \in SeqIds : q # s => SameSequence(q)
    BY <1>10, EndIs
  <2>2. UNCHANGED last_fill /\ status[s] # "Unborn"
    <3>1. err' = "none"
      BY DEF IndInv, NoOperationFails
    <3> QED BY <1>10, <3>1 DEF AbortOrFinish, Abort, Finish, FreeSequence, Fail
  <2> QED BY <1>1, <1>2, <2>1, <2>2
<1>11. ASSUME NEW p \in SeqIds, NEW c \in SeqIds, ForkSequence(p, c) PROVE Filled'
  <2>1. /\ status[p] = "Running" /\ \A q \in SeqIds : q # c => SameSequence(q)
    BY <1>11, ForkIs
  <2>2. last_fill'[c] = last_fill[p]
    BY <1>11 DEF ForkSequence, Fork, IndInv, TypeOK
  <2>3. \A q \in SeqIds : q # c => Keeps(q)
    BY <1>2, <2>1
  <2> QED BY <2>1, <2>2, <2>3 DEF Filled
<1>12. ASSUME ResetManager PROVE Filled'
  BY <1>1, <1>12, ResetIs
<1>13. ASSUME ExecuteModel \/ UNCHANGED allVars PROVE Filled'
  <2>1. UNCHANGED <<status, last_fill>>
    BY <1>13 DEF ExecuteModel, allVars, vars
  <2> QED BY <1>1, <2>1
<1> HIDE DEF Keeps
<1> QED BY <1>3, <1>4, <1>5, <1>6, <1>7, <1>8, <1>9, <1>10, <1>11, <1>12, <1>13 DEF PagedNext

-----------------------------------------------------------------------------
(* The rows of the batch: which token of which sequence each of them is *)

(* The batch is about to run. *)
Ready ==
    /\ IndInv /\ Grouped /\ Pass /\ Texts /\ Kinds
    /\ Progress /\ Covered /\ Filled /\ PromptsAlone
    /\ worker_err = "none" /\ ~executed /\ loop # "none"

(* The tokens the model still has to compute *)
Remaining(s) == Len(text[s]) - computed[s]

(* What is known of a sequence in the batch *)
LEMMA BusyIs ==
    ASSUME Ready, NEW s \in Busy
    PROVE  /\ s \in SeqIds /\ status[s] = "Running" /\ text[s] \in Seq(SeqIds \cup Groups)
           /\ computed[s] \in Nat /\ Len(text[s]) \in Nat /\ computed[s] < Len(text[s])
           /\ Len(text[s]) = Length(s) /\ Len(text[s]) <= Len(block_tables[s]) * BlockSize
           /\ Remaining(s) \in Nat \ {0}
           /\ slot[s] = "prefill" => computed[s] = 0
           /\ slot[s] = "decode" => computed[s] + 1 = Len(text[s])
           /\ slot[s] \in {"prefill", "decode"}
           /\ slot[s] = "decode" => \A t \in Busy : slot[t] = "decode"
           /\ slot[s] = "prefill" => \A t \in Busy : slot[t] = "prefill"
<1>0. /\ IndInv /\ Pass /\ Texts /\ Kinds /\ Progress /\ ~executed /\ loop # "none"
  BY DEF Ready
<1>1. s \in SeqIds /\ status[s] = "Running" /\ slot[s] # "none"
  BY <1>0 DEF Busy, IndInv, LengthsAgree, LengthOK
<1>2. /\ text[s] \in Seq(SeqIds \cup Groups) /\ computed[s] \in Nat /\ Len(text[s]) \in Nat
      /\ computed[s] <= Len(text[s]) /\ Len(text[s]) = Length(s) /\ Length(s) >= MinPromptTokens
  BY <1>0, <1>1 DEF Texts, TextOK, Live
<1>3. Length(s) <= Len(block_tables[s]) * BlockSize
  BY <1>0, <1>1, LengthFits
<1>4. /\ slot[s] \in {"prefill", "decode"}
      /\ slot[s] = "decode" => \A t \in Busy : slot[t] = "decode"
      /\ slot[s] = "prefill" => \A t \in Busy : slot[t] = "prefill"
  <2>1. loop \in {"prefills", "running", "swapped"}
    BY <1>0 DEF Pass, Loops
  <2>2. CASE loop = "prefills"
    <3>1. \A t \in Busy : slot[t] = "prefill"
      BY <1>0, <2>2 DEF Kinds
    <3> QED BY <3>1
  <2>3. CASE loop \in {"running", "swapped"}
    <3>1. \A t \in Busy : slot[t] = "decode"
      BY <1>0, <2>3 DEF Kinds
    <3> QED BY <3>1
  <2> QED BY <2>1, <2>2, <2>3
<1>5. /\ slot[s] = "prefill" => computed[s] = 0
      /\ slot[s] = "decode" => computed[s] + 1 = Len(text[s])
  BY <1>0, <1>1, <1>2 DEF Progress, ProgressOf
<1>6. MinPromptTokens \in Nat \ {0}
  BY WorkerAssumption
<1>7. computed[s] < Len(text[s])
  BY <1>2, <1>4, <1>5, <1>6
<1> QED BY <1>1, <1>2, <1>3, <1>4, <1>5, <1>7 DEF Remaining

(* The rows of s start at the first token it has not computed. *)
RowsOf(m, q, s) ==
    \A j \in 1..Remaining(s) :
        /\ InputTokens(m, q)[j] = text[s][computed[s] + j]
        /\ InputPositions(m, q)[j] = computed[s] + j - 1
        /\ SlotMapping(m, q)[j] = SlotOf(block_tables[s], computed[s] + j - 1)

(* A sequence contributes a row for each token it has not computed. *)
LEMMA RowIs ==
    ASSUME Ready, NEW s \in Busy, NEW m, ListsSequence(m, s)
    PROVE  /\ m.is_prompt <=> slot[s] = "prefill"
           /\ SequenceLength(m, Entry(s)) = Len(text[s])
           /\ RowFits(m, Entry(s), Remaining(s))
           /\ RowsOf(m, Entry(s), s)
           /\ ~m.is_prompt => TableOf(m, Entry(s)) = block_tables[s]
<1> DEFINE q == Entry(s)
<1>0. IndInv /\ Texts /\ Kinds /\ worker_err = "none"
  BY DEF Ready
<1>1. PICK t \in Seq(SeqIds \cup Groups) : t = text[s]
  BY BusyIs
<1>2. PICK c \in Nat : c = computed[s] /\ c < Len(t)
  BY <1>1, BusyIs
<1>3. q.tokens = t /\ q.computed = c /\ q.table = block_tables[s]
  BY <1>1, <1>2 DEF Entry
<1>4. PICK n \in Nat \ {0} : n = Len(t) - c /\ n = Remaining(s)
  BY <1>1, <1>2 DEF Remaining
<1> HIDE DEF q
<1>5. ASSUME ContextLength(m, q) = c, SequenceLength(m, q) = Len(t),
             \A j \in 1..n : InputTokens(m, q)[j] = t[c + j]
      PROVE  RowsOf(m, q, s)
  <2>1. InputPositions(m, q) = [i \in 1..n |-> c + i - 1]
    BY <1>4, <1>5 DEF InputPositions
  <2>2. SlotMapping(m, q) = [i \in 1..n |-> SlotOf(q.table, InputPositions(m, q)[i])]
    BY <2>1 DEF SlotMapping
  <2>3. ASSUME NEW j \in 1..n
        PROVE  /\ InputTokens(m, q)[j] = text[s][computed[s] + j]
               /\ InputPositions(m, q)[j] = computed[s] + j - 1
               /\ SlotMapping(m, q)[j] = SlotOf(block_tables[s], computed[s] + j - 1)
    BY <1>1, <1>2, <1>3, <1>5, <2>1, <2>2
  <2> QED BY <1>4, <2>3 DEF RowsOf
<1>6. CASE slot[s] = "prefill"
  <2>1. /\ m.is_prompt /\ SequenceLength(m, q) = Len(t) /\ RowFits(m, q, n)
    BY <1>0, <1>1, <1>2, <1>4, <1>6, PromptRow DEF q
  <2>2. ContextLength(m, q) = c
    BY <1>3, <2>1 DEF ContextLength
  <2>3. InputTokens(m, q) = SubSeq(t, c + 1, Len(t))
    BY <1>3, <2>1, <2>2 DEF InputTokens
  <2>4. \A j \in 1..n : InputTokens(m, q)[j] = t[c + j]
    <3> TAKE j \in 1..n
    <3>1. c + 1 \in 1..(Len(t) + 1) /\ Len(t) \in c..Len(t)
      BY <1>2
    <3>2. PICK d \in Nat : d = Len(t)
      OBVIOUS
    <3>3. PICK e \in Nat \ {0} : e = c + 1
      OBVIOUS
    <3>4. j \in 1..(d - e + 1) /\ e + j - 1 = c + j /\ e <= d /\ j \in 1..(1 + d - e)
      BY <1>2, <1>4, <3>2, <3>3
    <3>5. SubSeq(t, e, d) = [i \in 1..(1 + d - e) |-> t[i + e - 1]]
      BY <3>2, <3>3, <3>4
    <3>6. SubSeq(t, e, d)[j] = t[c + j]
      BY <3>4, <3>5
    <3> QED BY <2>3, <3>2, <3>3, <3>6
  <2> QED BY <1>1, <1>4, <1>5, <1>6, <2>1, <2>2, <2>4 DEF q
<1>7. CASE slot[s] = "decode"
  <2>1. \A u \in Busy : slot[u] = "decode"
    BY <1>7, BusyIs
  <2>2. ~m.is_prompt /\ RowFits(m, q, 1) /\ TableOf(m, q) = block_tables[s]
    BY <1>0, <2>1, DecodeRow DEF q
  <2>3. c + 1 = Len(t) /\ n = 1
    BY <1>1, <1>2, <1>4, <1>7, BusyIs
  <2>4. ContextLength(m, q) = c
    BY <1>2, <1>3, <2>2, <2>3 DEF ContextLength
  <2>5. m.token_chunk_size = 1
    BY <2>2 DEF ListsSequence
  <2>6. SequenceLength(m, q) = Len(t)
    BY <1>2, <1>3, <2>3, <2>4, <2>5 DEF SequenceLength
  <2>7. InputTokens(m, q) = <<t[Len(t)]>>
    BY <1>3, <2>2 DEF InputTokens
  <2>8. \A j \in 1..n : InputTokens(m, q)[j] = t[c + j]
    BY <2>3, <2>7
  <2> QED BY <1>1, <1>4, <1>5, <1>7, <2>2, <2>3, <2>4, <2>6, <2>8 DEF q
<1> QED BY <1>6, <1>7, BusyIs

(* The rows of the sequences lie one after the other. *)
LaidOut(in, n, ids, lens) ==
    /\ n \in Nat \ {0} /\ ids \in [1..n -> Busy] /\ \A s \in Busy : \E k \in 1..n : ids[k] = s
    /\ \A k \in 1..n : lens[k] = Remaining(ids[k])
    /\ Len(in.tokens) = SumOf(lens, n)
    /\ DOMAIN in.tokens = 1..SumOf(lens, n) /\ DOMAIN in.slot_mapping = 1..SumOf(lens, n)
    /\ in.query_start_loc = [k \in 1..(n + 1) |-> SumOf(lens, k - 1)]

(* Row r is the i-th token of s. *)
RowAt(in, r, s, i) ==
    /\ in.tokens[r] = text[s][i]
    /\ in.positions[r] = i - 1
    /\ in.slot_mapping[r] = SlotOf(block_tables[s], i - 1)

(* The rows of the batch are those of its sequences, one after the other. *)
RowsMatch(in, n, ids, lens) ==
    \A k \in 1..n : \A j \in 1..lens[k] :
        RowAt(in, SumOf(lens, k - 1) + j, ids[k], computed[ids[k]] + j)

(* prepare_input_tensors lays a batch out so, whatever the order of its HashMaps. *)
LEMMA Layout ==
    ASSUME Ready, Busy # {}, NEW batch \in Batches, NEW in, in = PrepareInputTensors(batch)
    PROVE  \E n, ids, lens :
              /\ LaidOut(in, n, ids, lens) /\ RowsMatch(in, n, ids, lens)
              /\ Len(Flat(batch)) = n /\ NumSequences(batch) = n
              /\ \A k \in 1..n : Flat(batch)[k][2] = Entry(ids[k]) /\ ListsSequence(Flat(batch)[k][1], ids[k])
<1>1. PICK F : F = Flat(batch)
  OBVIOUS
<1>2. PICK n \in Nat \ {0} : n = NumSequences(batch) /\ Len(F) = n
  BY <1>1, FlatLists
<1>3. TensorsOf(in, F)
  BY <1>1, Tensors
<1> DEFINE ids == [k \in 1..n |-> F[k][2].id]
           lens == QueryRows(F)
<1>4. ASSUME NEW k \in 1..n
      PROVE  ids[k] \in Busy /\ F[k][2] = Entry(ids[k]) /\ ListsSequence(F[k][1], ids[k])
  <2>1. PICK s \in Busy : F[k][2] = Entry(s) /\ ListsSequence(F[k][1], s)
    BY <1>1, <1>2, FlatLists
  <2>2. ids[k] = s
    BY <2>1 DEF Entry
  <2> QED BY <2>1, <2>2
<1>5. ASSUME NEW s \in Busy PROVE \E k \in 1..n : ids[k] = s
  <2>1. PICK k \in 1..n : F[k][2] = Entry(s)
    BY <1>1, <1>2, FlatLists
  <2> QED BY <2>1 DEF Entry
<1>6. ids \in [1..n -> Busy]
  BY <1>4
<1>7. lens = [k \in 1..n |-> QueryLength(F[k][1], F[k][2])]
  BY <1>2 DEF QueryRows
<1> HIDE DEF ids, lens
<1>8. ASSUME NEW k \in 1..n
      PROVE  /\ RowFits(F[k][1], F[k][2], Remaining(ids[k])) /\ lens[k] = Remaining(ids[k])
             /\ RowsOf(F[k][1], F[k][2], ids[k]) /\ lens[k] \in Nat
  <2>1. RowFits(F[k][1], F[k][2], Remaining(ids[k])) /\ RowsOf(F[k][1], F[k][2], ids[k])
    BY <1>4, RowIs
  <2> QED BY <1>7, <2>1 DEF RowFits
<1>9. PICK R \in Nat : R = SumOf(lens, n)
  BY <1>8, SumNat
<1>10. ASSUME NEW L, L = TokenRows(F) \/ L = PositionRows(F) \/ L = SlotRows(F)
       PROVE  /\ FlattenSeq(L) \in Seq(Range(FlattenSeq(L))) /\ Len(FlattenSeq(L)) = R
              /\ \A k \in 1..n : \A j \in 1..lens[k] : FlattenSeq(L)[SumOf(lens, k - 1) + j] = L[k][j]
  <2>1. Len(L) = n
    BY <1>2, <1>10 DEF TokenRows, PositionRows, SlotRows
  <2>2. ASSUME NEW k \in 1..n PROVE lens[k] \in Nat /\ Len(L[k]) = lens[k] /\ \E A : L[k] \in Seq(A)
    <3>1. RowFits(F[k][1], F[k][2], lens[k])
      BY <1>8
    <3> QED BY <1>2, <1>10, <3>1 DEF RowFits, TokenRows, PositionRows, SlotRows
  <2>3. \A k \in 1..n : lens[k] \in Nat /\ Len(L[k]) = lens[k] /\ \E A : L[k] \in Seq(A)
    BY <2>2
  <2>4. /\ FlattenSeq(L) \in Seq(Range(FlattenSeq(L))) /\ Len(FlattenSeq(L)) = SumOf(lens, n)
        /\ \A k \in 1..n : \A j \in 1..lens[k] : FlattenSeq(L)[SumOf(lens, k - 1) + j] = L[k][j]
    <3>1. Lists(L, n, lens)
      BY <2>1, <2>3 DEF Lists
    <3> QED BY <3>1, FlattenEntries
  <2> QED BY <1>9, <2>4
<1>11. DOMAIN in.tokens = 1..R /\ DOMAIN in.slot_mapping = 1..R /\ Len(in.tokens) = R
  <2>1. PICK a : a = in.tokens
    OBVIOUS
  <2>2. PICK b : b = in.slot_mapping
    OBVIOUS
  <2>3. a \in Seq(Range(a)) /\ Len(a) = R /\ b \in Seq(Range(b)) /\ Len(b) = R
    BY <1>3, <1>10, <2>1, <2>2 DEF TensorsOf
  <2> QED BY <2>1, <2>2, <2>3
<1>12. in.query_start_loc = [k \in 1..(n + 1) |-> SumOf(lens, k - 1)]
  <2>1. Len(lens) = n
    BY <1>7
  <2> QED BY <1>3, <2>1 DEF TensorsOf, lens, StartLocations
<1>13. LaidOut(in, n, ids, lens)
  BY <1>5, <1>6, <1>8, <1>9, <1>11, <1>12 DEF LaidOut
<1>14. ASSUME NEW k \in 1..n, NEW j \in 1..lens[k]
       PROVE  RowAt(in, SumOf(lens, k - 1) + j, ids[k], computed[ids[k]] + j)
  <2>1. PICK r : r = SumOf(lens, k - 1) + j
    OBVIOUS
  <2>2. in.tokens[r] = TokenRows(F)[k][j] /\ in.positions[r] = PositionRows(F)[k][j]
        /\ in.slot_mapping[r] = SlotRows(F)[k][j]
    BY <1>3, <1>10, <2>1 DEF TensorsOf
  <2>3. /\ TokenRows(F)[k] = InputTokens(F[k][1], F[k][2])
        /\ PositionRows(F)[k] = InputPositions(F[k][1], F[k][2])
        /\ SlotRows(F)[k] = SlotMapping(F[k][1], F[k][2])
    BY <1>2 DEF TokenRows, PositionRows, SlotRows
  <2>4. j \in 1..Remaining(ids[k]) /\ RowsOf(F[k][1], F[k][2], ids[k])
    BY <1>8
  <2>5. PICK s : s = ids[k]
    OBVIOUS
  <2>6. /\ InputTokens(F[k][1], F[k][2])[j] = text[s][computed[s] + j]
        /\ InputPositions(F[k][1], F[k][2])[j] = computed[s] + j - 1
        /\ SlotMapping(F[k][1], F[k][2])[j] = SlotOf(block_tables[s], computed[s] + j - 1)
    BY <2>4, <2>5 DEF RowsOf
  <2>7. RowAt(in, r, s, computed[s] + j)
    <3>1. computed[s] \in Nat /\ j \in Int
      BY <1>4, <1>8, <2>5, BusyIs
    <3>2. computed[s] + j - 1 = (computed[s] + j) - 1
      BY <3>1
    <3> QED BY <2>2, <2>3, <2>6, <3>2 DEF RowAt
  <2> QED BY <2>1, <2>5, <2>7
<1>15. RowsMatch(in, n, ids, lens)
  BY <1>14 DEF RowsMatch
<1> QED BY <1>1, <1>2, <1>4, <1>13, <1>15

-----------------------------------------------------------------------------
(* What reshape_and_cache_flash leaves in the cache *)

(* No two tokens share a slot when one of them is about to be written. *)
LEMMA SlotsApart ==
    ASSUME Ready, NEW t \in Busy, NEW j \in Nat, computed[t] < j, j <= Len(text[t]),
           NEW s \in SeqIds, NEW i \in Nat \ {0}, i <= Len(block_tables[s]) * BlockSize,
           SlotOf(block_tables[t], j - 1) = SlotOf(block_tables[s], i - 1)
    PROVE  t = s /\ j = i
<1>0. IndInv /\ Filled /\ PromptsAlone /\ worker_err = "none"
  BY DEF Ready
<1>1. /\ t \in SeqIds /\ computed[t] \in Nat /\ Len(text[t]) = Length(t) /\ Len(text[t]) \in Nat
      /\ Len(text[t]) <= Len(block_tables[t]) * BlockSize /\ status[t] = "Running"
      /\ slot[t] \in {"prefill", "decode"}
      /\ slot[t] = "decode" => computed[t] + 1 = Len(text[t])
  BY BusyIs
<1>2. j \in Nat \ {0} /\ j <= Len(block_tables[t]) * BlockSize
  <2>1. Len(block_tables[t]) \in Nat /\ BlockSize \in Nat
    BY <1>0, <1>1, SizesAssumption DEF IndInv, TypeOK
  <2>2. PICK x \in Nat : x = Len(block_tables[t]) * BlockSize
    <3>1. PICK a \in Nat : a = Len(block_tables[t])
      BY <2>1
    <3>2. PICK b \in Nat : b = BlockSize
      BY <2>1
    <3> QED BY <3>1, <3>2
  <2> QED BY <1>1, <2>2
<1>3. PICK b : b = BlockAt(s, i)
  OBVIOUS
<1>4. OffsetOf(i) = OffsetOf(j) /\ BlockAt(t, j) = b
  <2>1. SlotOf(block_tables[s], i - 1) = <<block_tables[s][IndexOf(i)], OffsetOf(i)>>
    BY SlotIs
  <2>2. SlotOf(block_tables[t], j - 1) = <<block_tables[t][IndexOf(j)], OffsetOf(j)>>
    BY SlotIs
  <2> QED BY <1>3, <2>1, <2>2 DEF BlockAt
<1>5. /\ IndexOf(i) \in DOMAIN block_tables[s] /\ b = block_tables[s][IndexOf(i)]
      /\ b \in Range(block_tables[s])
  BY <1>0, <1>3, BlockHeld
<1>6. /\ IndexOf(j) \in DOMAIN block_tables[t] /\ b = block_tables[t][IndexOf(j)]
      /\ b \in Range(block_tables[t]) /\ IndexOf(j) \in 1..Len(block_tables[t])
  BY <1>0, <1>1, <1>2, <1>4, BlockHeld
<1>7. t = s
  <2>1. CASE slot[t] = "prefill"
    <3>1. GroupOf[s] = GroupOf[t]
      BY <1>0, <1>1, <1>5, <1>6 DEF IndInv, SharedOnlyWithinGroup
    <3>2. block_tables[s] # <<>>
      <4>1. DOMAIN <<>> = {}
        OBVIOUS
      <4> QED BY <1>5, <4>1
    <3> QED BY <1>0, <1>1, <2>1, <3>1, <3>2 DEF PromptsAlone
  <2>2. CASE slot[t] = "decode"
    <3>1. PICK l \in Nat \ {0} : l = logical[t] /\ Len(block_tables[t]) = l
      <4>1. Len(block_tables[t]) = logical[t] /\ logical[t] \in Nat /\ logical[t] >= 1
        BY <1>0, <1>1, <2>2 DEF IndInv, TypeOK, LengthsAgree, LengthOK, ExclusiveWriteSlot
      <4> QED BY <4>1
    <3>2. PICK f \in Nat \ {0} : f = last_fill[t]
      <4>1. last_fill[t] \in 0..BlockSize /\ last_fill[t] >= 1 /\ BlockSize \in Nat
        BY <1>0, <1>1, SizesAssumption DEF IndInv, TypeOK, Filled
      <4> QED BY <4>1
    <3>3. BlockSize \in Nat /\ l - 1 \in Nat
      BY SizesAssumption
    <3>4. j = (l - 1) * BlockSize + f
      <4>1. j = Length(t)
        BY <1>1, <2>2
      <4> QED BY <3>1, <3>2, <4>1 DEF Length
    <3>5. ~(j <= (l - 1) * BlockSize)
      <4>1. PICK x \in Nat : x = (l - 1) * BlockSize
        BY <3>3
      <4> QED BY <3>2, <3>4, <4>1
    <3>6. ~(IndexOf(j) <= l - 1) /\ IndexOf(j) \in Nat
      BY <1>2, <3>3, <3>5, IndexIs
    <3>7. IndexOf(j) = l
      BY <1>6, <3>1, <3>6
    <3>8. Owners(b) = {t}
      BY <1>0, <1>1, <1>6, <2>2, <3>1, <3>7 DEF IndInv, ExclusiveWriteSlot
    <3>9. s \in Owners(b)
      BY <1>5 DEF Owners
    <3> QED BY <3>8, <3>9
  <2> QED BY <1>1, <2>1, <2>2
<1>8. IndexOf(i) = IndexOf(j)
  <2>1. IsInjective(block_tables[s])
    BY <1>0 DEF IndInv, TablesDistinct
  <2> QED BY <1>5, <1>6, <1>7, <2>1 DEF IsInjective
<1>9. j = i
  BY <1>2, <1>4, <1>8, SamePosition
<1> QED BY <1>7, <1>9

(* What a half of the cache and the rows of a batch hold: the token i of a
   sequence s is entered as G[s][i]. *)
Holds(H, G, s, i) == H[BlockAt(s, i)][OffsetOf(i)] = G[s][i]

(* The rows of the batch hold the entries of G. *)
RowsHold(E, G, n, ids, lens) ==
    \A k \in 1..n : \A j \in 1..lens[k] :
        E[SumOf(lens, k - 1) + j] = G[ids[k]][computed[ids[k]] + j]

(* The tokens of s that are in the cache once the batch ran *)
After(s) == IF s \in Busy THEN Len(text[s]) ELSE computed[s]

(* Every block of a half of the cache has all its places. *)
HalfShape(H) == DOMAIN H = Blocks /\ \A b \in Blocks : DOMAIN H[b] = 0..(BlockSize - 1)

(* A token that is in the cache after the batch has a slot of its own. *)
LEMMA AfterIs ==
    ASSUME Ready, NEW s \in SeqIds, NEW i \in 1..After(s)
    PROVE  /\ i \in Nat \ {0} /\ i <= Len(block_tables[s]) * BlockSize /\ i <= Len(text[s])
           /\ s \in Busy \/ i <= computed[s]
<1>0. IndInv /\ Texts /\ Covered
  BY DEF Ready
<1>1. CASE s \in Busy
  <2>1. /\ Len(text[s]) \in Nat /\ Len(text[s]) <= Len(block_tables[s]) * BlockSize
    BY <1>1, BusyIs
  <2>2. PICK x \in Nat : x = Len(block_tables[s]) * BlockSize
    <3>1. PICK a \in Nat : a = Len(block_tables[s])
      BY <1>0 DEF IndInv, TypeOK
    <3>2. PICK b \in Nat : b = BlockSize
      BY SizesAssumption
    <3> QED BY <3>1, <3>2
  <2>3. i \in 1..Len(text[s])
    BY <1>1 DEF After
  <2> QED BY <1>1, <2>1, <2>2, <2>3
<1>2. CASE s \notin Busy
  <2>1. i \in 1..computed[s] /\ computed[s] \in Nat
    BY <1>0, <1>2 DEF After, Texts
  <2> QED BY <1>0, <2>1, ComputedHeld
<1> QED BY <1>1, <1>2

(* reshape_and_cache_flash adds the rows and overwrites nothing that is read. *)
LEMMA Written ==
    ASSUME Ready, NEW in, NEW n, NEW ids, NEW lens, LaidOut(in, n, ids, lens),
           RowsMatch(in, n, ids, lens), NEW H, HalfShape(H), NEW G, NEW E,
           \A s \in SeqIds : \A i \in 1..computed[s] : Holds(H, G, s, i),
           RowsHold(E, G, n, ids, lens), NEW W, W = ReshapeAndCacheFlash(H, in, E)
    PROVE  /\ HalfShape(W)
           /\ \A s \in SeqIds : \A i \in 1..After(s) : Holds(W, G, s, i)
<1>0. IndInv /\ Texts
  BY DEF Ready
<1>1. /\ n \in Nat \ {0} /\ ids \in [1..n -> Busy] /\ \A s \in Busy : \E k \in 1..n : ids[k] = s
      /\ \A k \in 1..n : lens[k] = Remaining(ids[k])
      /\ DOMAIN in.slot_mapping = 1..SumOf(lens, n)
  BY DEF LaidOut
<1>2. \A k \in 1..n : lens[k] \in Nat
  BY <1>1, BusyIs
<1>3. HalfShape(W)
  BY DEF HalfShape, ReshapeAndCacheFlash
<1>4. ASSUME NEW s \in SeqIds, NEW i \in 1..After(s) PROVE Holds(W, G, s, i)
  <2>1. i \in Nat \ {0} /\ i <= Len(block_tables[s]) * BlockSize /\ (s \in Busy \/ i <= computed[s])
    BY AfterIs
  <2>2. PICK b \in Blocks : b = BlockAt(s, i)
    BY <1>0, <2>1, BlockHeld
  <2>3. PICK o \in 0..(BlockSize - 1) : o = OffsetOf(i)
    BY <2>1, IndexIs
  <2>4. SlotOf(block_tables[s], i - 1) = <<b, o>>
    BY <2>2, <2>3, <2>1, SlotIs DEF BlockAt
  <2>5. W[b][o] = IF RowsAt(in, b, o) = {} THEN H[b][o] ELSE E[CHOOSE r \in RowsAt(in, b, o) : TRUE]
    BY DEF ReshapeAndCacheFlash, HalfShape
  <2>6. ASSUME NEW r \in RowsAt(in, b, o) PROVE E[r] = G[s][i]
    <3>1. r \in 1..SumOf(lens, n) /\ in.slot_mapping[r] = <<b, o>>
      BY <1>1 DEF RowsAt
    <3>2. PICK k \in 1..n : \E j \in 1..lens[k] : r = SumOf(lens, k - 1) + j
      <4>1. n \in Nat /\ r \in 1..SumOf(lens, n)
        BY <1>1, <3>1
      <4> QED BY <1>2, <4>1, SumSplit
    <3>3. PICK j \in 1..lens[k] : r = SumOf(lens, k - 1) + j
      BY <3>2
    <3>4. PICK t \in Busy : t = ids[k]
      BY <1>1
    <3>5. computed[t] \in Nat /\ Len(text[t]) \in Nat /\ lens[k] = Len(text[t]) - computed[t]
      BY <1>1, <3>4, BusyIs DEF Remaining
    <3>6. PICK x \in Nat : x = computed[t] + j /\ computed[t] < x /\ x <= Len(text[t])
      BY <3>5
    <3>7. in.slot_mapping[r] = SlotOf(block_tables[t], x - 1)
      BY <3>3, <3>4, <3>6 DEF RowsMatch, RowAt
    <3>8. t = s /\ x = i
      BY <2>1, <2>4, <3>1, <3>6, <3>7, SlotsApart
    <3>9. E[r] = G[t][x]
      BY <3>3, <3>4, <3>6 DEF RowsHold
    <3> QED BY <3>8, <3>9
  <2>7. CASE RowsAt(in, b, o) # {}
    <3>1. W[b][o] = G[s][i]
      BY <2>5, <2>6, <2>7
    <3> QED BY <2>2, <2>3, <3>1 DEF Holds
  <2>8. CASE RowsAt(in, b, o) = {}
    <3>1. i <= computed[s]
      <4> SUFFICES ASSUME ~(i <= computed[s]) PROVE FALSE
        OBVIOUS
      <4>1. s \in Busy
        BY <2>1
      <4>2. PICK k \in 1..n : ids[k] = s
        BY <1>1, <4>1
      <4>3. lens[k] = Len(text[s]) - computed[s] /\ computed[s] \in Nat /\ Len(text[s]) \in Nat
        BY <1>1, <4>1, <4>2, BusyIs DEF Remaining
      <4>4. i <= Len(text[s])
        BY AfterIs
      <4>5. PICK j \in 1..lens[k] : computed[s] + j = i
        <5>1. i - computed[s] \in 1..lens[k] /\ computed[s] + (i - computed[s]) = i
          BY <2>1, <4>3, <4>4
        <5> QED BY <5>1
      <4>6. PICK r : r = SumOf(lens, k - 1) + j
        OBVIOUS
      <4>7. in.slot_mapping[r] = <<b, o>>
        BY <2>4, <4>2, <4>5, <4>6 DEF RowsMatch, RowAt
      <4>8. r \in 1..SumOf(lens, n)
        <5>1. /\ SumOf(lens, k - 1) \in Nat /\ SumOf(lens, k) = SumOf(lens, k - 1) + lens[k]
              /\ SumOf(lens, k) <= SumOf(lens, n)
          BY <1>1, <1>2, SumSpans
        <5>2. SumOf(lens, n) \in Nat
          BY <1>1, <1>2, SumNat
        <5> QED BY <1>2, <4>6, <5>1, <5>2
      <4>9. r \in RowsAt(in, b, o)
        BY <1>1, <4>7, <4>8 DEF RowsAt
      <4> QED BY <2>8, <4>9
    <3>2. computed[s] \in Nat /\ i \in 1..computed[s]
      BY <1>0, <2>1, <3>1 DEF Texts
    <3>3. Holds(H, G, s, i)
      BY <3>2
    <3> QED BY <2>2, <2>3, <2>5, <2>8, <3>3 DEF Holds
  <2> QED BY <2>7, <2>8
<1> QED BY <1>3, <1>4

-----------------------------------------------------------------------------
(* What the rows of a batch see *)

(* The flattened batch lists the sequences ids. *)
FlatIs(F, n, ids) ==
    /\ Len(F) = n
    /\ \A k \in 1..n : F[k][2] = Entry(ids[k]) /\ ListsSequence(F[k][1], ids[k])

(* A row of a prompt sees the rows of its own prompt up to itself. *)
PromptPlaces(places, n, lens) ==
    \A k \in 1..n : \A j \in 1..lens[k] :
        places[SumOf(lens, k - 1) + j] = {<<"row", SumOf(lens, k - 1) + c>> : c \in 1..j}

(* The causal mask of flash_attn_varlen *)
LEMMA VisibleRows ==
    ASSUME NEW len \in Nat \ {0}, NEW max \in Nat, len <= max, NEW w,
           \/ w.left = max /\ w.right = 0
           \/ w.left = -1 /\ w.right = -1 /\ len = 1,
           NEW row \in 1..len, NEW c \in 0..(len - 1)
    PROVE  Visible(w, row - 1, c, len, len) <=> c < row
<1>1. CASE w.left = max /\ w.right = 0
  <2>1. ~(w.right < 0) /\ ~(w.left < 0)
    BY <1>1
  <2>2. (c < row - 1 + 1 + len - len + w.right) <=> c < row
    BY <1>1
  <2>3. c >= row - 1 + len - len - w.left
    BY <1>1
  <2> QED BY <2>1, <2>2, <2>3 DEF Visible
<1>2. CASE w.left = -1 /\ w.right = -1 /\ len = 1
  <2>1. w.left < 0 /\ w.right < 0
    BY <1>2
  <2> QED BY <1>2, <2>1 DEF Visible
<1> QED BY <1>1, <1>2

(* Sequences without an end have themselves as the sum with an empty one. *)
LEMMA WithNothing ==
    ASSUME NEW A, NEW l \in Seq(A)
    PROVE  l \o <<>> = l /\ <<>> \o l = l
OBVIOUS

(* The prompt kernel shows every row its own prompt up to itself. *)
LEMMA PromptPlacesAre ==
    ASSUME Ready, Busy # {}, \A s \in Busy : slot[s] = "prefill",
           NEW F, NEW in, TensorsOf(in, F), NEW n, NEW ids, NEW lens, LaidOut(in, n, ids, lens),
           FlatIs(F, n, ids), NEW places, places = Attention(in)
    PROVE  DOMAIN places = 1..SumOf(lens, n) /\ PromptPlaces(places, n, lens)
<1>1. /\ n \in Nat \ {0} /\ ids \in [1..n -> Busy]
      /\ \A k \in 1..n : lens[k] = Remaining(ids[k])
      /\ Len(in.tokens) = SumOf(lens, n)
  BY DEF LaidOut
<1>2. ASSUME NEW k \in 1..n
      PROVE  /\ lens[k] \in Nat \ {0} /\ F[k][1].is_prompt
             /\ SequenceLength(F[k][1], F[k][2]) = lens[k]
             /\ QueryRows(F)[k] = lens[k]
  <2>1. PICK s \in Busy : s = ids[k] /\ F[k][2] = Entry(s) /\ ListsSequence(F[k][1], s)
    BY <1>1 DEF FlatIs
  <2>2. computed[s] = 0 /\ Len(text[s]) \in Nat \ {0} /\ Remaining(s) = Len(text[s])
    BY BusyIs DEF Remaining
  <2>3. /\ F[k][1].is_prompt /\ SequenceLength(F[k][1], F[k][2]) = Len(text[s])
        /\ RowFits(F[k][1], F[k][2], Remaining(s))
    BY <2>1, RowIs
  <2>4. QueryRows(F)[k] = Remaining(s)
    BY <2>3 DEF QueryRows, RowFits, FlatIs
  <2> QED BY <1>1, <2>1, <2>2, <2>3, <2>4
<1>3. \A k \in 1..n : lens[k] \in Nat
  BY <1>2
<1>4. PICK R \in Nat \ {0} : R = SumOf(lens, n)
  <2>1. 1 \in 1..n
    BY <1>1
  <2>2. /\ SumOf(lens, 1 - 1) \in Nat /\ SumOf(lens, 1) = SumOf(lens, 1 - 1) + lens[1]
        /\ SumOf(lens, 1) <= SumOf(lens, n) /\ SumOf(lens, 1) \in Nat
    BY <1>1, <1>3, <2>1, SumSpans
  <2>3. SumOf(lens, n) \in Nat
    BY <1>1, <1>3, SumNat
  <2> QED BY <1>2, <2>1, <2>2, <2>3
<1>5. in.num_prefill_tokens = R /\ in.num_decode_tokens = 0
  <2>1. \A k \in 1..n : PrefillRows(F)[k] = lens[k]
    BY <1>2 DEF PrefillRows, FlatIs
  <2>2. SumOf(PrefillRows(F), n) = R
    BY <1>1, <1>4, <2>1, SumAgree
  <2>3. SumOf(QueryRows(F), n) = R
    BY <1>1, <1>2, <1>4, SumAgree
  <2> QED BY <2>2, <2>3 DEF TensorsOf, FlatIs
<1>6. in.num_prefills = n
  <2>1. {k \in 1..n : F[k][1].is_prompt} = 1..n
    BY <1>2
  <2>2. Cardinality(1..n) = n
    BY <1>1, FS_Interval
  <2> QED BY <2>1, <2>2 DEF TensorsOf, FlatIs
<1>7. in.seq_start_loc = [k \in 1..(n + 1) |-> SumOf(lens, k - 1)]
  <2>1. LengthRows(F) = [k \in 1..n |-> SequenceLength(F[k][1], F[k][2])] /\ Len(LengthRows(F)) = n
    BY <1>1 DEF LengthRows, FlatIs
  <2>2. in.seq_start_loc = [k \in 1..(n + 1) |-> SumOf(LengthRows(F), k - 1)]
    BY <2>1 DEF TensorsOf, StartLocations
  <2>3. ASSUME NEW k \in 1..(n + 1) PROVE SumOf(LengthRows(F), k - 1) = SumOf(lens, k - 1)
    <3>1. k - 1 \in Nat /\ \A i \in 1..(k - 1) : i \in 1..n
      BY <1>1
    <3>2. \A i \in 1..(k - 1) : LengthRows(F)[i] = lens[i]
      BY <1>2, <2>1, <3>1
    <3> QED BY <3>1, <3>2, SumAgree
  <2> QED BY <2>2, <2>3
<1> DEFINE start == PrefillMetadata(in).sequence_start_locations
<1>8. start = in.seq_start_loc /\ Len(start) = n + 1
  <2>1. PICK l : l = in.seq_start_loc
    OBVIOUS
  <2>2. l \in Seq(Range(l)) /\ Len(l) = n + 1 /\ n + 1 \in Nat
    <3>1. n + 1 \in Nat /\ l = [k \in 1..(n + 1) |-> l[k]]
      BY <1>1, <1>7, <2>1
    <3> QED BY <3>1, ListOfValues
  <2>3. SubSeq(l, 1, n + 1) = l
    BY <2>2
  <2> QED BY <1>6, <2>1, <2>2, <2>3 DEF PrefillMetadata
<1>9. PICK max : max = in.max_prefill_seq_len
  OBVIOUS
<1>10. max \in Nat /\ \A k \in 1..n : lens[k] <= max
  <2> DEFINE S == {SequenceLength(F[k][1], F[k][2]) : k \in {j \in 1..n : F[j][1].is_prompt}}
  <2>1. max = MaxOf({0} \cup S)
    BY <1>9 DEF TensorsOf, FlatIs
  <2>2. ASSUME NEW k \in 1..n PROVE lens[k] \in S
    BY <1>2
  <2>3. ASSUME NEW x \in S PROVE x \in Nat /\ x <= R
    <3>1. PICK k \in 1..n : x = lens[k]
      BY <1>2
    <3>2. /\ SumOf(lens, k - 1) \in Nat /\ SumOf(lens, k) = SumOf(lens, k - 1) + lens[k]
          /\ SumOf(lens, k) <= SumOf(lens, n) /\ lens[k] \in Nat
      BY <1>1, <1>3, SumSpans
    <3> QED BY <1>4, <3>1, <3>2
  <2> HIDE DEF S
  <2>4. {0} \cup S \in SUBSET Nat /\ {0} \cup S # {} /\ \A y \in {0} \cup S : y <= R
    BY <1>4, <2>3
  <2>5. MaxOf({0} \cup S) \in {0} \cup S /\ \A y \in {0} \cup S : y <= MaxOf({0} \cup S)
    BY <2>4, MaxOfBounded
  <2> QED BY <2>1, <2>2, <2>4, <2>5
<1>11. PICK w : w = Windows(Causal(in), max)
  OBVIOUS
<1>12. ASSUME NEW k \in 1..n
       PROVE  \/ w.left = max /\ w.right = 0
              \/ w.left = -1 /\ w.right = -1 /\ lens[k] = 1
  <2>0. n \in Nat /\ \A c \in 1..n : lens[c] \in Nat
    BY <1>1, <1>2, <1>3
  <2>1. /\ SumOf(lens, k - 1) \in Nat /\ SumOf(lens, k) = SumOf(lens, k - 1) + lens[k]
        /\ SumOf(lens, k) <= SumOf(lens, n) /\ lens[k] \in Nat \ {0}
    <3>1. /\ SumOf(lens, k - 1) \in Nat /\ SumOf(lens, k) = SumOf(lens, k - 1) + lens[k]
          /\ SumOf(lens, k) <= SumOf(lens, n)
      BY <2>0, SumSpans
    <3> QED BY <1>1, <1>2, <1>3, <3>1
  <2>2. Causal(in) <=> R > 1
    BY <1>1, <1>4 DEF Causal
  <2>3. CASE Causal(in)
    BY <1>11, <2>3 DEF Windows
  <2>4. CASE ~Causal(in)
    <3>1. lens[k] = 1
      BY <1>4, <2>1, <2>2, <2>4
    <3> QED BY <1>11, <2>4, <3>1 DEF Windows
  <2> QED BY <2>3, <2>4
<1> DEFINE len(b) == start[b + 1] - start[b]
           Rows(z, m) == [row \in 1..m |->
                   {<<"row", z + col + 1>> : col \in {c \in 0..(m - 1) : Visible(w, row - 1, c, m, m)}}]
           L == [b \in 1..(Len(start) - 1) |-> Rows(start[b], len(b))]
<1>13. FlashAttnVarlen(in) = FlattenSeq(L)
  BY <1>9, <1>11 DEF FlashAttnVarlen
<1>14. ASSUME NEW b \in 1..n
       PROVE  len(b) = lens[b] /\ start[b] = SumOf(lens, b - 1) /\ start[b] \in Nat
  <2>1. /\ SumOf(lens, b - 1) \in Nat /\ SumOf(lens, b) = SumOf(lens, b - 1) + lens[b]
        /\ SumOf(lens, b) \in Nat
    BY <1>1, <1>3, SumSpans
  <2> HIDE DEF start
  <2>2. b \in 1..(n + 1) /\ b + 1 \in 1..(n + 1) /\ (b + 1) - 1 = b
    BY <1>1
  <2>3. start[b] = SumOf(lens, b - 1) /\ start[b + 1] = SumOf(lens, b)
    BY <1>7, <1>8, <2>2
  <2> QED BY <1>3, <2>1, <2>3
<1>15. Len(start) - 1 = n /\ DOMAIN L = 1..n /\ Len(L) = n
  <2> HIDE DEF start
  <2>1. Len(start) - 1 = n
    BY <1>1, <1>8
  <2>2. DOMAIN L = 1..n
    BY <2>1
  <2>3. L = [b \in 1..n |-> L[b]]
    BY <2>1
  <2> HIDE DEF L
  <2> QED BY <1>1, <2>1, <2>2, <2>3
<1>16. ASSUME NEW b \in 1..n
       PROVE  /\ L[b] \in Seq(Range(L[b])) /\ Len(L[b]) = lens[b]
              /\ \A row \in 1..lens[b] : L[b][row] = {<<"row", SumOf(lens, b - 1) + c>> : c \in 1..row}
  <2>1. PICK z \in Nat : z = SumOf(lens, b - 1) /\ start[b] = z
    BY <1>14
  <2>2. PICK m \in Nat \ {0} : m = lens[b] /\ len(b) = m
    BY <1>2, <1>14
  <2> HIDE DEF start, len
  <2>3. L[b] = [row \in 1..m |->
                  {<<"row", z + col + 1>> : col \in {c \in 0..(m - 1) : Visible(w, row - 1, c, m, m)}}]
    <3> HIDE DEF Rows
    <3>1. L[b] = Rows(start[b], len(b))
      BY <1>15
    <3>2. L[b] = Rows(z, m)
      BY <2>1, <2>2, <3>1
    <3> QED BY <3>2 DEF Rows
  <2> HIDE DEF L
  <2>4. ASSUME NEW row \in 1..m
        PROVE  {<<"row", z + col + 1>> : col \in {c \in 0..(m - 1) : Visible(w, row - 1, c, m, m)}}
                  = {<<"row", z + c>> : c \in 1..row}
    <3>1. \A c \in 0..(m - 1) : Visible(w, row - 1, c, m, m) <=> c < row
      BY <1>10, <1>12, <2>2, VisibleRows
    <3>2. {c \in 0..(m - 1) : Visible(w, row - 1, c, m, m)} = 0..(row - 1)
      BY <3>1
    <3>3. {<<"row", z + col + 1>> : col \in 0..(row - 1)} = {<<"row", z + c>> : c \in 1..row}
      <4> DEFINE X == {<<"row", z + col + 1>> : col \in 0..(row - 1)}
                 Y == {<<"row", z + c>> : c \in 1..row}
      <4>1. ASSUME NEW x \in X PROVE x \in Y
        <5>1. PICK col \in 0..(row - 1) : x = <<"row", z + col + 1>>
          OBVIOUS
        <5>2. PICK c \in 1..row : z + col + 1 = z + c
          <6>1. col + 1 \in 1..row /\ z + col + 1 = z + (col + 1)
            OBVIOUS
          <6> QED BY <6>1
        <5> QED BY <5>1, <5>2
      <4>2. ASSUME NEW x \in Y PROVE x \in X
        <5>1. PICK c \in 1..row : x = <<"row", z + c>>
          OBVIOUS
        <5>2. PICK col \in 0..(row - 1) : z + c = z + col + 1
          <6>1. c - 1 \in 0..(row - 1) /\ z + c = z + (c - 1) + 1
            OBVIOUS
          <6> QED BY <6>1
        <5> QED BY <5>1, <5>2
      <4> HIDE DEF X, Y
      <4>3. X = Y
        BY <4>1, <4>2
      <4> QED BY <4>3 DEF X, Y
    <3> QED BY <3>2, <3>3
  <2>5. L[b] = [row \in 1..m |-> L[b][row]]
    BY <2>3
  <2>6. L[b] \in Seq(Range(L[b])) /\ Len(L[b]) = m
    BY <2>5, ListOfValues
  <2>7. \A row \in 1..m : L[b][row] = {<<"row", z + c>> : c \in 1..row}
    BY <2>3, <2>4
  <2> QED BY <2>1, <2>2, <2>6, <2>7
<1> HIDE DEF L, len, start
<1>17. PICK l : l = FlattenSeq(L)
  OBVIOUS
<1>18. /\ l \in Seq(Range(l)) /\ Len(l) = R
       /\ \A k \in 1..n : \A j \in 1..lens[k] : l[SumOf(lens, k - 1) + j] = L[k][j]
  <2>1. Lists(L, n, lens)
    BY <1>1, <1>3, <1>15, <1>16 DEF Lists
  <2> QED BY <1>4, <1>17, <2>1, FlattenEntries
<1>19. places = l
  <2>1. in.num_prefill_tokens > 0 /\ ~(in.num_decode_tokens > 0)
    BY <1>5
  <2>2. places = l \o <<>>
    BY <1>13, <1>17, <2>1 DEF Attention
  <2> QED BY <1>18, <2>2, WithNothing
<1>20. PromptPlaces(places, n, lens)
  <2>1. ASSUME NEW k \in 1..n, NEW j \in 1..lens[k]
        PROVE  places[SumOf(lens, k - 1) + j] = {<<"row", SumOf(lens, k - 1) + c>> : c \in 1..j}
    <3>1. places[SumOf(lens, k - 1) + j] = L[k][j]
      BY <1>18, <1>19
    <3>2. L[k][j] = {<<"row", SumOf(lens, k - 1) + c>> : c \in 1..j}
      BY <1>16
    <3> QED BY <3>1, <3>2
  <2> QED BY <2>1 DEF PromptPlaces
<1> QED BY <1>4, <1>18, <1>19, <1>20

(* The row of a decoding sees the slots of its own text. *)
DecodePlaces(places, n, ids) ==
    \A k \in 1..n :
        places[k] = {<<"slot", SlotOf(block_tables[ids[k]], c - 1)>> : c \in 1..Len(text[ids[k]])}

(* A decoding sees every position of its text. *)
LEMMA VisibleSlots ==
    ASSUME NEW len \in Nat \ {0}, NEW width \in Nat, len <= width, NEW p \in 0..(len - 1)
    PROVE  Visible(DecodeWindows(width), 0, p, 1, len)
<1>1. PICK w : w = DecodeWindows(width)
  OBVIOUS
<1>2. w.left = width /\ w.right = 0
  <2>1. ~(0 >= width)
    OBVIOUS
  <2> QED BY <1>1, <2>1 DEF DecodeWindows
<1>3. p < 0 + 1 + len - 1 + w.right /\ p >= 0 + len - 1 - w.left
  BY <1>2
<1> QED BY <1>1, <1>3 DEF Visible

(* Padding leaves the table of a sequence in front. *)
PaddedTo(T, n, width) ==
    \A k \in 1..n :
        /\ Len(T[k]) <= width /\ Len(Padded(T)[k]) = width
        /\ \A i \in 1..Len(T[k]) : Padded(T)[k][i] = T[k][i]

(* Padding keeps what is in a table. *)
LEMMA PaddedIs ==
    ASSUME NEW n \in Nat \ {0}, NEW T, DOMAIN T = 1..n, NEW m \in Nat,
           \A k \in 1..n : Len(T[k]) \in Nat /\ Len(T[k]) <= m
    PROVE  \E width \in Nat : PaddedTo(T, n, width)
<1> DEFINE S == {Len(T[k]) : k \in DOMAIN T}
<1>1. S \in SUBSET Nat /\ S # {} /\ \A x \in S : x <= m
  <2>1. 1 \in 1..n
    OBVIOUS
  <2>2. Len(T[1]) \in S
    BY <2>1
  <2>3. \A x \in S : x \in Nat /\ x <= m
    OBVIOUS
  <2> HIDE DEF S
  <2> QED BY <2>2, <2>3
<1>2. \A k \in 1..n : Len(T[k]) \in S
  OBVIOUS
<1>3. PICK width : width = MaxOf(S)
  OBVIOUS
<1>4. Padded(T) = [k \in 1..n |-> [i \in 1..width |-> IF i <= Len(T[k]) THEN T[k][i] ELSE "pad"]]
  BY <1>3 DEF Padded
<1> HIDE DEF S
<1>5. width \in Nat /\ \A k \in 1..n : Len(T[k]) <= width
  BY <1>1, <1>2, <1>3, MaxOfBounded
<1>6. ASSUME NEW k \in 1..n
      PROVE  /\ Len(Padded(T)[k]) = width
             /\ \A i \in 1..Len(T[k]) : Padded(T)[k][i] = T[k][i]
  <2>1. Padded(T)[k] = [i \in 1..width |-> IF i <= Len(T[k]) THEN T[k][i] ELSE "pad"]
    BY <1>4
  <2>2. \A i \in 1..Len(T[k]) : i \in 1..width
    BY <1>5
  <2> QED BY <1>5, <2>1, <2>2
<1>7. PaddedTo(T, n, width)
  BY <1>5, <1>6 DEF PaddedTo
<1> QED BY <1>5, <1>7

(* The decoding kernel shows every sequence the slots of its own text, and none
   of the padding. *)
LEMMA DecodePlacesAre ==
    ASSUME Ready, Busy # {}, \A s \in Busy : slot[s] = "decode",
           NEW F, NEW in, TensorsOf(in, F), NEW n, NEW ids, NEW lens, LaidOut(in, n, ids, lens),
           FlatIs(F, n, ids), NEW places, places = Attention(in)
    PROVE  /\ DOMAIN places = 1..SumOf(lens, n) /\ DecodePlaces(places, n, ids)
           /\ \A k \in 1..n : lens[k] = 1 /\ SumOf(lens, k - 1) + 1 = k
<1>0. IndInv /\ Grouped
  BY DEF Ready
<1>1. /\ n \in Nat \ {0} /\ ids \in [1..n -> Busy]
      /\ \A k \in 1..n : lens[k] = Remaining(ids[k])
  BY DEF LaidOut
<1>2. ASSUME NEW k \in 1..n
      PROVE  /\ lens[k] = 1 /\ ~F[k][1].is_prompt
             /\ SequenceLength(F[k][1], F[k][2]) = Len(text[ids[k]])
             /\ QueryRows(F)[k] = 1 /\ PrefillRows(F)[k] = 0
             /\ TableRows(F)[k] = block_tables[ids[k]]
  <2>1. PICK s \in Busy : s = ids[k] /\ F[k][2] = Entry(s) /\ ListsSequence(F[k][1], s)
    BY <1>1 DEF FlatIs
  <2>2. Remaining(s) = 1
    <3>1. computed[s] + 1 = Len(text[s]) /\ computed[s] \in Nat
      BY BusyIs
    <3> QED BY <3>1 DEF Remaining
  <2>3. /\ ~F[k][1].is_prompt /\ SequenceLength(F[k][1], F[k][2]) = Len(text[s])
        /\ RowFits(F[k][1], F[k][2], 1) /\ TableOf(F[k][1], F[k][2]) = block_tables[s]
    <3>1. slot[s] # "prefill"
      OBVIOUS
    <3> QED BY <2>1, <2>2, <3>1, RowIs
  <2>4. QueryRows(F)[k] = 1 /\ PrefillRows(F)[k] = 0 /\ TableRows(F)[k] = block_tables[s]
    BY <2>3 DEF QueryRows, PrefillRows, TableRows, RowFits, FlatIs
  <2> QED BY <1>1, <2>1, <2>2, <2>3, <2>4
<1>3. \A k \in 1..n : SumOf(lens, k - 1) = k - 1
  <2> TAKE k \in 1..n
  <2>1. k - 1 \in Nat /\ \A i \in 1..(k - 1) : i \in 1..n
    BY <1>1
  <2>2. \A i \in 1..(k - 1) : lens[i] = 1
    BY <1>2, <2>1
  <2>3. SumOf(lens, k - 1) = 1 * (k - 1)
    BY <2>1, <2>2, SumSame
  <2> QED BY <2>1, <2>3
<1>4. SumOf(lens, n) = n
  <2>1. n \in Nat /\ \A k \in 1..n : lens[k] = 1
    BY <1>1, <1>2
  <2>2. SumOf(lens, n) = 1 * n
    BY <2>1, SumSame
  <2> QED BY <2>1, <2>2
<1>5. in.num_prefill_tokens = 0 /\ in.num_decode_tokens = n
  <2>0. n \in Nat
    BY <1>1
  <2>1. SumOf(PrefillRows(F), n) = 0 * n
    BY <1>2, <2>0, SumSame
  <2>2. SumOf(QueryRows(F), n) = 1 * n
    BY <1>2, <2>0, SumSame
  <2> QED BY <2>0, <2>1, <2>2 DEF TensorsOf, FlatIs
<1>6. in.num_prefills = 0
  <2>1. {k \in 1..n : F[k][1].is_prompt} = {}
    BY <1>2
  <2> QED BY <2>1, FS_EmptySet DEF TensorsOf, FlatIs
<1>7. PICK lengths : lengths = DecodingMetadata(in).sequence_lengths
  OBVIOUS
<1>8. lengths = [k \in 1..n |-> Len(text[ids[k]])]
  <2>1. PICK f : f = in.sequence_lengths
    OBVIOUS
  <2>2. f = [k \in 1..n |-> SequenceLength(F[k][1], F[k][2])]
    BY <2>1 DEF TensorsOf, FlatIs, LengthRows
  <2>3. f \in Seq(Range(f)) /\ Len(f) = n
    BY <1>1, <2>2, ListOfValues
  <2>4. SubSeq(f, 1, n) = f
    BY <1>1, <2>3
  <2>5. lengths = f
    BY <1>6, <1>7, <2>1, <2>3, <2>4 DEF DecodingMetadata
  <2> QED BY <1>2, <2>2, <2>5
<1> DEFINE T == TableRows(F)
<1>9. DOMAIN T = 1..n /\ in.block_tables = Padded(T)
  BY DEF TableRows, TensorsOf, FlatIs
<1>10. ASSUME NEW k \in 1..n
       PROVE  T[k] = block_tables[ids[k]] /\ Len(T[k]) \in Nat /\ Len(T[k]) <= MaxLogicalBlocks
  <2>1. PICK s \in Busy : s = ids[k]
    BY <1>1
  <2>2. s \in SeqIds /\ slot[s] # "none"
    BY DEF Busy
  <2>3. /\ Len(block_tables[s]) = logical[s] /\ logical[s] \in Nat
        /\ logical[s] <= MaxLogicalBlocks
    BY <1>0, <2>2 DEF IndInv, TypeOK, LengthsAgree, LengthOK, Grouped, Bounded
  <2> QED BY <1>2, <2>1, <2>3
<1> HIDE DEF T
<1>11p. PICK width \in Nat : PaddedTo(T, n, width)
  <2>1. MaxLogicalBlocks \in Nat
    BY SizesAssumption
  <2>2. \A k \in 1..n : Len(T[k]) \in Nat /\ Len(T[k]) <= MaxLogicalBlocks
    BY <1>10
  <2> QED BY <1>1, <1>9, <2>1, <2>2, PaddedIs
<1>11. \A k \in 1..n : /\ Len(T[k]) <= width /\ Len(Padded(T)[k]) = width
                       /\ \A i \in 1..Len(T[k]) : Padded(T)[k][i] = T[k][i]
  BY <1>11p DEF PaddedTo
<1> DEFINE w == DecodeWindows(Len(in.block_tables[1]) * BlockSize)
<1>12. w = DecodeWindows(width * BlockSize)
  <2>1. 1 \in 1..n
    BY <1>1
  <2> QED BY <1>9, <1>11, <2>1
<1> HIDE DEF w
<1>13. FlashAttnKvCache(in) = [b \in 1..n |->
            {<<"slot", SlotOf(in.block_tables[b], pos)>> :
                pos \in {p \in 0..(lengths[b] - 1) : Visible(w, 0, p, 1, lengths[b])}}]
  <2>1. DecodingMetadata(in).block_tables = in.block_tables /\ DOMAIN lengths = 1..n
    BY <1>8 DEF DecodingMetadata
  <2> QED BY <1>7, <2>1 DEF FlashAttnKvCache, w
<1>14. ASSUME NEW k \in 1..n
       PROVE  FlashAttnKvCache(in)[k] =
                {<<"slot", SlotOf(block_tables[ids[k]], c - 1)>> : c \in 1..Len(text[ids[k]])}
  <2>1. PICK s \in Busy : s = ids[k]
    BY <1>1
  <2>2. /\ s \in SeqIds /\ Len(text[s]) \in Nat \ {0} /\ Len(text[s]) <= Len(block_tables[s]) * BlockSize
    BY BusyIs
  <2>3. PICK len \in Nat \ {0} : len = Len(text[s]) /\ lengths[k] = len
    BY <1>8, <2>1, <2>2
  <2>4. PICK room \in Nat : room = width * BlockSize /\ len <= room
    <3>1. PICK b \in Nat : b = BlockSize
      BY SizesAssumption
    <3>2. PICK a \in Nat : a = Len(block_tables[s]) /\ a <= width
      BY <1>10, <1>11, <2>1
    <3>3. a * b <= width * b /\ a * b \in Nat /\ width * b \in Nat
      BY <3>1, <3>2, MulMono
    <3> QED BY <2>2, <2>3, <3>1, <3>2, <3>3
  <2>5. {p \in 0..(len - 1) : Visible(w, 0, p, 1, len)} = 0..(len - 1)
    <3>1. \A p \in 0..(len - 1) : Visible(w, 0, p, 1, len)
      BY <1>12, <2>4, VisibleSlots
    <3> QED BY <3>1
  <2>6. FlashAttnKvCache(in)[k] = {<<"slot", SlotOf(in.block_tables[k], pos)>> : pos \in 0..(len - 1)}
    BY <1>13, <2>3, <2>5
  <2>7. ASSUME NEW c \in 1..len
        PROVE  SlotOf(in.block_tables[k], c - 1) = SlotOf(block_tables[s], c - 1)
    <3>1. c \in Nat \ {0} /\ c <= Len(block_tables[s]) * BlockSize
      <4>1. PICK b \in Nat : b = BlockSize
        BY SizesAssumption
      <4>2. PICK a \in Nat : a = Len(block_tables[s])
        BY <1>10, <2>1
      <4>3. a * b \in Nat /\ len <= a * b
        BY <2>2, <2>3, <4>1, <4>2
      <4> QED BY <4>1, <4>2, <4>3
    <3>2. IndexOf(c) \in 1..Len(block_tables[s])
      BY <1>0, <2>2, <3>1, BlockHeld
    <3>3. in.block_tables[k][IndexOf(c)] = block_tables[s][IndexOf(c)]
      <4>1. T[k] = block_tables[s] /\ IndexOf(c) \in 1..Len(T[k])
        BY <1>10, <2>1, <3>2
      <4>2. Padded(T)[k][IndexOf(c)] = T[k][IndexOf(c)]
        BY <1>11, <4>1
      <4> QED BY <1>9, <4>1, <4>2
    <3> QED BY <3>1, <3>3, SlotIs
  <2> DEFINE X == {<<"slot", SlotOf(in.block_tables[k], pos)>> : pos \in 0..(len - 1)}
             Y == {<<"slot", SlotOf(block_tables[s], c - 1)>> : c \in 1..len}
  <2>8. ASSUME NEW x \in X PROVE x \in Y
    <3>1. PICK pos \in 0..(len - 1) : x = <<"slot", SlotOf(in.block_tables[k], pos)>>
      OBVIOUS
    <3>2. PICK c \in 1..len : c - 1 = pos
      <4>1. pos + 1 \in 1..len /\ (pos + 1) - 1 = pos
        OBVIOUS
      <4> QED BY <4>1
    <3>3. x = <<"slot", SlotOf(block_tables[s], c - 1)>>
      BY <2>7, <3>1, <3>2
    <3> QED BY <3>3
  <2>9. ASSUME NEW x \in Y PROVE x \in X
    <3>1. PICK c \in 1..len : x = <<"slot", SlotOf(block_tables[s], c - 1)>>
      OBVIOUS
    <3>2. PICK pos \in 0..(len - 1) : pos = c - 1
      OBVIOUS
    <3>3. x = <<"slot", SlotOf(in.block_tables[k], pos)>>
      BY <2>7, <3>1, <3>2
    <3> QED BY <3>3
  <2> HIDE DEF X, Y
  <2>10. X = Y
    BY <2>8, <2>9
  <2> QED BY <2>1, <2>3, <2>6, <2>10 DEF X, Y
<1>15. PICK l : l = FlashAttnKvCache(in)
  OBVIOUS
<1>16. l \in Seq(Range(l)) /\ Len(l) = n
  <2>1. l = [k \in 1..n |-> l[k]]
    BY <1>13, <1>15
  <2> QED BY <1>1, <2>1, ListOfValues
<1>17. places = l
  <2>1. ~(in.num_prefill_tokens > 0) /\ in.num_decode_tokens > 0
    BY <1>1, <1>5
  <2>2. places = <<>> \o l
    BY <1>15, <2>1 DEF Attention
  <2> QED BY <1>16, <2>2, WithNothing
<1>18. DecodePlaces(places, n, ids)
  BY <1>14, <1>15, <1>17 DEF DecodePlaces
<1>19. \A k \in 1..n : SumOf(lens, k - 1) + 1 = k
  BY <1>1, <1>3
<1> QED BY <1>2, <1>4, <1>16, <1>17, <1>18, <1>19

-----------------------------------------------------------------------------
(* What the rows make of it *)

(* The rows see their own sequences, in a batch of one kind. *)
SeenBy(places, n, ids, lens) ==
    /\ DOMAIN places = 1..SumOf(lens, n)
    /\ \/ PromptPlaces(places, n, lens) /\ \A s \in Busy : slot[s] = "prefill"
       \/ /\ DecodePlaces(places, n, ids) /\ \A s \in Busy : slot[s] = "decode"
          /\ \A k \in 1..n : lens[k] = 1 /\ SumOf(lens, k - 1) + 1 = k

(* A half of the cache holds the entries of G after the batch. *)
AllHold(H, G) == \A s \in SeqIds : \A i \in 1..After(s) : Holds(H, G, s, i)

(* The entries at P are those of the first m tokens of s. *)
Sees(H, E, G, P, s, m) == {EntryAt(H, E, p) : p \in P} = {G[s][c] : c \in 1..m}

(* So a row finds the entries of its own text up to itself. *)
LEMMA RowsSee ==
    ASSUME Ready, NEW in, NEW n, NEW ids, NEW lens, LaidOut(in, n, ids, lens),
           NEW places, SeenBy(places, n, ids, lens),
           NEW H, HalfShape(H), NEW G, NEW E, RowsHold(E, G, n, ids, lens),
           AllHold(H, G), NEW k \in 1..n, NEW j \in 1..lens[k], NEW s, s = ids[k]
    PROVE  Sees(H, E, G, places[SumOf(lens, k - 1) + j], s, computed[s] + j)
<1>1. n \in Nat \ {0} /\ s \in Busy /\ lens[k] = Remaining(s)
  BY DEF LaidOut
<1>2. IndInv /\ s \in SeqIds /\ computed[s] \in Nat /\ Len(text[s]) \in Nat /\ After(s) = Len(text[s])
  BY <1>1, BusyIs DEF After, Ready
<1>3. PICK z : z = SumOf(lens, k - 1)
  OBVIOUS
<1> DEFINE P == places[z + j]
           X == {EntryAt(H, E, p) : p \in P}
           Y == {G[s][c] : c \in 1..(computed[s] + j)}
<1>4. CASE PromptPlaces(places, n, lens) /\ \A t \in Busy : slot[t] = "prefill"
  <2>1. P = {<<"row", z + c>> : c \in 1..j}
    BY <1>3, <1>4 DEF PromptPlaces
  <2>2. computed[s] = 0 /\ computed[s] + j = j
    BY <1>1, <1>4, BusyIs
  <2>3. ASSUME NEW c \in 1..j PROVE EntryAt(H, E, <<"row", z + c>>) = G[s][c]
    <3>1. c \in 1..lens[k] /\ computed[s] + c = c
      BY <1>1, <2>2, BusyIs
    <3>2. E[z + c] = G[s][computed[s] + c]
      BY <1>3, <3>1 DEF RowsHold
    <3>3. EntryAt(H, E, <<"row", z + c>>) = E[z + c]
      BY DEF EntryAt
    <3> QED BY <3>1, <3>2, <3>3
  <2> HIDE DEF P
  <2>4. ASSUME NEW x \in X PROVE x \in Y
    <3>1. PICK c \in 1..j : x = EntryAt(H, E, <<"row", z + c>>)
      BY <2>1
    <3> QED BY <2>2, <2>3, <3>1
  <2>5. ASSUME NEW x \in Y PROVE x \in X
    <3>1. PICK c \in 1..j : x = G[s][c]
      BY <2>2
    <3>2. <<"row", z + c>> \in P
      BY <2>1
    <3> QED BY <2>3, <3>1, <3>2
  <2> HIDE DEF X, Y
  <2>6. X = Y
    BY <2>4, <2>5
  <2> QED BY <1>3, <2>6 DEF X, Y, P, Sees
<1>5. CASE /\ DecodePlaces(places, n, ids) /\ \A t \in Busy : slot[t] = "decode"
           /\ \A m \in 1..n : lens[m] = 1 /\ SumOf(lens, m - 1) + 1 = m
  <2>0. j = 1 /\ z + j = k
    BY <1>3, <1>5
  <2>1. P = {<<"slot", SlotOf(block_tables[s], c - 1)>> : c \in 1..Len(text[s])}
    BY <1>5, <2>0 DEF DecodePlaces
  <2>2. computed[s] + j = Len(text[s])
    BY <1>1, <1>5, <2>0, BusyIs
  <2>3. ASSUME NEW c \in 1..Len(text[s])
        PROVE  EntryAt(H, E, <<"slot", SlotOf(block_tables[s], c - 1)>>) = G[s][c]
    <3>1. c \in 1..After(s)
      BY <1>2
    <3>2. c \in Nat \ {0} /\ c <= Len(block_tables[s]) * BlockSize
      BY <1>2, <3>1, AfterIs
    <3>3. BlockAt(s, c) \in Blocks
      BY <1>2, <3>2, BlockHeld
    <3>4. PICK q : q = SlotOf(block_tables[s], c - 1)
      OBVIOUS
    <3>5. q[1] = BlockAt(s, c) /\ q[2] = OffsetOf(c)
      <4>1. q = <<block_tables[s][IndexOf(c)], OffsetOf(c)>>
        BY <3>2, <3>4, SlotIs
      <4>2. q[2] = OffsetOf(c)
        BY <4>1
      <4> QED BY <3>4, <4>2 DEF BlockAt
    <3>6. EntryAt(H, E, <<"slot", q>>) = H[q[1]][q[2]]
      BY <3>3, <3>5 DEF EntryAt, HalfShape
    <3>7. Holds(H, G, s, c)
      BY <1>2, <3>1 DEF AllHold
    <3> QED BY <3>4, <3>5, <3>6, <3>7 DEF Holds
  <2> HIDE DEF P
  <2>4. ASSUME NEW x \in X PROVE x \in Y
    <3>1. PICK c \in 1..Len(text[s]) : x = EntryAt(H, E, <<"slot", SlotOf(block_tables[s], c - 1)>>)
      BY <2>1
    <3> QED BY <2>2, <2>3, <3>1
  <2>5. ASSUME NEW x \in Y PROVE x \in X
    <3>1. PICK c \in 1..Len(text[s]) : x = G[s][c]
      BY <2>2
    <3>2. <<"slot", SlotOf(block_tables[s], c - 1)>> \in P
      BY <2>1
    <3> QED BY <2>3, <3>1, <3>2
  <2> HIDE DEF X, Y
  <2>6. X = Y
    BY <2>4, <2>5
  <2> QED BY <1>3, <2>6 DEF X, Y, P, Sees
<1> QED BY <1>4, <1>5 DEF SeenBy

(* Prefixes of a prefix *)
LEMMA PrefixIs ==
    ASSUME NEW A, NEW T \in Seq(A), NEW i \in 1..Len(T)
    PROVE  /\ SubSeq(T, 1, i) = [c \in 1..i |-> T[c]] /\ Len(SubSeq(T, 1, i)) = i
           /\ \A c \in 1..i : SubSeq(SubSeq(T, 1, i), 1, c) = SubSeq(T, 1, c)
<1>1. i \in Nat \ {0} /\ i <= Len(T) /\ Len(T) \in Nat
  OBVIOUS
<1>2. \A d \in 1..Len(T) : SubSeq(T, 1, d) = [c \in 1..d |-> T[c]]
  OBVIOUS
<1>3. PICK U : U = SubSeq(T, 1, i)
  OBVIOUS
<1>4. U = [c \in 1..i |-> T[c]]
  BY <1>2, <1>3
<1>5. U \in Seq(A) /\ Len(U) = i
  <2>1. \A c \in 1..i : T[c] \in A
    BY <1>1
  <2>2. U \in [1..i -> A]
    BY <1>4, <2>1
  <2> QED BY <1>1, <2>2
<1>6. ASSUME NEW d \in 1..i PROVE SubSeq(U, 1, d) = SubSeq(T, 1, d)
  <2>1. d \in 1..Len(T) /\ d \in 1..Len(U) /\ d \in Nat
    BY <1>1, <1>5
  <2>2. SubSeq(T, 1, d) = [c \in 1..d |-> T[c]]
    BY <1>2, <2>1
  <2>3. SubSeq(U, 1, d) = [c \in 1..d |-> U[c]]
    BY <1>5, <2>1
  <2>4. \A c \in 1..d : U[c] = T[c]
    BY <1>1, <1>4, <2>1
  <2> QED BY <2>2, <2>3, <2>4
<1> QED BY <1>3, <1>4, <1>5, <1>6

(* The keys of a prefix of a text give the prefix. *)
LEMMA TextOfPrefix ==
    ASSUME NEW A, NEW T \in Seq(A), NEW i \in 1..Len(T),
           NEW keys, keys = {Key(T[c], c - 1) : c \in 1..i}
    PROVE  TextOf(keys) = SubSeq(T, 1, i)
<1>0. i \in Nat \ {0}
  OBVIOUS
<1>1. IsFiniteSet(1..i) /\ Cardinality(1..i) = i
  BY <1>0, FS_Interval
<1> DEFINE f == [c \in 1..i |-> Key(T[c], c - 1)]
<1>2. f \in Bijection(1..i, keys)
  <2>1. f \in [1..i -> keys]
    OBVIOUS
  <2>2. \A c, d \in 1..i : f[c] = f[d] => c = d
    <3> TAKE c \in 1..i, d \in 1..i
    <3>1. ASSUME f[c] = f[d] PROVE c = d
      <4>1. <<T[c], c - 1>> = <<T[d], d - 1>>
        BY <3>1 DEF Key
      <4>2. c - 1 = d - 1
        BY <4>1
      <4> QED BY <4>2
    <3> QED BY <3>1
  <2>3. \A x \in keys : \E c \in 1..i : f[c] = x
    OBVIOUS
  <2> HIDE DEF f
  <2> QED BY <2>1, <2>2, <2>3 DEF Bijection, Injection, Surjection, IsInjective
<1> HIDE DEF f
<1>3. Cardinality(keys) = i
  <2>1. ExistsBijection(1..i, keys)
    BY <1>2 DEF ExistsBijection
  <2> QED BY <1>1, <2>1, FS_Bijection
<1> DEFINE at(c) == {e \in keys : Len(e) = 2 /\ e[2] = c - 1}
<1>4. ASSUME NEW c \in 1..i PROVE at(c) = {Key(T[c], c - 1)}
  <2>1. Key(T[c], c - 1) \in at(c)
    BY DEF Key
  <2>2. ASSUME NEW e \in at(c) PROVE e = Key(T[c], c - 1)
    <3>1. PICK d \in 1..i : e = Key(T[d], d - 1)
      OBVIOUS
    <3>2. d - 1 = c - 1
      BY <3>1 DEF Key
    <3>3. d = c
      BY <3>2
    <3> QED BY <3>1, <3>3
  <2> HIDE DEF at
  <2> QED BY <2>1, <2>2
<1>5. TextOf(keys) = IF \A c \in 1..i : at(c) # {} THEN [c \in 1..i |-> (CHOOSE e \in at(c) : TRUE)[1]]
                     ELSE Nothing
  BY <1>3 DEF TextOf
<1> HIDE DEF at
<1>6. ASSUME NEW c \in 1..i PROVE (CHOOSE e \in at(c) : TRUE)[1] = T[c]
  <2>1. PICK x : x = (CHOOSE e \in at(c) : TRUE)
    OBVIOUS
  <2>2. x = Key(T[c], c - 1)
    BY <1>4, <2>1
  <2>3. x[1] = T[c]
    BY <2>2 DEF Key
  <2> QED BY <2>1, <2>3
<1>7. TextOf(keys) = [c \in 1..i |-> T[c]]
  <2>1. \A c \in 1..i : at(c) # {}
    BY <1>4
  <2> QED BY <1>5, <1>6, <2>1
<1> QED BY <1>7, PrefixIs

(* The keys and the values of the texts *)
KeyTable == [s \in SeqIds |-> [i \in 1..Len(text[s]) |-> Key(text[s][i], i - 1)]]

(* The value of a row is the text up to it. *)
PrefixTable == [s \in SeqIds |-> [i \in 1..Len(text[s]) |-> SubSeq(text[s], 1, i)]]

(* The memory holds what the sequences have computed. *)
MemoryHolds(mem) ==
    /\ HalfShape(mem.key) /\ HalfShape(mem.value)
    /\ \A s \in SeqIds : \A i \in 1..computed[s] : Holds(mem.key, KeyTable, s, i)
    /\ \A s \in SeqIds : \A i \in 1..computed[s] : Holds(mem.value, PrefixTable, s, i)

(* A pass computes the rest of every text in the batch, and each sequence gets
   the logits of its own. *)
LEMMA ForwardIs ==
    ASSUME Ready, NEW in, NEW n, NEW ids, NEW lens, LaidOut(in, n, ids, lens),
           RowsMatch(in, n, ids, lens), SeenBy(Attention(in), n, ids, lens),
           NEW mem, MemoryHolds(mem), NEW pass, pass = Forward(mem, in)
    PROVE  /\ HalfShape(pass.cache.key) /\ HalfShape(pass.cache.value)
           /\ AllHold(pass.cache.key, KeyTable) /\ AllHold(pass.cache.value, PrefixTable)
           /\ \A k \in 1..n : pass.logits[k] = text[ids[k]]
           /\ DOMAIN pass.logits = 1..n
<1>1. /\ n \in Nat \ {0} /\ ids \in [1..n -> Busy]
      /\ \A k \in 1..n : lens[k] = Remaining(ids[k])
      /\ DOMAIN in.tokens = 1..SumOf(lens, n)
      /\ in.query_start_loc = [k \in 1..(n + 1) |-> SumOf(lens, k - 1)]
  BY DEF LaidOut
<1>2. PICK R \in Nat : R = SumOf(lens, n) /\ \A k \in 1..n : lens[k] \in Nat \ {0}
  <2>1. \A k \in 1..n : lens[k] \in Nat \ {0}
    BY <1>1, BusyIs
  <2>2. SumOf(lens, n) \in Nat
    BY <1>1, <2>1, SumNat
  <2> QED BY <2>1, <2>2
<1>2a. n \in Nat /\ \A k \in 1..n : lens[k] \in Nat
  BY <1>1, <1>2
(* Row j of sequence k *)
<1>3. ASSUME NEW k \in 1..n, NEW j \in 1..lens[k]
      PROVE  /\ SumOf(lens, k - 1) + j \in 1..R /\ ids[k] \in SeqIds
             /\ text[ids[k]] \in Seq(SeqIds \cup Groups)
             /\ computed[ids[k]] + j \in 1..Len(text[ids[k]])
  <2>1. PICK s \in Busy : s = ids[k]
    BY <1>1
  <2>2. /\ s \in SeqIds /\ text[s] \in Seq(SeqIds \cup Groups) /\ computed[s] \in Nat
        /\ Len(text[s]) \in Nat /\ lens[k] = Len(text[s]) - computed[s]
    BY <1>1, <2>1, BusyIs DEF Remaining
  <2>3. computed[s] + j \in 1..Len(text[s])
    BY <2>2
  <2>4. /\ SumOf(lens, k - 1) \in Nat /\ SumOf(lens, k) = SumOf(lens, k - 1) + lens[k]
        /\ SumOf(lens, k) <= SumOf(lens, n)
    BY <1>2a, SumSpans
  <2>5. SumOf(lens, k - 1) + j \in 1..R
    BY <1>2, <2>4
  <2> QED BY <2>1, <2>2, <2>3, <2>5
<1>4. PICK places : places = Attention(in)
  OBVIOUS
<1>5. PICK inputs : inputs = InputKeys(in)
  OBVIOUS
<1>6. PICK keys : keys = ReshapeAndCacheFlash(mem.key, in, inputs)
  OBVIOUS
<1>7. PICK hidden : hidden = FirstLayer(keys, in, places)
  OBVIOUS
<1>8. PICK values : values = ReshapeAndCacheFlash(mem.value, in, hidden)
  OBVIOUS
<1>9. PICK out : out = LayersAbove(values, hidden, places)
  OBVIOUS
<1>10. SeenBy(places, n, ids, lens) /\ DOMAIN places = 1..R
  BY <1>2, <1>4 DEF SeenBy
<1>11. RowsHold(inputs, KeyTable, n, ids, lens)
  <2>1. ASSUME NEW k \in 1..n, NEW j \in 1..lens[k]
        PROVE  inputs[SumOf(lens, k - 1) + j] = KeyTable[ids[k]][computed[ids[k]] + j]
    <3>1. PICK s \in SeqIds : s = ids[k]
      BY <1>3
    <3>2. PICK i \in 1..Len(text[s]) : i = computed[s] + j
      BY <1>3, <3>1
    <3>3. PICK r \in 1..R : r = SumOf(lens, k - 1) + j
      BY <1>3
    <3>4. RowAt(in, r, s, i)
      BY <3>1, <3>2, <3>3 DEF RowsMatch
    <3>5. inputs[r] = Key(text[s][i], i - 1)
      BY <1>1, <1>2, <1>5, <3>4 DEF InputKeys, RowAt
    <3>6. KeyTable[s][i] = Key(text[s][i], i - 1)
      BY DEF KeyTable
    <3> QED BY <3>1, <3>2, <3>3, <3>5, <3>6
  <2> QED BY <2>1 DEF RowsHold
<1>12. HalfShape(keys) /\ AllHold(keys, KeyTable)
  <2>1. PICK H : H = mem.key
    OBVIOUS
  <2>2. HalfShape(H) /\ \A s \in SeqIds : \A i \in 1..computed[s] : Holds(H, KeyTable, s, i)
    BY <2>1 DEF MemoryHolds
  <2>3. keys = ReshapeAndCacheFlash(H, in, inputs)
    BY <1>6, <2>1
  <2>4. PICK G : G = KeyTable
    OBVIOUS
  <2> QED BY <1>11, <2>2, <2>3, <2>4, Written DEF AllHold
<1>13. ASSUME NEW k \in 1..n, NEW j \in 1..lens[k]
       PROVE  hidden[SumOf(lens, k - 1) + j] = SubSeq(text[ids[k]], 1, computed[ids[k]] + j)
  <2>1. PICK s \in SeqIds : s = ids[k] /\ text[s] \in Seq(SeqIds \cup Groups)
    BY <1>3
  <2>2. PICK T \in Seq(SeqIds \cup Groups) : T = text[s]
    BY <2>1
  <2>3. PICK i \in 1..Len(T) : i = computed[s] + j
    BY <1>3, <2>1, <2>2
  <2>4. PICK r \in 1..R : r = SumOf(lens, k - 1) + j
    BY <1>3
  <2>5. PICK seen : seen = {EntryAt(keys, inputs, p) : p \in places[r]}
    OBVIOUS
  <2>6. seen = {KeyTable[s][c] : c \in 1..i}
    <3>1. PICK G : G = KeyTable
      OBVIOUS
    <3>1a. RowsHold(inputs, G, n, ids, lens) /\ AllHold(keys, G) /\ HalfShape(keys)
      BY <1>11, <1>12, <3>1
    <3>2. Sees(keys, inputs, G, places[SumOf(lens, k - 1) + j], s, computed[s] + j)
      BY <1>10, <2>1, <3>1a, RowsSee
    <3> QED BY <2>3, <2>4, <2>5, <3>1, <3>2 DEF Sees
  <2>7. \A c \in 1..i : KeyTable[s][c] = Key(T[c], c - 1)
    BY <2>2, <2>3 DEF KeyTable
  <2>8. seen = {Key(T[c], c - 1) : c \in 1..i}
    BY <2>6, <2>7
  <2>9. hidden[r] = TextOf(seen)
    BY <1>5, <1>7, <1>10, <2>5 DEF FirstLayer
  <2>10. hidden[r] = SubSeq(T, 1, i)
    BY <2>8, <2>9, TextOfPrefix
  <2> QED BY <2>1, <2>2, <2>3, <2>4, <2>10
<1>14. RowsHold(hidden, PrefixTable, n, ids, lens)
  <2>1. ASSUME NEW k \in 1..n, NEW j \in 1..lens[k]
        PROVE  hidden[SumOf(lens, k - 1) + j] = PrefixTable[ids[k]][computed[ids[k]] + j]
    <3>1. PICK s \in SeqIds : s = ids[k]
      BY <1>3
    <3>2. PICK i \in 1..Len(text[s]) : i = computed[s] + j
      BY <1>3, <3>1
    <3>3. PrefixTable[s][i] = SubSeq(text[s], 1, i)
      BY DEF PrefixTable
    <3> QED BY <1>13, <3>1, <3>2, <3>3
  <2> QED BY <2>1 DEF RowsHold
<1>15. HalfShape(values) /\ AllHold(values, PrefixTable)
  <2>1. PICK H : H = mem.value
    OBVIOUS
  <2>2. HalfShape(H) /\ \A s \in SeqIds : \A i \in 1..computed[s] : Holds(H, PrefixTable, s, i)
    BY <2>1 DEF MemoryHolds
  <2>3. values = ReshapeAndCacheFlash(H, in, hidden)
    BY <1>8, <2>1
  <2>4. PICK G : G = PrefixTable
    OBVIOUS
  <2> QED BY <1>14, <2>2, <2>3, <2>4, Written DEF AllHold
<1>16. ASSUME NEW k \in 1..n PROVE out[SumOf(lens, k)] = text[ids[k]]
  <2>0. lens[k] \in Nat \ {0} /\ lens[k] \in 1..lens[k]
    BY <1>2
  <2>1. PICK s \in SeqIds : s = ids[k] /\ text[s] \in Seq(SeqIds \cup Groups)
    BY <1>3, <2>0
  <2>2. PICK T \in Seq(SeqIds \cup Groups) : T = text[s]
    BY <2>1
  <2>3. computed[s] + lens[k] = Len(T) /\ Len(T) \in 1..Len(T)
    <3>1. s \in Busy /\ lens[k] = Len(T) - computed[s] /\ computed[s] \in Nat /\ Len(T) \in Nat
      BY <1>1, <2>1, <2>2, BusyIs DEF Remaining
    <3> QED BY <2>0, <3>1
  <2>4. PICK r \in 1..R : r = SumOf(lens, k - 1) + lens[k]
    BY <1>3, <2>0
  <2>5. r = SumOf(lens, k)
    BY <1>2a, <2>4, SumSpans
  <2>6. /\ SubSeq(T, 1, Len(T)) = T
        /\ \A c \in 1..Len(T) : SubSeq(T, 1, c) = SubSeq(T, 1, c)
    OBVIOUS
  <2>7. hidden[r] = T
    BY <1>13, <2>0, <2>1, <2>2, <2>3, <2>4, <2>6
  <2>8. {EntryAt(values, hidden, p) : p \in places[r]} = {PrefixTable[s][c] : c \in 1..Len(T)}
    <3>1. PICK G : G = PrefixTable
      OBVIOUS
    <3>1a. RowsHold(hidden, G, n, ids, lens) /\ AllHold(values, G) /\ HalfShape(values)
      BY <1>14, <1>15, <3>1
    <3>2. PICK j \in 1..lens[k] : j = lens[k]
      BY <2>0
    <3>3. Sees(values, hidden, G, places[SumOf(lens, k - 1) + j], s, computed[s] + j)
      BY <1>10, <2>1, <3>1a, RowsSee
    <3> QED BY <2>3, <2>4, <3>1, <3>2, <3>3 DEF Sees
  <2>9. \A c \in 1..Len(T) : PrefixTable[s][c] = SubSeq(T, 1, c)
    BY <2>2 DEF PrefixTable
  <2>10. {EntryAt(values, hidden, p) : p \in places[r]} = {SubSeq(hidden[r], 1, c) : c \in 1..Len(hidden[r])}
    BY <2>7, <2>8, <2>9
  <2>11. out[r] = hidden[r]
    BY <1>9, <1>10, <2>10 DEF LayersAbove
  <2> QED BY <2>1, <2>2, <2>5, <2>7, <2>11
<1>17. pass.cache.key = keys /\ pass.cache.value = values
  BY <1>4, <1>5, <1>6, <1>7, <1>8 DEF Forward
<1> DEFINE selected == SelectedTokenIndices(in)
<1>18. selected = [k \in 1..n |-> SumOf(lens, k) - 1]
  <2>1. Len(in.query_start_loc) = n + 1
    BY <1>1
  <2>2. \A k \in 1..n : in.query_start_loc[k + 1] = SumOf(lens, k)
    <3> TAKE k \in 1..n
    <3>1. k + 1 \in 1..(n + 1) /\ (k + 1) - 1 = k
      BY <1>1
    <3> QED BY <1>1, <3>1
  <2>3. Len(in.query_start_loc) - 1 = n
    BY <1>1, <2>1
  <2> QED BY <2>2, <2>3 DEF SelectedTokenIndices
<1> HIDE DEF selected
<1>19. pass.logits = [k \in DOMAIN selected |-> out[selected[k] + 1]]
  BY <1>4, <1>5, <1>6, <1>7, <1>8, <1>9 DEF Forward, selected
<1>20. DOMAIN pass.logits = 1..n
  BY <1>18, <1>19
<1>21. ASSUME NEW k \in 1..n PROVE pass.logits[k] = text[ids[k]]
  <2>1. SumOf(lens, k) \in Nat
    BY <1>2a, SumSpans
  <2>2. selected[k] + 1 = SumOf(lens, k)
    BY <1>18, <2>1
  <2>3. pass.logits[k] = out[SumOf(lens, k)]
    BY <1>18, <1>19, <2>2
  <2> QED BY <1>16, <2>3
<1> QED BY <1>12, <1>15, <1>17, <1>20, <1>21

(* sample gives every scheduled sequence the logits of its own rows. *)
LEMMA SampleIs ==
    ASSUME NEW batch \in Batches, Busy # {}, NEW n, NEW ids, FlatIs(Flat(batch), n, ids),
           NEW logits, \A k \in 1..n : logits[k] = text[ids[k]]
    PROVE  DOMAIN Sample(batch, logits) = Busy /\ \A s \in Busy : Sample(batch, logits)[s] = text[s]
<1>1. PICK N, gs, order : BatchOf(batch, N, gs, order)
  BY BatchIs
<1>2. /\ N \in Nat \ {0} /\ gs \in [1..N -> BusyGroups] /\ Range(gs) = BusyGroups
      /\ batch = [i \in 1..N |-> Metadata(gs[i], order[gs[i]])]
      /\ \A g \in BusyGroups :
            \E m \in Nat \ {0} : order[g] \in [1..m -> Scheduled(g)] /\ Range(order[g]) = Scheduled(g)
  BY <1>1 DEF BatchOf
<1>3. DOMAIN batch = 1..N /\ Len(batch) = N
  BY <1>2
<1> DEFINE L == Pairs(batch)
           lens == [h \in DOMAIN batch |-> Len(batch[h].seqs)]
           F == Flat(batch)
(* Group i of the batch *)
<1>4. ASSUME NEW i \in 1..N
      PROVE  \E m \in Nat \ {0} :
                /\ batch[i].seqs = [k \in 1..m |-> Entry(order[gs[i]][k])]
                /\ lens[i] = m /\ DOMAIN batch[i].seqs = 1..m
                /\ L[i] = [k \in 1..m |-> <<batch[i], batch[i].seqs[k]>>]
                /\ order[gs[i]] \in [1..m -> Scheduled(gs[i])]
                /\ Range(order[gs[i]]) = Scheduled(gs[i])
  <2>1. PICK g \in BusyGroups : g = gs[i]
    BY <1>2
  <2>2. PICK m \in Nat \ {0} : order[g] \in [1..m -> Scheduled(g)] /\ Range(order[g]) = Scheduled(g)
    BY <1>2
  <2>3. batch[i] = Metadata(g, order[g])
    BY <1>2, <2>1
  <2>4. batch[i].seqs = [k \in 1..m |-> Entry(order[g][k])]
    BY <2>2, <2>3 DEF Metadata, Entry
  <2>5. Len(batch[i].seqs) = m /\ DOMAIN batch[i].seqs = 1..m
    BY <2>4
  <2>6. lens[i] = m
    BY <1>3, <2>5
  <2>7. L[i] = [k \in 1..m |-> <<batch[i], batch[i].seqs[k]>>]
    BY <1>3, <2>5 DEF Pairs
  <2> QED BY <2>1, <2>2, <2>4, <2>5, <2>6, <2>7
<1>5. Lists(L, N, lens)
  <2>1. DOMAIN L = 1..N /\ Len(L) = N
    BY <1>2, <1>3 DEF Pairs
  <2>2. ASSUME NEW i \in 1..N PROVE lens[i] \in Nat /\ Len(L[i]) = lens[i] /\ \E A : L[i] \in Seq(A)
    <3>1. PICK m \in Nat \ {0} : lens[i] = m /\ L[i] = [k \in 1..m |-> <<batch[i], batch[i].seqs[k]>>]
      BY <1>4
    <3> HIDE DEF L, lens
    <3>2. L[i] \in [1..m -> Range(L[i])]
      BY <3>1 DEF Range
    <3>3. L[i] \in Seq(Range(L[i])) /\ Len(L[i]) = m
      BY <3>1, <3>2
    <3> QED BY <3>1, <3>3
  <2> HIDE DEF L, lens
  <2> QED BY <1>2, <2>1, <2>2 DEF Lists
<1>6. NumSequences(batch) = SumOf(lens, N)
  BY <1>3 DEF NumSequences
<1>7. \A i \in 1..N : lens[i] \in Nat
  BY <1>5 DEF Lists
<1>8. n = SumOf(lens, N)
  BY <1>6, FlatLists DEF FlatIs
<1>9. ASSUME NEW i \in 1..N, NEW k \in 1..lens[i]
      PROVE  /\ logits[LogitsIdx(batch, i, k)] = text[batch[i].seqs[k].id]
             /\ k \in 1..NumSequences(batch)
  <2>1. PICK x : x = SumOf(lens, i - 1) + k
    OBVIOUS
  <2>2. LogitsIdx(batch, i, k) = x
    BY <2>1 DEF LogitsIdx
  <2> HIDE DEF L, lens, F
  <2>3. /\ SumOf(lens, i - 1) \in Nat /\ SumOf(lens, i) \in Nat
        /\ SumOf(lens, i) = SumOf(lens, i - 1) + lens[i] /\ SumOf(lens, i) <= SumOf(lens, N)
    <3>1. N \in Nat
      BY <1>2
    <3> QED BY <1>7, <3>1, SumSpans
  <2>4. lens[i] \in Nat /\ SumOf(lens, N) \in Nat
    <3>1. N \in Nat
      BY <1>2
    <3> QED BY <1>7, <3>1, SumNat
  <2>5. x \in 1..n /\ k \in 1..NumSequences(batch)
    BY <1>6, <1>8, <2>1, <2>3, <2>4
  <2>6. FlattenSeq(L)[x] = L[i][k]
    BY <1>5, <2>1, FlattenEntries
  <2>7. F[x] = <<batch[i], batch[i].seqs[k]>>
    <3>1. PICK m \in Nat \ {0} : lens[i] = m /\ L[i] = [c \in 1..m |-> <<batch[i], batch[i].seqs[c]>>]
      BY <1>4
    <3>2. L[i][k] = <<batch[i], batch[i].seqs[k]>>
      BY <3>1
    <3> QED BY <2>6, <3>2 DEF F, Flat, L
  <2>8. F[x][2] = Entry(ids[x])
    BY <2>5 DEF FlatIs, F
  <2>9. F[x][2] = batch[i].seqs[k]
    BY <2>7
  <2>10. batch[i].seqs[k].id = ids[x]
    BY <2>8, <2>9 DEF Entry
  <2> QED BY <2>2, <2>5, <2>10
<1> DEFINE places == {p \in (DOMAIN batch) \X (1..NumSequences(batch)) : p[2] \in DOMAIN batch[p[1]].seqs}
           out == Sample(batch, logits)
           ids2 == {batch[p[1]].seqs[p[2]].id : p \in places}
<1>10. out = [id \in ids2 |->
                LET p == CHOOSE p \in places : batch[p[1]].seqs[p[2]].id = id
                IN  logits[LogitsIdx(batch, p[1], p[2])]]
  BY DEF Sample
<1>11. ASSUME NEW p \in places
       PROVE  logits[LogitsIdx(batch, p[1], p[2])] = text[batch[p[1]].seqs[p[2]].id]
  <2>1. PICK i \in 1..N : i = p[1]
    BY <1>3
  <2>2. PICK k \in DOMAIN batch[i].seqs : k = p[2]
    BY <2>1
  <2>3. k \in 1..lens[i]
    BY <1>4, <2>2
  <2> QED BY <1>9, <2>1, <2>2, <2>3
<1>12. ASSUME NEW s \in Busy PROVE \E p \in places : batch[p[1]].seqs[p[2]].id = s
  <2>1. PICK g \in BusyGroups : s \in Scheduled(g)
    BY BusyFinite
  <2>2. PICK i \in 1..N : gs[i] = g
    BY <1>2, <2>1 DEF Range
  <2>3. PICK m \in Nat \ {0} :
                /\ batch[i].seqs = [k \in 1..m |-> Entry(order[g][k])]
                /\ lens[i] = m /\ DOMAIN batch[i].seqs = 1..m
                /\ order[g] \in [1..m -> Scheduled(g)] /\ Range(order[g]) = Scheduled(g)
    <3> HIDE DEF L, lens
    <3>1. PICK m \in Nat \ {0} :
                /\ batch[i].seqs = [k \in 1..m |-> Entry(order[gs[i]][k])]
                /\ lens[i] = m /\ DOMAIN batch[i].seqs = 1..m
                /\ order[gs[i]] \in [1..m -> Scheduled(gs[i])]
                /\ Range(order[gs[i]]) = Scheduled(gs[i])
      BY <1>4
    <3> QED BY <2>2, <3>1
  <2>4. PICK k \in 1..m : order[g][k] = s
    BY <2>1, <2>3 DEF Range
  <2>5. batch[i].seqs[k].id = s
    BY <2>3, <2>4 DEF Entry
  <2>6. k \in 1..NumSequences(batch) /\ k \in DOMAIN batch[i].seqs
    BY <1>9, <2>3
  <2>7. <<i, k>> \in places
    BY <1>3, <2>6
  <2> HIDE DEF places
  <2> QED BY <2>5, <2>7
<1>13. DOMAIN out \subseteq Busy
  BY SampleAnswers
<1> HIDE DEF places
<1>14. ids2 = DOMAIN out
  <2> HIDE DEF ids2, out
  <2> QED BY <1>10
<1>15. DOMAIN out = Busy
  <2>1. ASSUME NEW s \in Busy PROVE s \in ids2
    BY <1>12
  <2> HIDE DEF ids2, out
  <2> QED BY <1>13, <1>14, <2>1
<1>16. ASSUME NEW s \in Busy PROVE out[s] = text[s]
  <2>1. PICK p : p = CHOOSE q \in places : batch[q[1]].seqs[q[2]].id = s
    OBVIOUS
  <2>2. p \in places /\ batch[p[1]].seqs[p[2]].id = s
    BY <1>12, <2>1
  <2>3. out[s] = logits[LogitsIdx(batch, p[1], p[2])]
    <3>1. s \in ids2
      BY <1>14, <1>15
    <3> HIDE DEF ids2, out
    <3> QED BY <1>10, <2>1, <3>1
  <2> QED BY <1>11, <2>2, <2>3
<1> QED BY <1>15, <1>16

-----------------------------------------------------------------------------
(* ExecuteModel, put together *)

(* The memory the batch runs on *)
LEMMA MemoryIs ==
    ASSUME "cpu_offset" \in Repaired, IndInv, Texts, Covered, Transfers, Shape, AllStored,
           NEW mem, mem = CacheSwap(cache)
    PROVE  MemoryHolds(mem)
<1>1. PICK m2 : mem = CopyBlocks(m2, blocks_to_copy)
  BY DEF CacheSwap
<1>2. DOMAIN mem.key = Blocks /\ DOMAIN mem.value = Blocks
  BY <1>1 DEF CopyBlocks
<1>3. mem.key = Memory["key"] /\ mem.value = Memory["value"]
  BY DEF Memory
<1>4. ASSUME NEW b \in Blocks
      PROVE  /\ mem.key[b] = cache["key"][Origin(b)] /\ mem.value[b] = cache["value"][Origin(b)]
             /\ DOMAIN mem.key[b] = 0..(BlockSize - 1) /\ DOMAIN mem.value[b] = 0..(BlockSize - 1)
  <2>1. Origin(b) \in Blocks /\ Memory["key"][b] = cache["key"][Origin(b)]
        /\ Memory["value"][b] = cache["value"][Origin(b)]
    BY MemoryAt
  <2> QED BY <1>3, <2>1 DEF Shape
<1>5. ASSUME NEW s \in SeqIds, NEW i \in 1..computed[s]
      PROVE  Holds(mem.key, KeyTable, s, i) /\ Holds(mem.value, PrefixTable, s, i)
  <2>1. i \in Nat \ {0} /\ i <= Len(block_tables[s]) * BlockSize /\ i <= Len(text[s])
    BY ComputedHeld
  <2>2. PICK b \in Blocks : b = BlockAt(s, i)
    BY <2>1, BlockHeld
  <2>3. Stored(s, i)
    BY DEF AllStored
  <2>4. /\ mem.key[b][OffsetOf(i)] = Key(text[s][i], i - 1)
        /\ mem.value[b][OffsetOf(i)] = SubSeq(text[s], 1, i)
    BY <1>4, <2>2, <2>3 DEF Stored
  <2>5. Len(text[s]) \in Nat
    BY DEF Texts
  <2>6. i \in 1..Len(text[s])
    BY <2>1, <2>5
  <2>7. KeyTable[s][i] = Key(text[s][i], i - 1) /\ PrefixTable[s][i] = SubSeq(text[s], 1, i)
    BY <2>6 DEF KeyTable, PrefixTable
  <2> QED BY <2>2, <2>4, <2>7 DEF Holds
<1> QED BY <1>2, <1>4, <1>5 DEF MemoryHolds, HalfShape

(* What the batch leaves in the cache, once the maps are emptied *)
LEMMA CompletedStored ==
    ASSUME Ready, UNCHANGED <<vars, text>>, NEW mem, NEW outputs, NEW splits,
           Completed(mem, outputs, splits), DOMAIN outputs = Busy,
           HalfShape(mem.key), HalfShape(mem.value),
           AllHold(mem.key, KeyTable), AllHold(mem.value, PrefixTable)
    PROVE  AllStored' /\ Shape'
<1>0. IndInv /\ Texts /\ Covered
  BY DEF Ready
<1>1. /\ cache' = Relevant(mem, free_blocks)
      /\ computed' = [s \in SeqIds |-> IF s \in Busy THEN Length(s) ELSE computed[s]]
      /\ blocks_to_swap_in' = Empty /\ blocks_to_swap_out' = Empty /\ blocks_to_copy' = Empty
      /\ UNCHANGED <<block_tables, text>>
  BY DEF Completed, vars
<1>2. \A b : Origin(b)' = b
  <2>1. \A b : b \notin Range(Empty)
    BY EmptyMap
  <2>2. \A b : SourceIn(Empty, b) = b
    BY <2>1 DEF SourceIn
  <2> QED BY <1>1, <2>2 DEF Origin
<1>3. ASSUME NEW b \in Blocks
      PROVE  /\ DOMAIN cache'["key"][b] = 0..(BlockSize - 1) /\ DOMAIN cache'["value"][b] = 0..(BlockSize - 1)
             /\ b \notin free_blocks => cache'["key"][b] = mem.key[b] /\ cache'["value"][b] = mem.value[b]
  <2>1. /\ cache'["key"][b] = IF b \in free_blocks THEN Zeros ELSE mem.key[b]
        /\ cache'["value"][b] = IF b \in free_blocks THEN Zeros ELSE mem.value[b]
    BY <1>1 DEF Relevant
  <2> QED BY <2>1 DEF HalfShape, Zeros
<1>4. Shape'
  BY <1>3 DEF Shape
<1>5. ASSUME NEW s \in SeqIds, NEW i \in 1..computed'[s] PROVE Stored(s, i)'
  <2>1. computed'[s] = After(s)
    <3>1. s \in Busy => Length(s) = Len(text[s])
      BY BusyIs
    <3> QED BY <1>1, <3>1 DEF After
  <2>2. i \in 1..After(s)
    BY <2>1
  <2>3. i \in Nat \ {0} /\ i <= Len(block_tables[s]) * BlockSize /\ i <= Len(text[s])
    BY <2>2, AfterIs
  <2>4. PICK b \in Blocks : b = BlockAt(s, i) /\ b \notin free_blocks
    BY <1>0, <2>3, BlockHeld
  <2>5. BlockAt(s, i)' = b
    BY <1>1, <2>4 DEF BlockAt
  <2>6. Len(text[s]) \in Nat
    BY <1>0 DEF Texts
  <2>7. i \in 1..Len(text[s])
    BY <2>3, <2>6
  <2>8. KeyTable[s][i] = Key(text[s][i], i - 1) /\ PrefixTable[s][i] = SubSeq(text[s], 1, i)
    BY <2>7 DEF KeyTable, PrefixTable
  <2>9. Holds(mem.key, KeyTable, s, i) /\ Holds(mem.value, PrefixTable, s, i)
    BY <2>2 DEF AllHold
  <2>10. /\ cache'["key"][b][OffsetOf(i)] = Key(text[s][i], i - 1)
         /\ cache'["value"][b][OffsetOf(i)] = SubSeq(text[s], 1, i)
    BY <1>3, <2>4, <2>8, <2>9 DEF Holds
  <2>11. Origin(BlockAt(s, i))' = b
    BY <1>2, <2>5 DEF Origin
  <2> QED BY <1>1, <2>10, <2>11 DEF Stored
<1>6. AllStored'
  BY <1>5 DEF AllStored
<1> QED BY <1>4, <1>6

(* The inductive invariant of the cache *)
CacheInv ==
    /\ Shape /\ AllStored
    /\ SingleSources /\ LeftBehind /\ PromptsAlone
    /\ Progress /\ Covered /\ Filled /\ Answers

(* A batch runs to its end, stores what it computed, and answers every sequence
   from its whole text. *)
LEMMA RunsModel ==
    ASSUME Supported, PagedInv, BatchInv, CacheInv, ExecuteModel
    PROVE  RanModel /\ AllStored' /\ Shape'
<1>0. /\ IndInv /\ Grouped /\ Pass /\ Transfers /\ Texts /\ Kinds
      /\ Shape /\ AllStored /\ PromptsAlone /\ Progress /\ Covered /\ Filled
  BY DEF PagedInv, BatchInv, CacheInv
<1>1. /\ worker_err = "none" /\ ~executed /\ loop # "none" /\ appending = {}
      /\ UNCHANGED <<vars, text>>
  BY DEF ExecuteModel, Building, Idle
<1>2. Ready
  BY <1>0, <1>1 DEF Ready
<1>3. BlockSlidingWindow = 0 /\ KernelsFit /\ ~CopyFails /\ "cpu_offset" \in Repaired
  BY DEF Supported, CopyFails
<1>4. PICK mem : mem = CacheSwap(cache)
  OBVIOUS
<1>5. MemoryHolds(mem)
  BY <1>0, <1>3, <1>4, MemoryIs
<1>6. CASE Busy = {}
  <2>1. Completed(mem, Empty, 0)
    BY <1>3, <1>4, <1>6 DEF ExecuteModel, Busy
  <2>2. DOMAIN Empty = Busy
    BY <1>6, EmptyMap
  <2>3. \A s \in SeqIds : After(s) = computed[s]
    BY <1>6 DEF After
  <2>4. /\ HalfShape(mem.key) /\ HalfShape(mem.value)
        /\ AllHold(mem.key, KeyTable) /\ AllHold(mem.value, PrefixTable)
    BY <1>5, <2>3 DEF MemoryHolds, AllHold
  <2>5. AllStored' /\ Shape'
    BY <1>1, <1>2, <2>1, <2>2, <2>4, CompletedStored
  <2>6. RanModel
    <3>1. PICK out : out = Empty
      OBVIOUS
    <3>2. Completed(mem, out, 0) /\ DOMAIN out = Busy
      BY <2>1, <2>2, <3>1
    <3>3. (out # Empty) = (Busy # {})
      BY <1>6, <3>1
    <3> QED BY <1>1, <1>6, <3>2, <3>3 DEF Completed, RanModel
  <2> QED BY <2>5, <2>6
<1>7. CASE Busy # {}
  <2>1. PICK batch \in Batches : RunModel(batch, mem)
    BY <1>3, <1>4, <1>7 DEF ExecuteModel, Busy
  <2>2. PICK in : in = PrepareInputTensors(batch)
    OBVIOUS
  <2>3. PICK pass : pass = Forward(mem, in)
    OBVIOUS
  <2>4. PICK n, ids, lens :
              /\ LaidOut(in, n, ids, lens) /\ RowsMatch(in, n, ids, lens)
              /\ Len(Flat(batch)) = n /\ NumSequences(batch) = n
              /\ \A k \in 1..n : Flat(batch)[k][2] = Entry(ids[k]) /\ ListsSequence(Flat(batch)[k][1], ids[k])
    BY <1>2, <1>7, <2>2, Layout
  <2>5. FlatIs(Flat(batch), n, ids) /\ TensorsOf(in, Flat(batch))
    BY <2>2, <2>4, Tensors DEF FlatIs
  <2>6. SeenBy(Attention(in), n, ids, lens)
    <3>1. PICK F : F = Flat(batch)
      OBVIOUS
    <3>2. PICK places : places = Attention(in)
      OBVIOUS
    <3>3. FlatIs(F, n, ids) /\ TensorsOf(in, F)
      BY <2>5, <3>1
    <3>4. CASE \A s \in Busy : slot[s] = "prefill"
      <4>1. DOMAIN places = 1..SumOf(lens, n) /\ PromptPlaces(places, n, lens)
        BY <1>2, <1>7, <2>4, <3>2, <3>3, <3>4, PromptPlacesAre
      <4> QED BY <3>2, <3>4, <4>1 DEF SeenBy
    <3>5. CASE \A s \in Busy : slot[s] = "decode"
      <4>1. /\ DOMAIN places = 1..SumOf(lens, n) /\ DecodePlaces(places, n, ids)
            /\ \A k \in 1..n : lens[k] = 1 /\ SumOf(lens, k - 1) + 1 = k
        BY <1>2, <1>7, <2>4, <3>2, <3>3, <3>5, DecodePlacesAre
      <4> QED BY <3>2, <3>5, <4>1 DEF SeenBy
    <3> QED BY <1>2, <1>7, <3>4, <3>5, BusyIs
  <2>7. /\ HalfShape(pass.cache.key) /\ HalfShape(pass.cache.value)
        /\ AllHold(pass.cache.key, KeyTable) /\ AllHold(pass.cache.value, PrefixTable)
        /\ \A k \in 1..n : pass.logits[k] = text[ids[k]]
        /\ DOMAIN pass.logits = 1..n
    BY <1>2, <1>5, <2>3, <2>4, <2>6, ForwardIs
  <2>8. PICK outputs : outputs = Sample(batch, pass.logits)
    OBVIOUS
  <2>9. DOMAIN outputs = Busy /\ \A s \in Busy : outputs[s] = text[s]
    <3>1. PICK logits : logits = pass.logits
      OBVIOUS
    <3>2. \A k \in 1..n : logits[k] = text[ids[k]]
      BY <2>7, <3>1
    <3> QED BY <1>7, <2>5, <2>8, <3>1, <3>2, SampleIs
  <2>10. ~ForwardFails(in)
    <3>1. CASE loop = "prefills"
      BY <1>0, <1>1, <1>3, <1>7, <2>2, <3>1, PromptBatch
    <3>2. CASE loop \in {"running", "swapped"}
      BY <1>0, <1>3, <1>7, <2>2, <3>2, DecodeBatch
    <3> QED BY <1>0, <1>1, <3>1, <3>2 DEF Pass, Loops
  <2>11. ~InvalidLogits(batch, pass.logits)
    <3>1. n \in Nat
      BY <2>4 DEF LaidOut
    <3>2. Len(pass.logits) = n
      BY <2>7, <3>1
    <3> QED BY <2>4, <3>2 DEF InvalidLogits
  <2>12. PICK splits : splits = ComputeNumSplits(in)
    OBVIOUS
  <2>13. Completed(pass.cache, outputs, splits)
    BY <2>1, <2>2, <2>3, <2>8, <2>10, <2>11, <2>12 DEF RunModel
  <2>14. AllStored' /\ Shape'
    <3>1. PICK after : after = pass.cache
      OBVIOUS
    <3>2. /\ HalfShape(after.key) /\ HalfShape(after.value)
          /\ AllHold(after.key, KeyTable) /\ AllHold(after.value, PrefixTable)
          /\ Completed(after, outputs, splits)
      BY <2>7, <2>13, <3>1
    <3> QED BY <1>1, <1>2, <2>9, <3>2, CompletedStored
  <2>15. (outputs # Empty) = (Busy # {})
    BY <1>7, <2>9, EmptyMap
  <2>16. RanModel
    <3>1. /\ answer' = [s \in SeqIds |-> IF s \in Busy THEN text[s] ELSE answer[s]]
      BY <2>9, <2>13 DEF Completed
    <3>2. computed' = [s \in SeqIds |-> IF s \in Busy THEN Length(s) ELSE computed[s]]
      BY <2>9, <2>13 DEF Completed
    <3>3. loop' = "none" /\ executed' = (Busy # {}) /\ UNCHANGED worker_err
      BY <2>13, <2>15 DEF Completed
    <3> QED BY <1>1, <3>1, <3>2, <3>3 DEF RanModel
  <2> QED BY <2>14, <2>16
<1> QED BY <1>6, <1>7

(* An empty cache *)
LEMMA CacheInit == PagedInit => CacheInv
<1> SUFFICES ASSUME PagedInit PROVE CacheInv
  OBVIOUS
<1>1. /\ text = [s \in SeqIds |-> <<>>] /\ computed = [s \in SeqIds |-> 0]
      /\ cache = [half \in {"key", "value"} |-> [b \in Blocks |-> Zeros]]
      /\ blocks_to_swap_in = Empty /\ blocks_to_swap_out = Empty /\ blocks_to_copy = Empty
      /\ ~executed /\ answer = NoAnswer
      /\ \A s \in SeqIds : /\ block_tables[s] = <<>> /\ slot[s] = "none" /\ status[s] = "Unborn"
      /\ appending = {}
  BY DEF PagedInit, Init
<1>2. Shape
  BY <1>1 DEF Shape, Zeros
<1>3. AllStored
  BY <1>1 DEF AllStored
<1>4. SingleSources /\ LeftBehind /\ PromptsAlone
  BY <1>1, EmptyMap DEF SingleSources, LeftBehind, PromptsAlone
<1>5. Progress
  BY <1>1 DEF Progress, ProgressOf
<1>6. Covered
  <2>1. BlockSize \in Nat /\ Len(<<>>) = 0
    BY SizesAssumption
  <2>2. 0 * BlockSize = 0
    BY <2>1
  <2> QED BY <1>1, <2>1, <2>2 DEF Covered
<1>7. Filled
  BY <1>1 DEF Filled
<1>8. Answers
  BY <1>1 DEF Answers, NoAnswer
<1> QED BY <1>2, <1>3, <1>4, <1>5, <1>6, <1>7, <1>8 DEF CacheInv

(* CacheInv is kept by every step. *)
LEMMA CacheNext ==
    ASSUME Supported, PagedInv, PagedInv', BatchInv, BatchInv', CacheInv, [PagedNext]_allVars
    PROVE  CacheInv'
<1>1. ExecuteModel => RanModel /\ AllStored' /\ Shape'
  BY RunsModel
<1>2. /\ IndInv /\ IndInv' /\ Grouped /\ Pass /\ Transfers /\ Texts /\ Texts' /\ Kinds
      /\ Shape /\ AllStored /\ SingleSources /\ LeftBehind /\ PromptsAlone
      /\ Progress /\ Covered /\ Filled /\ Answers
  BY DEF PagedInv, BatchInv, CacheInv
<1>3. Shape'
  BY <1>1, <1>2, ShapeNext
<1>4. AllStored'
  BY <1>1, <1>2, StoredNext
<1>5. SingleSources'
  BY <1>2, SourcesNext
<1>6. LeftBehind'
  BY <1>1, <1>2, LeftNext
<1>7. PromptsAlone'
  BY <1>1, <1>2, AloneNext
<1>8. Progress'
  BY <1>1, <1>2, ProgressNext
<1>9. Covered'
  BY <1>1, <1>2, CoveredNext
<1>10. Filled'
  BY <1>2, FilledNext
<1>11. Answers'
  BY <1>1, <1>2, AnswersNext
<1> QED BY <1>3, <1>4, <1>5, <1>6, <1>7, <1>8, <1>9, <1>10, <1>11 DEF CacheInv

(* CacheInv holds in every state: whatever is still to be swapped or copied, the
   tokens a sequence has computed are where its block table will find them. *)
THEOREM CacheInvariance == ASSUME Supported PROVE PagedSpec => []CacheInv
<1>1. BlockSlidingWindow = 0
  BY DEF Supported
<1>2. ASSUME PagedInv, PagedInv', BatchInv, BatchInv', CacheInv, [PagedNext]_allVars PROVE CacheInv'
  BY <1>2, CacheNext
<1>3. PagedSpec => []PagedInv
  BY <1>1, PagedInvariance
<1>4. PagedSpec => []BatchInv
  BY <1>1, BatchInvariance
<1> QED BY <1>2, <1>3, <1>4, CacheInit, PTL DEF PagedSpec

-----------------------------------------------------------------------------
(* The refinement *)

(* What a sequence reads back when the cache is right *)
Known == [s \in SeqIds |-> SubSeq(text[s], 1, computed[s])]

(* Prefixes, the empty one included *)
LEMMA PrefixesAre ==
    ASSUME NEW A, NEW T \in Seq(A), NEW n \in 0..Len(T)
    PROVE  /\ SubSeq(T, 1, n) = [c \in 1..n |-> T[c]] /\ Len(SubSeq(T, 1, n)) = n
           /\ SubSeq(T, 1, 0) = <<>> /\ SubSeq(T, 1, Len(T)) = T
           /\ \A x \in A : SubSeq(Append(T, x), 1, n) = SubSeq(T, 1, n)
<1>1. Len(T) \in Nat /\ n \in Nat /\ n <= Len(T)
  OBVIOUS
<1>2. SubSeq(T, 1, n) = [c \in 1..n |-> T[c]]
  BY <1>1
<1>3. Len(SubSeq(T, 1, n)) = n
  BY <1>1, <1>2
<1>4. SubSeq(T, 1, 0) = <<>> /\ SubSeq(T, 1, Len(T)) = T
  BY <1>1
<1>5. ASSUME NEW x \in A PROVE SubSeq(Append(T, x), 1, n) = SubSeq(T, 1, n)
  <2>0. Append(T, x) \in Seq(A)
    OBVIOUS
  <2>1. PICK U \in Seq(A) : U = Append(T, x)
    BY <2>0
  <2>2. Len(U) = Len(T) + 1 /\ \A c \in 1..Len(T) : U[c] = T[c]
    BY <2>1
  <2>3. SubSeq(U, 1, n) = [c \in 1..n |-> U[c]]
    BY <1>1, <2>2
  <2>4. \A c \in 1..n : U[c] = T[c]
    BY <1>1, <2>2
  <2> QED BY <1>2, <2>1, <2>3, <2>4
<1> QED BY <1>2, <1>3, <1>4, <1>5

(* Of an empty text too *)
LEMMA EmptyPrefix == SubSeq(<<>>, 1, 0) = <<>>
OBVIOUS

(* What attention reads back through the block tables is what was computed. *)
LEMMA ReadableIs ==
    ASSUME Supported, PagedInv, BatchInv, CacheInv
    PROVE  Readable = Known
<1>0. /\ IndInv /\ Transfers /\ Texts /\ Covered /\ Shape /\ AllStored /\ "cpu_offset" \in Repaired
  BY DEF PagedInv, BatchInv, CacheInv, Supported
<1> DEFINE Right(s, i) ==
        /\ Memory["key"][SlotOf(block_tables[s], i - 1)[1]][SlotOf(block_tables[s], i - 1)[2]]
              = Key(text[s][i], i - 1)
        /\ Memory["value"][SlotOf(block_tables[s], i - 1)[1]][SlotOf(block_tables[s], i - 1)[2]]
              = SubSeq(text[s], 1, i)
<1>1. Readable = [s \in SeqIds |->
            IF block_tables[s] = <<>> THEN <<>>
            ELSE [i \in 1..computed[s] |-> IF Right(s, i) THEN text[s][i] ELSE Nothing]]
  BY DEF Readable
<1>2. ASSUME NEW s \in SeqIds, NEW i \in 1..computed[s] PROVE Right(s, i)
  <2>1. i \in Nat \ {0} /\ i <= Len(block_tables[s]) * BlockSize /\ i <= Len(text[s])
    BY <1>0, ComputedHeld
  <2>2. PICK b \in Blocks : b = BlockAt(s, i)
    BY <1>0, <2>1, BlockHeld
  <2>3. Stored(s, i)
    BY <1>0 DEF AllStored
  <2>4. Memory["key"][b] = cache["key"][Origin(b)] /\ Memory["value"][b] = cache["value"][Origin(b)]
    BY <1>0, MemoryAt
  <2>5. SlotOf(block_tables[s], i - 1)[1] = b /\ SlotOf(block_tables[s], i - 1)[2] = OffsetOf(i)
    <3>1. SlotOf(block_tables[s], i - 1)[1] = b
      BY <2>2 DEF BlockAt
    <3>2. SlotOf(block_tables[s], i - 1) = <<block_tables[s][IndexOf(i)], OffsetOf(i)>>
      BY <2>1, SlotIs
    <3> QED BY <3>1, <3>2
  <2> QED BY <2>2, <2>3, <2>4, <2>5 DEF Stored
<1> HIDE DEF Right
<1>3. ASSUME NEW s \in SeqIds PROVE Readable[s] = SubSeq(text[s], 1, computed[s])
  <2>1. PICK T \in Seq(SeqIds \cup Groups) : T = text[s]
    BY <1>0 DEF Texts
  <2>2. PICK n \in 0..Len(T) : n = computed[s]
    BY <1>0, <2>1 DEF Texts, TextOK
  <2>3. CASE block_tables[s] = <<>>
    <3>1. n = 0
      <4>1. BlockSize \in Nat /\ Len(<<>>) = 0
        BY SizesAssumption
      <4>2. n <= 0 * BlockSize
        BY <1>0, <2>2, <2>3, <4>1 DEF Covered
      <4> QED BY <2>2, <4>1, <4>2
    <3>2. SubSeq(T, 1, n) = <<>>
      BY <3>1, PrefixesAre
    <3> QED BY <1>1, <2>1, <2>2, <2>3, <3>2
  <2>4. CASE block_tables[s] # <<>>
    <3>1. Readable[s] = [i \in 1..n |-> IF Right(s, i) THEN text[s][i] ELSE Nothing]
      BY <1>1, <2>2, <2>4
    <3>2. \A i \in 1..n : Right(s, i)
      BY <1>2, <2>2
    <3>3. Readable[s] = [i \in 1..n |-> T[i]]
      BY <2>1, <3>1, <3>2
    <3>4. SubSeq(T, 1, n) = [i \in 1..n |-> T[i]]
      BY PrefixesAre
    <3> QED BY <2>1, <2>2, <3>3, <3>4
  <2> QED BY <2>3, <2>4
<1>4. Readable = [s \in SeqIds |-> Readable[s]]
  <2>1. PICK f : f = [s \in SeqIds |->
            IF block_tables[s] = <<>> THEN <<>>
            ELSE [i \in 1..computed[s] |-> IF Right(s, i) THEN text[s][i] ELSE Nothing]]
    OBVIOUS
  <2>2. f = [s \in SeqIds |-> f[s]]
    BY <2>1
  <2> QED BY <1>1, <2>1, <2>2
<1> QED BY <1>3, <1>4 DEF Known

(* The prefix a sequence knows, as a text *)
LEMMA KnownIs ==
    ASSUME Texts, NEW s \in SeqIds
    PROVE  /\ text[s] \in Seq(SeqIds \cup Groups) /\ Len(text[s]) \in Nat
           /\ computed[s] \in 0..Len(text[s])
           /\ Len(Known[s]) = computed[s]
           /\ computed[s] = 0 => Known[s] = <<>>
<1>1. PICK T \in Seq(SeqIds \cup Groups) : T = text[s]
  BY DEF Texts
<1>2. PICK n \in 0..Len(T) : n = computed[s]
  BY <1>1 DEF Texts, TextOK
<1>3. Len(SubSeq(T, 1, n)) = n /\ SubSeq(T, 1, 0) = <<>>
  BY PrefixesAre
<1> QED BY <1>1, <1>2, <1>3 DEF Known

(* Each action, as what it is to KvCache *)

(* Known depends on texts and tokens computed *)
LEMMA SameKnown ==
    ASSUME \A q \in SeqIds : text'[q] = text[q] /\ computed'[q] = computed[q]
    PROVE  Known' = Known
BY DEF Known

(* and changes where they do. *)
LEMMA KnownChange ==
    ASSUME NEW s \in SeqIds, NEW v, SubSeq(text'[s], 1, computed'[s]) = v,
           \A q \in SeqIds : q # s => text'[q] = text[q] /\ computed'[q] = computed[q]
    PROVE  Known' = [Known EXCEPT ![s] = v]
<1>1. PICK k : k = [q \in SeqIds |-> SubSeq(text[q], 1, computed[q])]
  OBVIOUS
<1>2. PICK l : l = [q \in SeqIds |-> SubSeq(text'[q], 1, computed'[q])]
  OBVIOUS
<1>3. Known = k /\ Known' = l
  BY <1>1, <1>2 DEF Known
<1>4. \A q \in SeqIds : l[q] = IF q = s THEN v ELSE k[q]
  BY <1>1, <1>2
<1>5. DOMAIN k = SeqIds /\ DOMAIN l = SeqIds /\ k = [q \in SeqIds |-> k[q]] /\ l = [q \in SeqIds |-> l[q]]
  BY <1>1, <1>2
<1>6. l = [k EXCEPT ![s] = v]
  BY <1>4, <1>5
<1> QED BY <1>3, <1>6

(* Prompt is Arrive. *)
LEMMA PromptArrives ==
    ASSUME PagedInv, BatchInv, NEW g \in Groups, Prompt(g)
    PROVE  /\ \A s \in SeqIds : text[s] # <<>> => text'[s] = text[s]
           /\ Known' = Known /\ answer' = answer
<1>0. IndInv /\ Texts
  BY DEF PagedInv, BatchInv
<1>1. /\ UNCHANGED <<computed, answer>>
      /\ \A q \in SeqIds : text'[q] = text[q] \/ (computed[q] = 0 /\ text[q] = <<>>)
  BY <1>0, PromptIs DEF SameSequence
<1>2. text' \in [SeqIds -> Seq(SeqIds \cup Groups)]
  BY <1>0, PromptTexts DEF Texts
<1>3. ASSUME NEW q \in SeqIds PROVE Known'[q] = Known[q]
  <2>1. Known'[q] = SubSeq(text'[q], 1, computed'[q]) /\ Known[q] = SubSeq(text[q], 1, computed[q])
    BY DEF Known
  <2>2. CASE text'[q] = text[q]
    BY <1>1, <2>1, <2>2
  <2>3. CASE computed[q] = 0 /\ text[q] = <<>>
    <3>1. PICK T \in Seq(SeqIds \cup Groups) : T = text'[q]
      BY <1>2
    <3>2. SubSeq(T, 1, 0) = <<>>
      OBVIOUS
    <3> QED BY <1>1, <2>1, <2>3, <3>1, <3>2, EmptyPrefix
  <2> QED BY <1>1, <2>2, <2>3
<1>4. Known' = Known
  BY <1>3 DEF Known
<1> QED BY <1>1, <1>4

(* Recompute is Forget. *)
LEMMA RecomputeForgets ==
    ASSUME Supported, PagedInv, BatchInv, NEW s \in SeqIds, Recompute(s)
    PROVE  Known' = [Known EXCEPT ![s] = <<>>] /\ UNCHANGED <<text, answer>>
<1>0. IndInv /\ Texts
  BY DEF PagedInv, BatchInv
<1>1. UNCHANGED <<text, answer>> /\ computed' = [computed EXCEPT ![s] = 0]
  BY <1>0, RecomputeIs
<1>2. computed \in [SeqIds -> Nat]
  BY <1>0 DEF Texts
<1>3. PICK T \in Seq(SeqIds \cup Groups) : T = text[s]
  BY <1>0 DEF Texts
<1>4. SubSeq(T, 1, 0) = <<>>
  OBVIOUS
<1>5. SubSeq(text'[s], 1, computed'[s]) = <<>>
  BY <1>1, <1>2, <1>3, <1>4
<1>6. \A q \in SeqIds : q # s => computed'[q] = computed[q]
  BY <1>1, <1>2
<1>7. Known' = [Known EXCEPT ![s] = <<>>]
  BY <1>1, <1>5, <1>6, KnownChange
<1> QED BY <1>1, <1>7

(* ExecuteModel is Compute for the sequences of the batch. *)
LEMMA ModelComputes ==
    ASSUME Supported, PagedInv, BatchInv, CacheInv, ExecuteModel
    PROVE  /\ \A s \in Busy : Len(Known[s]) < Len(text[s])
           /\ Known' = [s \in SeqIds |-> IF s \in Busy THEN text[s] ELSE Known[s]]
           /\ answer' = [s \in SeqIds |-> IF s \in Busy THEN text[s] ELSE answer[s]]
           /\ UNCHANGED text
<1>0. /\ IndInv /\ Grouped /\ Pass /\ Texts /\ Kinds /\ PromptsAlone /\ Progress /\ Covered /\ Filled
  BY DEF PagedInv, BatchInv, CacheInv
<1>1. RanModel
  BY RunsModel
<1>2. Ready
  BY <1>0, <1>1 DEF Ready, RanModel
<1>3. ASSUME NEW s \in Busy
      PROVE  Len(Known[s]) < Len(text[s]) /\ SubSeq(text[s], 1, Length(s)) = text[s]
  <2>1. PICK T \in Seq(SeqIds \cup Groups) : T = text[s]
    BY <1>2, BusyIs
  <2>2. s \in SeqIds /\ computed[s] < Len(T) /\ Length(s) = Len(T)
    BY <1>2, <2>1, BusyIs
  <2>3. SubSeq(T, 1, Len(T)) = T
    OBVIOUS
  <2>4. Len(Known[s]) = computed[s]
    BY <1>0, <2>2, KnownIs
  <2> QED BY <2>1, <2>2, <2>3, <2>4
<1>4. Known' = [s \in SeqIds |-> IF s \in Busy THEN text[s] ELSE Known[s]]
  <2>1. text' = text /\ computed' = [s \in SeqIds |-> IF s \in Busy THEN Length(s) ELSE computed[s]]
    BY <1>1 DEF RanModel
  <2>2. Known' = [s \in SeqIds |-> SubSeq(text'[s], 1, computed'[s])]
    BY DEF Known
  <2>3. ASSUME NEW s \in SeqIds
        PROVE  SubSeq(text'[s], 1, computed'[s]) = IF s \in Busy THEN text[s] ELSE Known[s]
    <3>1. Known[s] = SubSeq(text[s], 1, computed[s])
      BY DEF Known
    <3> QED BY <1>3, <2>1, <3>1
  <2> QED BY <2>2, <2>3
<1>5. /\ answer' = [s \in SeqIds |-> IF s \in Busy THEN text[s] ELSE answer[s]]
      /\ UNCHANGED text
  BY <1>1 DEF RanModel
<1> QED BY <1>3, <1>4, <1>5

(* ProcessOutput is Process. *)
LEMMA OutputProcessed ==
    ASSUME PagedInv, BatchInv, CacheInv, NEW s \in SeqIds, ProcessOutput(s)
    PROVE  /\ answer[s] # <<>> /\ answer' = [answer EXCEPT ![s] = <<>>]
           /\ \/ text' = [text EXCEPT ![s] = Append(text[s], s)]
              \/ UNCHANGED text
           /\ Known' = Known
<1>0. /\ IndInv /\ Texts /\ Pass /\ Answers
  BY DEF PagedInv, BatchInv, CacheInv
<1>1. /\ executed /\ slot[s] # "none" /\ UNCHANGED computed
      /\ answer' = [answer EXCEPT ![s] = <<>>]
      /\ UNCHANGED text \/ text' = [text EXCEPT ![s] = Append(text[s], s)]
  BY <1>0, OutputIs DEF Nothing
<1>2. status[s] = "Running"
  BY <1>0, <1>1 DEF IndInv, LengthsAgree, LengthOK
<1>3. answer[s] # <<>>
  <2>1. answer[s] = text[s]
    BY <1>0, <1>1 DEF Answers
  <2>2. Len(text[s]) = Length(s) /\ Length(s) >= MinPromptTokens /\ MinPromptTokens \in Nat \ {0}
    BY <1>0, <1>2, WorkerAssumption DEF Texts, TextOK, Live
  <2>3. Len(<<>>) = 0
    OBVIOUS
  <2>4. CASE text[s] = <<>>
    BY <2>2, <2>3, <2>4
  <2> QED BY <2>1, <2>4
<1>4. Known' = Known
  <2>1. CASE UNCHANGED text
    BY <1>1, <2>1, SameKnown
  <2>2. CASE text' = [text EXCEPT ![s] = Append(text[s], s)]
    <3>1. text \in [SeqIds -> Seq(SeqIds \cup Groups)]
      BY <1>0 DEF Texts
    <3>2. PICK T \in Seq(SeqIds \cup Groups) : T = text[s]
      BY <3>1
    <3>3. PICK n \in 0..Len(T) : n = computed[s]
      BY <1>0, <3>2, KnownIs
    <3>4. s \in SeqIds \cup Groups
      OBVIOUS
    <3>5. SubSeq(Append(T, s), 1, n) = SubSeq(T, 1, n)
      BY <3>4, PrefixesAre
    <3>6. \A q \in SeqIds : SubSeq(text'[q], 1, computed'[q]) = SubSeq(text[q], 1, computed[q])
      BY <1>1, <2>2, <3>1, <3>2, <3>3, <3>5
    <3> QED BY <3>6 DEF Known
  <2> QED BY <1>1, <2>1, <2>2
<1> QED BY <1>1, <1>3, <1>4

(* ForkSequence is Branch. *)
LEMMA ForkBranches ==
    ASSUME PagedInv, BatchInv, NEW p \in SeqIds, NEW c \in SeqIds, ForkSequence(p, c)
    PROVE  /\ text' = [text EXCEPT ![c] = text[p]] /\ Known' = [Known EXCEPT ![c] = Known[p]]
           /\ UNCHANGED answer
<1>0. IndInv /\ Texts
  BY DEF PagedInv, BatchInv
<1>1. /\ text' = [text EXCEPT ![c] = text[p]] /\ UNCHANGED answer
      /\ computed'[c] = computed[p] /\ text'[c] = text[p]
      /\ \A q \in SeqIds : q # c => text'[q] = text[q] /\ computed'[q] = computed[q]
  BY <1>0, ForkIs DEF SameSequence
<1>2. Known' = [Known EXCEPT ![c] = Known[p]]
  <2>0. Known[p] = SubSeq(text[p], 1, computed[p])
    BY DEF Known
  <2>1. SubSeq(text'[c], 1, computed'[c]) = Known[p]
    BY <1>1, <2>0
  <2> QED BY <1>1, <2>1, KnownChange
<1> QED BY <1>1, <1>2

(* AbortOrFinish is End. *)
LEMMA EndForgets ==
    ASSUME PagedInv, PagedInv', BatchInv, NEW s \in SeqIds, AbortOrFinish(s)
    PROVE  /\ text' = [text EXCEPT ![s] = <<>>] /\ Known' = [Known EXCEPT ![s] = <<>>]
           /\ UNCHANGED answer
<1>0. IndInv /\ IndInv' /\ Texts
  BY DEF PagedInv, BatchInv
<1>1. /\ text' = [text EXCEPT ![s] = <<>>] /\ UNCHANGED answer
      /\ computed'[s] = 0 /\ text'[s] = <<>>
      /\ \A q \in SeqIds : q # s => text'[q] = text[q] /\ computed'[q] = computed[q]
  BY <1>0, EndIs DEF SameSequence
<1>2. SubSeq(text'[s], 1, computed'[s]) = <<>>
  BY <1>1, EmptyPrefix
<1>3. Known' = [Known EXCEPT ![s] = <<>>]
  BY <1>1, <1>2, KnownChange
<1> QED BY <1>1, <1>3

(* ResetManager is ForgetAll. *)
LEMMA ResetForgets ==
    ASSUME PagedInv, PagedInv', ResetManager
    PROVE  /\ text' = [s \in SeqIds |-> <<>>] /\ Known' = [s \in SeqIds |-> <<>>]
           /\ UNCHANGED answer
<1>0. IndInv /\ IndInv'
  BY DEF PagedInv
<1>1. /\ text' = [s \in SeqIds |-> <<>>] /\ UNCHANGED answer
      /\ \A q \in SeqIds : text'[q] = <<>> /\ computed'[q] = 0
  BY <1>0, ResetIs
<1>2. \A q \in SeqIds : SubSeq(text'[q], 1, computed'[q]) = <<>>
  BY <1>1, EmptyPrefix
<1>3. Known' = [s \in SeqIds |-> <<>>]
  BY <1>2 DEF Known
<1> QED BY <1>1, <1>3

(* Nothing is known at first. *)
LEMMA InitRefines == PagedInit => Contents!Init
<1> SUFFICES ASSUME PagedInit PROVE Contents!Init
  OBVIOUS
<1>1. /\ text = [s \in SeqIds |-> <<>>] /\ answer = [s \in SeqIds |-> <<>>]
      /\ block_tables = [s \in SeqIds |-> <<>>]
  BY DEF PagedInit, Init, NoAnswer, Nothing
<1>2. Readable = [s \in SeqIds |-> <<>>]
  BY <1>1 DEF Readable
<1> QED BY <1>1, <1>2 DEF Contents!Init, Contents!Nothing

(* Every step is a step of KvCache or leaves what it sees alone. *)
LEMMA StepRefines ==
    ASSUME Supported, PagedInv, PagedInv', BatchInv, CacheInv,
           Readable = Known, Readable' = Known', [PagedNext]_allVars
    PROVE  [Contents!Next]_(Contents!kv_vars)
<1>1. ASSUME NEW g \in Groups, Prompt(g) PROVE Contents!Arrive
  BY <1>1, PromptArrives DEF Contents!Arrive
<1>2. ASSUME NEW g \in Groups, Prefill(g) \/ Continue(g) \/ PreemptBySwap(g) \/ Resume(g)
      PROVE  UNCHANGED Contents!kv_vars
  <2>1. UNCHANGED <<text, computed, answer>>
    BY <1>2 DEF Prefill, Continue, WorkerUnchanged, PreemptBySwap, Resume, results
  <2>2. Known' = Known
    BY <2>1, SameKnown
  <2> QED BY <2>1, <2>2 DEF Contents!kv_vars
<1>3. ASSUME NEW s \in SeqIds, AppendOne(s) PROVE UNCHANGED Contents!kv_vars
  <2>1. UNCHANGED <<text, computed, answer>>
    BY <1>3 DEF AppendOne, results
  <2>2. Known' = Known
    BY <2>1, SameKnown
  <2> QED BY <2>1, <2>2 DEF Contents!kv_vars
<1>4. ASSUME NEW s \in SeqIds, Recompute(s) PROVE Contents!Forget(s)
  BY <1>4, RecomputeForgets DEF Contents!Forget
<1>5. ASSUME NEW s \in SeqIds, ProcessOutput(s) PROVE Contents!Process(s)
  <2>1. /\ answer[s] # <<>> /\ answer' = [answer EXCEPT ![s] = <<>>]
        /\ \/ text' = [text EXCEPT ![s] = Append(text[s], s)]
           \/ UNCHANGED text
        /\ Known' = Known
    BY <1>5, OutputProcessed
  <2> QED BY <2>1 DEF Contents!Process
<1>6. ASSUME NEW s \in SeqIds, AbortOrFinish(s) PROVE Contents!End(s)
  BY <1>6, EndForgets DEF Contents!End
<1>7. ASSUME NEW p \in SeqIds, NEW c \in SeqIds, ForkSequence(p, c) PROVE Contents!Branch(p, c)
  BY <1>7, ForkBranches DEF Contents!Branch
<1>8. ASSUME ExecuteModel PROVE Contents!Compute
  <2>1. /\ \A s \in Busy : Len(Known[s]) < Len(text[s])
        /\ Known' = [s \in SeqIds |-> IF s \in Busy THEN text[s] ELSE Known[s]]
        /\ answer' = [s \in SeqIds |-> IF s \in Busy THEN text[s] ELSE answer[s]]
        /\ UNCHANGED text
    BY <1>8, ModelComputes
  <2>2. Busy \in SUBSET SeqIds
    BY DEF Busy
  <2> QED BY <2>1, <2>2 DEF Contents!Compute
<1>9. ASSUME ResetManager PROVE Contents!ForgetAll
  BY <1>9, ResetForgets DEF Contents!ForgetAll, Contents!Nothing
<1>10. ASSUME UNCHANGED allVars PROVE UNCHANGED Contents!kv_vars
  <2>1. UNCHANGED <<text, computed, answer>>
    BY <1>10 DEF allVars, worker_vars
  <2>2. Known' = Known
    BY <2>1, SameKnown
  <2> QED BY <2>1, <2>2 DEF Contents!kv_vars
<1> QED BY <1>1, <1>2, <1>3, <1>4, <1>5, <1>6, <1>7, <1>8, <1>9, <1>10 DEF PagedNext, Contents!Next

(* ImplementsKvCache: PagedKvCache implements KvCache.  Through allocation,
   preemption of either kind, swaps, copies on write and forks, with the copies
   carried out later and in the worker's own order, a sequence reads back the keys
   and values of its own tokens; and every output of execute_model is computed
   from the whole text of its own sequence, whatever else is in the batch. *)
THEOREM CacheIsKept == ASSUME Supported PROVE PagedSpec => ImplementsKvCache
<1>1. BlockSlidingWindow = 0
  BY DEF Supported
<1>2. PagedInv /\ BatchInv /\ CacheInv => Readable = Known
  BY ReadableIs
<1>3. ASSUME PagedInv, PagedInv', BatchInv, CacheInv, Readable = Known, (Readable = Known)',
             [PagedNext]_allVars
      PROVE  [Contents!Next]_(Contents!kv_vars)
  BY <1>3, StepRefines
<1>4. PagedSpec => []PagedInv
  BY <1>1, PagedInvariance
<1>5. PagedSpec => []BatchInv
  BY <1>1, BatchInvariance
<1>6. PagedSpec => []CacheInv
  BY CacheInvariance
<1> QED BY <1>2, <1>3, <1>4, <1>5, <1>6, InitRefines, PTL DEF PagedSpec, ImplementsKvCache, Contents!Spec

(* ReadsBack: with the offset of a CPU tensor honoured by swap_blocks, a running
   sequence reads back all it has computed, also after it was swapped out and in
   again. *)
THEOREM TextsReadBack == ASSUME Supported PROVE PagedSpec => []ReadsBack
<1>1. BlockSlidingWindow = 0
  BY DEF Supported
<1>2. PagedInv /\ BatchInv /\ CacheInv => ReadsBack
  BY ReadableIs DEF ReadsBack, Known
<1>3. PagedSpec => []PagedInv
  BY <1>1, PagedInvariance
<1>4. PagedSpec => []BatchInv
  BY <1>1, BatchInvariance
<1>5. PagedSpec => []CacheInv
  BY CacheInvariance
<1> QED BY <1>2, <1>3, <1>4, <1>5, PTL

(* The one error left under Supported is the refusal of a prefill. *)
Refusals == worker_err \in {"none", "InvalidPrefillSequences"}

(* Refusals is kept. *)
LEMMA RefusalsNext ==
    ASSUME Supported, PagedInv, BatchInv, CacheInv, Refusals, [PagedNext]_allVars
    PROVE  Refusals'
<1>1. ASSUME NEW g \in Groups, Prompt(g) \/ Prefill(g) \/ Continue(g) \/ PreemptBySwap(g) \/ Resume(g)
      PROVE  Refusals'
  BY <1>1 DEF Prompt, Prefill, Continue, WorkerUnchanged, PreemptBySwap, Resume, Refusals
<1>2. ASSUME NEW s \in SeqIds, AppendOne(s) \/ Recompute(s) \/ ProcessOutput(s) \/ AbortOrFinish(s)
      PROVE  Refusals'
  BY <1>2 DEF AppendOne, Recompute, ProcessOutput, AbortOrFinish, Refusals
<1>3. ASSUME NEW p \in SeqIds, NEW c \in SeqIds, ForkSequence(p, c) PROVE Refusals'
  BY <1>3 DEF ForkSequence, Refusals
<1>4. ASSUME ExecuteModel PROVE Refusals'
  BY <1>4, RunsModel DEF RanModel, Refusals
<1>5. ASSUME ResetManager PROVE Refusals'
  BY <1>5 DEF ResetManager, Refusals
<1>6. ASSUME UNCHANGED allVars PROVE Refusals'
  BY <1>6 DEF allVars, worker_vars, Refusals
<1> QED BY <1>1, <1>2, <1>3, <1>4, <1>5, <1>6 DEF PagedNext

(* PagedTypeOK: texts are as long as the logical blocks say, never shorter than
   what was computed; the maps lead from the device of their sources to that of
   their targets; an answer is a text. *)
THEOREM PagedTypes == ASSUME Supported PROVE PagedSpec => []PagedTypeOK
<1>1. BlockSlidingWindow = 0
  BY DEF Supported
<1>2. ASSUME PagedInv, BatchInv, CacheInv, Refusals PROVE PagedTypeOK
  <2>1. /\ Texts /\ Pass /\ Transfers /\ Answers /\ IndInv
    BY <1>2 DEF PagedInv, BatchInv, CacheInv
  <2>2. computed \in [SeqIds -> Nat] /\ text \in [SeqIds -> Seq(SeqIds \cup Groups)]
    BY <2>1 DEF Texts
  <2>3. ASSUME NEW s \in SeqIds
        PROVE  /\ Len(text[s]) = (IF status[s] \in {"Unborn", "Finished"} THEN 0 ELSE Length(s))
               /\ computed[s] <= Len(text[s])
    <3>1. status[s] \in {"Unborn", "Finished"} \cup Live
      BY <2>1 DEF IndInv, TypeOK, Live, Statuses
    <3>2. /\ status[s] \in Live => Len(text[s]) = Length(s)
          /\ status[s] \notin Live => text[s] = <<>>
          /\ computed[s] <= Len(text[s])
      BY <2>1 DEF Texts, TextOK
    <3>3. Len(<<>>) = 0
      OBVIOUS
    <3> QED BY <3>1, <3>2, <3>3 DEF Live
  <2>4. /\ DOMAIN blocks_to_swap_in \subseteq CpuBlocks /\ Range(blocks_to_swap_in) \subseteq GpuBlocks
        /\ DOMAIN blocks_to_swap_out \subseteq GpuBlocks /\ Range(blocks_to_swap_out) \subseteq CpuBlocks
        /\ DOMAIN blocks_to_copy \subseteq GpuBlocks /\ Range(blocks_to_copy) \subseteq GpuBlocks
    BY <2>1 DEF Transfers, SwapInsFixed, SwapOutsFixed, CopiesFixed
  <2>5. /\ loop \in {"none", "running", "swapped", "prefills"}
        /\ preempted \in BOOLEAN /\ executed \in BOOLEAN
    BY <2>1 DEF Pass, Loops
  <2>6. answer \in [SeqIds -> Seq(SeqIds \cup Groups)]
    <3>1. <<>> \in Seq(SeqIds \cup Groups)
      OBVIOUS
    <3>2. answer = [s \in SeqIds |-> IF executed /\ slot[s] # "none" THEN text[s] ELSE <<>>]
      BY <2>1 DEF Answers, Nothing
    <3> QED BY <2>2, <3>1, <3>2
  <2>7. worker_err \in {"none", "UnexpectedDType", "CandleError", "InvalidLogits", "InvalidPrefillSequences"}
    BY <1>2 DEF Refusals
  <2> QED BY <2>2, <2>3, <2>4, <2>5, <2>6, <2>7 DEF PagedTypeOK
<1>3. PagedInit => Refusals
  BY DEF PagedInit, Refusals
<1>4. ASSUME PagedInv, BatchInv, CacheInv, Refusals, [PagedNext]_allVars PROVE Refusals'
  BY <1>4, RefusalsNext
<1>5. PagedSpec => []PagedInv
  BY <1>1, PagedInvariance
<1>6. PagedSpec => []BatchInv
  BY <1>1, BatchInvariance
<1>7. PagedSpec => []CacheInv
  BY CacheInvariance
<1> QED BY <1>2, <1>3, <1>4, <1>5, <1>6, <1>7, PTL DEF PagedSpec

=============================================================================
