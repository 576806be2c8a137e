------------------------- MODULE BlockSpaceManager -------------------------
(***************************************************************************)
(* The paged KV-cache block manager: `BlockSpaceManager` together with the *)
(* two `BlockAllocator`s it owns (GPU and CPU) and the part of `Sequence`  *)
(* the manager reads (status and logical token blocks).                    *)
(*                                                                         *)
(* The callers are the scheduler's own call patterns: `can_allocate` then  *)
(* `allocate`; `can_append_slots` then `append_slots` once per running     *)
(* sequence; `can_swap_out` then `swap_out`; `can_swap_in` then `swap_in`  *)
(* then `append_slots`; `free` on abort and on preemption by               *)
(* recomputation; plus `fork` and `reset`, which the manager exports.      *)
(*                                                                         *)
(* A block stands for (device, block number).  A free list is a set: which *)
(* free block `allocate` pops is left open, so nothing depends on it.      *)
(***************************************************************************)
EXTENDS Integers, Sequences, FiniteSets, Functions, CacheConfig

CONSTANTS
    GpuBlocks,          \* blocks of gpu_allocator
    CpuBlocks,          \* blocks of cpu_allocator
    SeqIds,             \* sequence ids
    Groups,             \* sequence groups
    GroupOf,            \* the group a sequence belongs to
    MaxLogicalBlocks,   \* bound: the longest sequence, in logical blocks
    BlockSlidingWindow  \* block_sliding_window, 0 when it is None

ASSUME BlocksAssumption ==
    /\ IsFiniteSet(GpuBlocks)
    /\ IsFiniteSet(CpuBlocks)
    /\ GpuBlocks \cap CpuBlocks = {}

ASSUME SequencesAssumption ==
    /\ IsFiniteSet(SeqIds)
    /\ GroupOf \in [SeqIds -> Groups]

ASSUME SizesAssumption ==
    /\ BlockSize \in Nat \ {0}
    /\ MaxLogicalBlocks \in Nat
    /\ BlockSlidingWindow \in Nat

VARIABLES
    status,        \* SequenceStatus; the five Finished* variants are one
    logical,       \* logical_token_blocks.len()
    last_fill,     \* tokens in the last logical block
    block_tables,  \* sequence id -> physical blocks, <<>> when there is no entry
    ref_count,     \* PhysicalTokenBlock.ref_count
    free_blocks,   \* free_blocks of both allocators
    appending,     \* sequences left in the running loop of Scheduler::append_slots
    slot,          \* what the batch being built reserved for the sequence
    err            \* the error an operation returned; the engine does not go on

vars == <<status, logical, last_fill, block_tables, ref_count, free_blocks,
          appending, slot, err>>

Blocks == GpuBlocks \cup CpuBlocks

Statuses == {"Unborn", "Waiting", "Running", "Swapped", "Finished"}

Slots == {"none", "prefill", "decode"}

Errors == {"none", "AppendSlotError", "OutOfMemory", "CannotDoubleFree", "Panic"}

-----------------------------------------------------------------------------
(* Reading the state *)

FreeGpu == free_blocks \cap GpuBlocks

FreeCpu == free_blocks \cap CpuBlocks

Members(g) == {s \in SeqIds : GroupOf[s] = g}

WithStatus(g, st) == {s \in Members(g) : status[s] = st}

Unfinished(g) == {s \in Members(g) : status[s] \in {"Waiting", "Running", "Swapped"}}

Owners(b) == {s \in SeqIds : b \in Range(block_tables[s])}

(* The distinct blocks in the tables of S *)
HeldBy(S) == UNION {Range(block_tables[s]) : s \in S}

(* get_physical_blocks: the distinct blocks of the unfinished sequences *)
GetPhysicalBlocks(g) == HeldBy(Unfinished(g))

(* The positions of the tables of S that hold b: the iterations of the swap
   loops that meet b. *)
Uses(tables, S, b) ==
    UNION {{<<s, i>> : i \in {j \in DOMAIN tables[s] : tables[s][j] = b}} : s \in S}

NumUses(tables, S, b) == Cardinality(Uses(tables, S, b))

(* set_sequence_status for the sequences of S *)
SetStatus(S, st) == [s \in SeqIds |-> IF s \in S THEN st ELSE status[s]]

Idle == err = "none" /\ appending = {}

Fail(e) ==
    /\ err' = e
    /\ UNCHANGED <<status, logical, last_fill, block_tables, ref_count,
                   free_blocks, appending, slot>>

-----------------------------------------------------------------------------
Init ==
    /\ status = [s \in SeqIds |-> "Unborn"]
    /\ logical = [s \in SeqIds |-> 0]
    /\ last_fill = [s \in SeqIds |-> 0]
    /\ block_tables = [s \in SeqIds |-> <<>>]
    /\ ref_count = [b \in Blocks |-> 0]
    /\ free_blocks = Blocks
    /\ appending = {}
    /\ slot = [s \in SeqIds |-> "none"]
    /\ err = "none"

(* A request arrives: its sequences share one prompt of n logical blocks. *)
NewGroup(g) ==
    /\ Idle
    /\ \A s \in Members(g) : status[s] = "Unborn"
    /\ \E S \in SUBSET Members(g), n \in 1..MaxLogicalBlocks, k \in 1..BlockSize :
        /\ S # {}
        /\ status' = [s \in SeqIds |-> IF s \in S THEN "Waiting" ELSE status[s]]
        /\ logical' = [s \in SeqIds |-> IF s \in S THEN n ELSE logical[s]]
        /\ last_fill' = [s \in SeqIds |-> IF s \in S THEN k ELSE last_fill[s]]
    /\ UNCHANGED <<block_tables, ref_count, free_blocks, appending, slot, err>>

-----------------------------------------------------------------------------
(* can_allocate and allocate.  One table is built for the whole group, each
   of its blocks counts one reference per waiting sequence.  Past the sliding
   window the table reuses the blocks it already has. *)

(* set_ref_count_by: one reference per waiting sequence *)
RefsPerBlock_One(W) == 1

RefsPerBlock(W) == Cardinality(W)

(* BlockAllocator::allocate pops the blocks it hands out *)
Popped_Kept(B) == free_blocks

Popped(B) == free_blocks \ B

NumRequired(n) ==
    IF BlockSlidingWindow > 0 /\ BlockSlidingWindow < n THEN BlockSlidingWindow ELSE n

CanAllocate_AnyBlock(n) == FreeGpu # {}

(* can_allocate answers Ok *)
CanAllocate(n) == NumRequired(n) <= Cardinality(FreeGpu)

(* BlockAllocator::allocate, called k times, meets an empty free list. *)
OutOfBlocks(k, free) == Cardinality(free) < k

Allocate(g) ==
    /\ Idle
    /\ \E first \in WithStatus(g, "Waiting") :
        LET W == WithStatus(g, "Waiting")
            n == logical[first]
            k == NumRequired(n)
        IN  /\ CanAllocate(n)
            /\ IF OutOfBlocks(k, FreeGpu) THEN Fail("OutOfMemory")
               ELSE /\ \E fresh \in Injection(1..k, FreeGpu) :
                        /\ block_tables' = [s \in SeqIds |->
                                IF s \in W
                                THEN [i \in 1..n |-> IF i <= k THEN fresh[i] ELSE fresh[((i - 1) % k) + 1]]
                                ELSE block_tables[s]]
                        /\ ref_count' = [b \in Blocks |->
                                IF b \in Range(fresh) THEN RefsPerBlock(W) ELSE ref_count[b]]
                        /\ free_blocks' = Popped(Range(fresh))
                    /\ status' = SetStatus(W, "Running")
                    /\ slot' = [s \in SeqIds |-> IF s \in W THEN "prefill" ELSE slot[s]]
                    /\ UNCHANGED <<logical, last_fill, appending, err>>

-----------------------------------------------------------------------------
(* can_append_slots: one free GPU block per running sequence of the group.
   The scheduler then loops over those sequences, in HashMap order. *)

CanAppendSlots_AnyBlock(g) == FreeGpu # {}

CanAppendSlots(g) == Cardinality(WithStatus(g, "Running")) <= Cardinality(FreeGpu)

StartAppend(g) ==
    /\ Idle
    /\ WithStatus(g, "Running") # {}
    /\ \A s \in WithStatus(g, "Running") : slot[s] = "none"
    /\ CanAppendSlots(g)
    /\ appending' = WithStatus(g, "Running")
    /\ UNCHANGED <<status, logical, last_fill, block_tables, ref_count,
                   free_blocks, slot, err>>

(* The sequence has the slot for its next token; the loop moves on. *)
SlotReady(s) ==
    /\ appending' = appending \ {s}
    /\ slot' = [slot EXCEPT ![s] = "decode"]
    /\ UNCHANGED <<status, logical, last_fill, err>>

(* A new physical block at the end of the table. *)
PushBlock(s) ==
    \E b \in FreeGpu :
        /\ block_tables' = [block_tables EXCEPT ![s] = Append(@, b)]
        /\ ref_count' = [ref_count EXCEPT ![b] = @ + 1]
        /\ free_blocks' = free_blocks \ {b}
        /\ SlotReady(s)

CopyOnWrite_KeepRef(s, t) ==
    \E b \in FreeGpu :
        /\ block_tables' = [block_tables EXCEPT ![s] = [t EXCEPT ![Len(t)] = b]]
        /\ ref_count' = [ref_count EXCEPT ![b] = 1]
        /\ free_blocks' = free_blocks \ {b}
        /\ SlotReady(s)

(* Copy on write: the shared last block of t is replaced by a new one and
   loses one reference. *)
CopyOnWrite(s, t) ==
    LET last == t[Len(t)]
    IN  \E b \in FreeGpu :
        IF ref_count[last] = 0 /\ b # last THEN Fail("CannotDoubleFree")
        ELSE /\ block_tables' = [block_tables EXCEPT ![s] = [t EXCEPT ![Len(t)] = b]]
             /\ ref_count' = [ref_count EXCEPT ![b] = @ + 1, ![last] = @ - 1]
             /\ free_blocks' = (free_blocks \ {b})
                                 \cup (IF ref_count'[last] = 0 THEN {last} ELSE {})
             /\ SlotReady(s)

(* The last block has to be copied before it is written. *)
IsShared_Never(b) == FALSE

IsShared(b) == ref_count[b] # 1

(* append_slots for one sequence *)
AppendSlots(s) ==
    LET t == block_tables[s]
        n == Len(t)
        grow == n < logical[s]
        reuse == grow /\ BlockSlidingWindow > 0 /\ n >= BlockSlidingWindow
        u == IF reuse THEN Append(t, t[(n % BlockSlidingWindow) + 1]) ELSE t
        fresh == (grow /\ ~reuse) \/ IsShared(u[Len(u)])
    IN  /\ err = "none"
        /\ s \in appending
        /\ IF grow /\ n # logical[s] - 1 THEN Fail("AppendSlotError")
           ELSE IF fresh /\ FreeGpu = {} THEN Fail("OutOfMemory")
           ELSE IF grow /\ ~reuse THEN PushBlock(s)
           ELSE IF fresh THEN CopyOnWrite(s, u)
           ELSE /\ block_tables' = [block_tables EXCEPT ![s] = u]
                /\ SlotReady(s)
                /\ UNCHANGED <<ref_count, free_blocks>>

(* The batch ran.  add_token_id appends the sampled token to the logical
   blocks; a step that samples nothing for the sequence leaves them. *)
AddTokenId(s) ==
    /\ Idle
    /\ slot[s] # "none"
    /\ slot' = [slot EXCEPT ![s] = "none"]
    /\ \/ /\ last_fill[s] < BlockSize
          /\ last_fill' = [last_fill EXCEPT ![s] = @ + 1]
          /\ UNCHANGED logical
       \/ /\ last_fill[s] = BlockSize
          /\ logical[s] < MaxLogicalBlocks
          /\ logical' = [logical EXCEPT ![s] = @ + 1]
          /\ last_fill' = [last_fill EXCEPT ![s] = 1]
       \/ UNCHANGED <<logical, last_fill>>
    /\ UNCHANGED <<status, block_tables, ref_count, free_blocks, appending, err>>

(* fork: the child shares every block of the parent; a block counts the child
   once even when a sliding window made the table repeat it. *)
Fork(p, c) ==
    /\ Idle
    /\ status[p] = "Running"
    /\ slot[p] = "none"
    /\ block_tables[p] # <<>>
    /\ status[c] = "Unborn"
    /\ GroupOf[c] = GroupOf[p]
    /\ status' = [status EXCEPT ![c] = status[p]]
    /\ logical' = [logical EXCEPT ![c] = logical[p]]
    /\ last_fill' = [last_fill EXCEPT ![c] = last_fill[p]]
    /\ block_tables' = [block_tables EXCEPT ![c] = block_tables[p]]
    /\ ref_count' = [b \in Blocks |->
            IF b \in Range(block_tables[p]) THEN ref_count[b] + 1 ELSE ref_count[b]]
    /\ UNCHANGED <<free_blocks, appending, slot, err>>

-----------------------------------------------------------------------------
(* swap_out and swap_in.  `m` is the mapping built on the way: a block met
   for the first time gets a block of the other device, every later meeting
   reuses it and counts one more reference.  The old block is freed once per
   meeting. *)

Moved(S, m) ==
    [s \in SeqIds |->
        IF s \in S THEN [i \in DOMAIN block_tables[s] |-> m[block_tables[s][i]]]
        ELSE block_tables[s]]

Swap_FreshPerSequence(S, target, st) ==
    \E f \in [S -> [1..MaxLogicalBlocks -> target]] :
        LET tables == [s \in SeqIds |->
                IF s \in S THEN [i \in DOMAIN block_tables[s] |-> f[s][i]]
                ELSE block_tables[s]]
            new == UNION {Range(tables[s]) : s \in S}
            old == HeldBy(S)
        IN  /\ \A s, t \in S : s # t => Range(tables[s]) \cap Range(tables[t]) = {}
            /\ \A s \in S : IsInjective(tables[s])
            /\ block_tables' = tables
            /\ ref_count' = [b \in Blocks |->
                    CASE b \in new -> 1
                      [] b \in old -> 0
                      [] OTHER -> ref_count[b]]
            /\ free_blocks' = (free_blocks \ new) \cup old
            /\ status' = [s \in SeqIds |-> IF s \in S THEN st ELSE status[s]]
            /\ UNCHANGED <<logical, last_fill, slot, err>>

Swap(S, target, st) ==
    LET D == HeldBy(S)
    IN  \E m \in Injection(D, target) :
            /\ block_tables' = Moved(S, m)
            /\ ref_count' = [b \in Blocks |->
                    CASE b \in D -> ref_count[b] - NumUses(block_tables, S, b)
                      [] b \in Range(m) -> NumUses(Moved(S, m), S, b)
                      [] OTHER -> ref_count[b]]
            /\ free_blocks' = (free_blocks \ Range(m))
                    \cup {b \in D : ref_count[b] = NumUses(block_tables, S, b)}
            /\ status' = SetStatus(S, st)
            /\ UNCHANGED <<logical, last_fill, slot, err>>

(* The swap loop frees a block more often than it is referenced. *)
DoubleFrees(S) ==
    \E b \in HeldBy(S) :
        ref_count[b] < NumUses(block_tables, S, b)

CanSwapOut_AnyBlock(g) == FreeCpu # {}

CanSwapOut(g) == Cardinality(GetPhysicalBlocks(g)) <= Cardinality(FreeCpu)

SwapOut(g) ==
    LET S == WithStatus(g, "Running")
    IN  /\ Idle
        /\ S # {}
        /\ \A s \in S : slot[s] = "none"
        /\ CanSwapOut(g)
        /\ IF DoubleFrees(S) THEN Fail("CannotDoubleFree")
           ELSE IF OutOfBlocks(Cardinality(HeldBy(S)), FreeCpu) THEN Fail("OutOfMemory")
           ELSE Swap(S, FreeCpu, "Swapped") /\ UNCHANGED appending

(* can_swap_in answers Ok: room for the blocks and one more per sequence *)
CanSwapIn(g) ==
    LET required == Cardinality(GetPhysicalBlocks(g)) + Cardinality(WithStatus(g, "Swapped"))
    IN  required <= Cardinality(GpuBlocks) /\ required <= Cardinality(FreeGpu)

SwapIn(g) ==
    LET S == WithStatus(g, "Swapped")
    IN  /\ Idle
        /\ S # {}
        /\ CanSwapIn(g)
        /\ IF DoubleFrees(S) THEN Fail("CannotDoubleFree")
           ELSE IF OutOfBlocks(Cardinality(HeldBy(S)), FreeGpu) THEN Fail("OutOfMemory")
           ELSE Swap(S, FreeGpu, "Running") /\ appending' = S

-----------------------------------------------------------------------------
(* free_block_table, once for every sequence of S.  With a sliding window
   the code frees the part of the table past the window only. *)

BlocksToFree(t) ==
    IF BlockSlidingWindow = 0 THEN Range(t)
    ELSE {t[i] : i \in (BlockSlidingWindow + 1)..Len(t)}

NumFrees(S, b) == Cardinality({s \in S : b \in BlocksToFree(block_tables[s])})

FreeTables_All(S) ==
    LET D == HeldBy(S)
    IN  /\ ref_count' = [b \in Blocks |-> IF b \in D THEN 0 ELSE ref_count[b]]
        /\ free_blocks' = free_blocks \cup D
        /\ block_tables' = [s \in SeqIds |-> IF s \in S THEN <<>> ELSE block_tables[s]]

FreeTables(S) ==
    /\ ref_count' = [b \in Blocks |-> ref_count[b] - NumFrees(S, b)]
    /\ free_blocks' = free_blocks \cup
            {b \in Blocks : NumFrees(S, b) > 0 /\ ref_count[b] = NumFrees(S, b)}
    /\ block_tables' = [s \in SeqIds |-> IF s \in S THEN <<>> ELSE block_tables[s]]

(* Slicing a table shorter than the window panics. *)
SlicePanics(S) ==
    \E s \in S : block_tables[s] # <<>> /\ Len(block_tables[s]) < BlockSlidingWindow

FreeFails(S) == \E b \in Blocks : ref_count[b] < NumFrees(S, b)

(* free, called with the status the caller has just set; idempotent *)
FreeSequence(s, st) ==
    IF SlicePanics({s}) THEN Fail("Panic")
    ELSE IF FreeFails({s}) THEN Fail("CannotDoubleFree")
    ELSE /\ FreeTables({s})
         /\ status' = [status EXCEPT ![s] = st]
         /\ slot' = [slot EXCEPT ![s] = "none"]
         /\ UNCHANGED <<logical, last_fill, appending, err>>

(* Abort: abort_sequence_group frees each unfinished sequence *)
Abort(s) ==
    /\ Idle
    /\ status[s] \in {"Waiting", "Running", "Swapped"}
    /\ FreeSequence(s, "Finished")

(* preempt_by_recompute: only for a group with one unfinished sequence *)
PreemptByRecompute(s) ==
    /\ Idle
    /\ status[s] = "Running"
    /\ slot[s] = "none"
    /\ Unfinished(GroupOf[s]) = {s}
    /\ FreeSequence(s, "Waiting")

(* The engine marks a sequence finished; it does not free its table. *)
Finish(s) ==
    /\ Idle
    /\ status[s] = "Running"
    /\ slot[s] = "none"
    /\ status' = [status EXCEPT ![s] = "Finished"]
    /\ UNCHANGED <<logical, last_fill, block_tables, ref_count, free_blocks,
                   appending, slot, err>>

(* reset frees every table and clears the map; the caller forgets its groups *)
Reset ==
    /\ Idle
    /\ IF SlicePanics(SeqIds) THEN Fail("Panic")
       ELSE IF FreeFails(SeqIds) THEN Fail("CannotDoubleFree")
       ELSE /\ FreeTables(SeqIds)
            /\ status' = [s \in SeqIds |-> "Unborn"]
            /\ logical' = [s \in SeqIds |-> 0]
            /\ last_fill' = [s \in SeqIds |-> 0]
            /\ slot' = [s \in SeqIds |-> "none"]
            /\ UNCHANGED <<appending, err>>

-----------------------------------------------------------------------------
GroupStep(g) ==
    NewGroup(g) \/ Allocate(g) \/ StartAppend(g) \/ SwapOut(g) \/ SwapIn(g)

SequenceStep(s) ==
    AppendSlots(s) \/ AddTokenId(s) \/ Abort(s) \/ PreemptByRecompute(s) \/ Finish(s)

Next ==
    \/ \E g \in Groups : GroupStep(g)
    \/ \E s \in SeqIds : SequenceStep(s)
    \/ \E p, c \in SeqIds : Fork(p, c)
    \/ Reset

Spec == Init /\ [][Next]_vars

-----------------------------------------------------------------------------
(* Properties *)

(* Every variable keeps its type; in particular a reference count never
   becomes negative, a table holds only blocks of the two allocators and a
   logical block never holds more tokens than its size. *)
TypeOK ==
    /\ status \in [SeqIds -> Statuses]
    /\ logical \in [SeqIds -> Nat]
    /\ last_fill \in [SeqIds -> 0..BlockSize]
    /\ block_tables \in [SeqIds -> Seq(Blocks)]
    /\ ref_count \in [Blocks -> Nat]
    /\ free_blocks \in SUBSET Blocks
    /\ appending \in SUBSET SeqIds
    /\ slot \in [SeqIds -> Slots]
    /\ err \in Errors

(* The reference count of a block is the number of sequences whose table
   holds it, through allocation, copy on write, fork, swap and free. *)
RefCountsMatchTables ==
    \A b \in Blocks : ref_count[b] = Cardinality(Owners(b))

(* A block is on the free list exactly when no table holds it: the allocator
   never hands out a block in use, and no block is lost. *)
FreeListExact ==
    \A b \in Blocks : b \in free_blocks <=> Owners(b) = {}

(* get_physical_blocks assumes that physical blocks are only shared across
   the sequences of one group. *)
SharedOnlyWithinGroup ==
    \A s, t \in SeqIds :
        Range(block_tables[s]) \cap Range(block_tables[t]) # {} => GroupOf[s] = GroupOf[t]

(* The table of a running sequence lies on the GPU, that of a swapped one on
   the CPU, and a waiting one has none. *)
TablesOnDevice ==
    \A s \in SeqIds :
        /\ status[s] \in {"Unborn", "Waiting"} => block_tables[s] = <<>>
        /\ status[s] = "Running" => Range(block_tables[s]) \subseteq GpuBlocks
        /\ status[s] = "Swapped" => Range(block_tables[s]) \subseteq CpuBlocks

(* A sequence that goes into a decode step has a physical block for every
   logical one, and the block its new token is written to is its own: the
   write reaches no other sequence. *)
ExclusiveWriteSlot ==
    \A s \in SeqIds :
        slot[s] = "decode" =>
            /\ Len(block_tables[s]) = logical[s]
            /\ Owners(block_tables[s][Len(block_tables[s])]) = {s}

(* The capacity tests are sufficient: after can_allocate, can_swap_out and
   can_swap_in the loops that follow never run out of blocks, neither does the
   append loop after can_append_slots or can_swap_in, and no block is freed
   more often than it is referenced. *)
NoOperationFails == err = "none"

(* A swap in either direction keeps the length of every table and which
   positions of which tables share a block. *)
SwapKeepsSharing ==
    [][\A s, t \in SeqIds :
         /\ {status[s], status'[s]} = {"Running", "Swapped"}
         /\ {status[t], status'[t]} = {"Running", "Swapped"}
         => /\ Len(block_tables'[s]) = Len(block_tables[s])
            /\ \A i \in DOMAIN block_tables[s], j \in DOMAIN block_tables[t] :
                 (block_tables[s][i] = block_tables[t][j])
                   <=> (block_tables'[s][i] = block_tables'[t][j])]_vars

-----------------------------------------------------------------------------
(* What the invariants above rest on, without a sliding window *)

(* No table repeats a block. *)
TablesDistinct == \A s \in SeqIds : IsInjective(block_tables[s])

(* A table lags its logical blocks by at most one block, and by none while
   the sequence is in a batch; a waiting group has one common length. *)
LengthOK(s) ==
    /\ status[s] # "Unborn" => logical[s] >= 1
    /\ status[s] # "Running" => slot[s] = "none"
    /\ status[s] \in {"Running", "Swapped"} =>
            /\ Len(block_tables[s]) >= 1
            /\ Len(block_tables[s]) <= logical[s]
            /\ Len(block_tables[s]) >= logical[s] - 1
    /\ slot[s] # "none" => Len(block_tables[s]) = logical[s]

LengthsAgree ==
    /\ \A s \in SeqIds : LengthOK(s)
    /\ \A s, t \in SeqIds :
        GroupOf[s] = GroupOf[t] /\ status[s] = "Waiting" /\ status[t] = "Waiting"
            => logical[s] = logical[t]

(* The append loop has a free GPU block left for each of its sequences. *)
AppendFits ==
    /\ \A s \in appending : status[s] = "Running" /\ slot[s] = "none"
    /\ Cardinality(appending) <= Cardinality(FreeGpu)

(* The inductive invariant of the block manager: reference counts, free list,
   devices, lengths and the room left for the append loop, together. *)
IndInv ==
    /\ TypeOK
    /\ TablesDistinct
    /\ RefCountsMatchTables
    /\ FreeListExact
    /\ SharedOnlyWithinGroup
    /\ TablesOnDevice
    /\ LengthsAgree
    /\ AppendFits
    /\ ExclusiveWriteSlot
    /\ NoOperationFails
=============================================================================
