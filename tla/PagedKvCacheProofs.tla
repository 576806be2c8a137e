------------------------- MODULE PagedKvCacheProofs -------------------------
(***************************************************************************)
(* Proofs about the block manager together with the worker's memory.  The  *)
(* scheduling pass of PagedKvCache is a client of the block manager, so    *)
(* IndInv holds in it; Grouped, Pass and Transfers are what it adds.  The  *)
(* second half is about the batch the worker runs: Texts, Kinds and Splits *)
(* are the invariants that make every check of the worker pass.            *)
(***************************************************************************)
EXTENDS PagedKvCache, BlockSpaceManagerProofs, ListsProofs

-----------------------------------------------------------------------------
(* The pass and the worker use the block manager as it is meant to be used *)

LEMMA PagedCalls == ASSUME PagedNext PROVE [Next]_vars
<1>1. ASSUME NEW g \in Groups, Prompt(g) \/ Prefill(g) \/ Continue(g) \/ PreemptBySwap(g) \/ Resume(g)
      PROVE  Next
  BY <1>1 DEF Prompt, Prefill, Continue, PreemptBySwap, Resume, Next, GroupStep
<1>2. ASSUME NEW s \in SeqIds, AppendOne(s) \/ Recompute(s) \/ ProcessOutput(s) \/ AbortOrFinish(s)
      PROVE  Next
  BY <1>2 DEF AppendOne, Recompute, ProcessOutput, AbortOrFinish, Next, SequenceStep
<1>3. ASSUME NEW p \in SeqIds, NEW c \in SeqIds, ForkSequence(p, c) PROVE Next
  BY <1>3 DEF ForkSequence, Next
<1>4. ASSUME ExecuteModel PROVE UNCHANGED vars
  BY <1>4 DEF ExecuteModel
<1>5. ASSUME ResetManager PROVE Next
  BY <1>5 DEF ResetManager, Next
<1> QED BY <1>1, <1>2, <1>3, <1>4, <1>5 DEF PagedNext

(* The paged cache implements the block manager's specification: the loops of a
   pass, the batches and the processing of outputs call it in no other way. *)
THEOREM PagedDrivesManager == PagedSpec => Spec
<1>1. PagedInit => Init
  BY DEF PagedInit
<1>2. [PagedNext]_allVars => [Next]_vars
  BY PagedCalls DEF allVars
<1> QED BY <1>1, <1>2, PTL DEF PagedSpec, Spec

(* So tables, counts and free lists agree while the worker runs. *)
THEOREM ManagerHoldsInCache == ASSUME BlockSlidingWindow = 0 PROVE PagedSpec => []IndInv
BY PagedDrivesManager, Invariance, PTL

-----------------------------------------------------------------------------
(* The sequences of a group *)

Live == {"Waiting", "Running", "Swapped"}

(* Texts are bounded, and the unfinished sequences of a group have one status:
   it is admitted, preempted and swapped in as a whole. *)
Bounded == \A s \in SeqIds : logical[s] <= MaxLogicalBlocks

Uniform ==
    \A s, t \in SeqIds :
        GroupOf[s] = GroupOf[t] /\ status[s] \in Live /\ status[t] \in Live => status[s] = status[t]

(* The append loop is over all running sequences of the group. *)
Together ==
    \A s \in appending, t \in SeqIds :
        GroupOf[s] = GroupOf[t] /\ status[t] = "Running" => t \in appending \/ slot[t] # "none"

Grouped == Bounded /\ Uniform /\ Together

LEMMA GroupedInit == Init => Grouped
BY SizesAssumption DEF Init, Grouped, Bounded, Uniform, Together, Live

LEMMA AppendGrouped ==
    ASSUME IndInv, Grouped, NEW s \in SeqIds, AppendSlots(s)
    PROVE  Grouped'
<1>1. /\ UNCHANGED <<status, logical>>
      /\ \/ UNCHANGED <<appending, slot>>
         \/ appending' = appending \ {s} /\ slot' = [slot EXCEPT ![s] = "decode"]
  BY DEF AppendSlots, Fail, PushBlock, CopyOnWrite, SlotReady
<1>2. slot \in [SeqIds -> Slots]
  BY DEF IndInv, TypeOK
<1>3. Together'
  <2>1. CASE UNCHANGED <<appending, slot>>
    BY <1>1, <2>1 DEF Grouped, Together
  <2>2. CASE appending' = appending \ {s} /\ slot' = [slot EXCEPT ![s] = "decode"]
    BY <1>1, <1>2, <2>2 DEF Grouped, Together
  <2> QED BY <1>1, <2>1, <2>2
<1> QED BY <1>1, <1>3 DEF Grouped, Bounded, Uniform

LEMMA GroupStepGrouped ==
    ASSUME IndInv, Grouped, NEW g \in Groups, GroupStep(g)
    PROVE  Grouped'
<1>0. /\ status \in [SeqIds -> Statuses] /\ GroupOf \in [SeqIds -> Groups]
      /\ appending = {} /\ err = "none" /\ logical \in [SeqIds -> Nat]
  BY SequencesAssumption DEF IndInv, TypeOK, GroupStep, NewGroup, Allocate, StartAppend, SwapOut, SwapIn, Idle
<1>1. CASE NewGroup(g)
  <2>1. PICK S \in SUBSET Members(g), n \in 1..MaxLogicalBlocks :
            /\ status' = [s \in SeqIds |-> IF s \in S THEN "Waiting" ELSE status[s]]
            /\ logical' = [s \in SeqIds |-> IF s \in S THEN n ELSE logical[s]]
    BY <1>1 DEF NewGroup
  <2>2. UNCHANGED appending /\ \A s \in Members(g) : status[s] = "Unborn"
    BY <1>1 DEF NewGroup
  <2>3. Bounded'
    BY <2>1, SizesAssumption DEF Grouped, Bounded
  <2>4. Uniform'
    BY <2>1, <2>2 DEF Grouped, Uniform, Live, Members
  <2>5. Together'
    BY <1>0, <2>2 DEF Together
  <2> QED BY <2>3, <2>4, <2>5 DEF Grouped
<1>2. CASE Allocate(g)
  <2>1. status' = SetStatus(WithStatus(g, "Waiting"), "Running") /\ UNCHANGED <<logical, appending>>
    BY <1>2, AllocateSucceeds
  <2>2. Uniform'
    BY <1>0, <2>1 DEF Grouped, Uniform, Live, SetStatus, WithStatus, Members
  <2> QED BY <1>0, <2>1, <2>2 DEF Grouped, Bounded, Together
<1>3. CASE StartAppend(g)
  <2>1. appending' = WithStatus(g, "Running") /\ UNCHANGED <<status, logical>>
    BY <1>3 DEF StartAppend
  <2>2. Together'
    BY <2>1 DEF Together, WithStatus, Members
  <2> QED BY <2>1, <2>2 DEF Grouped, Bounded, Uniform
<1>4. CASE SwapOut(g)
  <2>1. /\ status' = SetStatus(WithStatus(g, "Running"), "Swapped") \/ UNCHANGED status
        /\ UNCHANGED <<logical, appending>>
    BY <1>4 DEF SwapOut, Swap, Fail
  <2>2. Uniform'
    BY <1>0, <2>1 DEF Grouped, Uniform, Live, SetStatus, WithStatus, Members
  <2> QED BY <1>0, <2>1, <2>2 DEF Grouped, Bounded, Together
<1>5. CASE SwapIn(g)
  <2>1. /\ \/ status' = SetStatus(WithStatus(g, "Swapped"), "Running") /\ appending' = WithStatus(g, "Swapped")
           \/ UNCHANGED <<status, appending>>
        /\ UNCHANGED logical
    BY <1>5 DEF SwapIn, Swap, Fail
  <2>2. Uniform'
    BY <1>0, <2>1 DEF Grouped, Uniform, Live, SetStatus, WithStatus, Members
  <2>3. WithStatus(g, "Swapped") # {}
    BY <1>5 DEF SwapIn
  <2>4. Together'
    BY <1>0, <2>1, <2>3 DEF Grouped, Uniform, Together, Live, SetStatus, WithStatus, Members
  <2> QED BY <2>1, <2>2, <2>4 DEF Grouped, Bounded
<1> QED BY <1>1, <1>2, <1>3, <1>4, <1>5 DEF GroupStep

LEMMA GroupedNext == ASSUME IndInv, Grouped, [Next]_vars PROVE Grouped'
<1>0. /\ status \in [SeqIds -> Statuses] /\ GroupOf \in [SeqIds -> Groups]
      /\ logical \in [SeqIds -> Nat] /\ MaxLogicalBlocks \in Nat
  BY SequencesAssumption, SizesAssumption DEF IndInv, TypeOK
<1>1. ASSUME NEW s \in SeqIds, SequenceStep(s) PROVE Grouped'
  <2>1. CASE AppendSlots(s)
    BY <2>1, AppendGrouped
  <2>2. CASE AddTokenId(s)
    <3>1. appending = {} /\ UNCHANGED <<appending, status>>
      BY <2>2 DEF AddTokenId, Idle
    <3>2. Bounded'
      BY <1>0, <2>2 DEF AddTokenId, Grouped, Bounded
    <3> QED BY <3>1, <3>2 DEF Grouped, Uniform, Together
  <2>3. CASE Abort(s) \/ PreemptByRecompute(s) \/ Finish(s)
    <3>1. /\ appending = {} /\ UNCHANGED <<appending, logical>>
          /\ \/ UNCHANGED status
             \/ status' = [status EXCEPT ![s] = "Finished"]
             \/ status' = [status EXCEPT ![s] = "Waiting"] /\ Unfinished(GroupOf[s]) = {s}
      BY <2>3 DEF Abort, PreemptByRecompute, Finish, FreeSequence, Fail, Idle
    <3>2. Uniform'
      BY <1>0, <3>1 DEF Grouped, Uniform, Live, Unfinished, Members
    <3> QED BY <3>1, <3>2 DEF Grouped, Bounded, Together
  <2> QED BY <1>1, <2>1, <2>2, <2>3 DEF SequenceStep
<1>2. ASSUME NEW p \in SeqIds, NEW c \in SeqIds, Fork(p, c) PROVE Grouped'
  <2>1. /\ appending = {} /\ UNCHANGED appending /\ status[p] = "Running" /\ GroupOf[c] = GroupOf[p]
        /\ status' = [status EXCEPT ![c] = status[p]] /\ logical' = [logical EXCEPT ![c] = logical[p]]
    BY <1>2 DEF Fork, Idle
  <2>2. Uniform'
    BY <1>0, <2>1 DEF Grouped, Uniform, Live
  <2> QED BY <1>0, <2>1, <2>2 DEF Grouped, Bounded, Together
<1>3. ASSUME Reset PROVE Grouped'
  <2>1. /\ appending = {} /\ UNCHANGED appending
        /\ \/ UNCHANGED <<status, logical>>
           \/ status' = [s \in SeqIds |-> "Unborn"] /\ logical' = [s \in SeqIds |-> 0]
    BY <1>3 DEF Reset, Fail, Idle
  <2> QED BY <1>0, <2>1 DEF Grouped, Bounded, Uniform, Together, Live
<1>4. ASSUME UNCHANGED vars PROVE Grouped'
  BY <1>4 DEF vars, Grouped, Bounded, Uniform, Together
<1> QED BY <1>1, <1>2, <1>3, <1>4, GroupStepGrouped DEF Next

-----------------------------------------------------------------------------
(* The scheduling pass *)

maps == <<blocks_to_swap_in, blocks_to_swap_out, blocks_to_copy>>

Loops == {"none", "running", "swapped", "prefills"}

Pass ==
    /\ loop \in Loops /\ preempted \in BOOLEAN /\ executed \in BOOLEAN
    /\ loop = "none" =>
           /\ blocks_to_swap_in = Empty /\ blocks_to_swap_out = Empty /\ blocks_to_copy = Empty
           /\ ~preempted /\ appending = {}
    /\ executed => loop = "none"
    /\ blocks_to_swap_out # Empty => preempted
    /\ blocks_to_swap_in # Empty => loop = "swapped"
    /\ loop = "swapped" => ~preempted

LEMMA PassInit == PagedInit => Pass
BY DEF PagedInit, Init, Pass, Loops

(* The worker either fails and leaves the pass as it is, or ends it. *)
LEMMA Outcome ==
    ASSUME ExecuteModel
    PROVE  /\ UNCHANGED <<vars, text>> /\ ~executed /\ appending = {}
           /\ \/ UNCHANGED <<maps, loop, preempted, executed>>
              \/ /\ blocks_to_swap_in' = Empty /\ blocks_to_swap_out' = Empty /\ blocks_to_copy' = Empty
                 /\ loop' = "none" /\ preempted' = FALSE /\ executed' \in BOOLEAN
<1>1. ASSUME NEW e, NEW mem, Stop(e, mem) PROVE UNCHANGED <<maps, loop, preempted, executed>>
  BY <1>1 DEF Stop, maps
<1>2. ASSUME NEW mem, NEW outputs, NEW splits, Completed(mem, outputs, splits)
      PROVE  /\ blocks_to_swap_in' = Empty /\ blocks_to_swap_out' = Empty /\ blocks_to_copy' = Empty
             /\ loop' = "none" /\ preempted' = FALSE /\ executed' \in BOOLEAN
  BY <1>2 DEF Completed
<1>3. \/ \E e, mem : Stop(e, mem)
      \/ \E mem, outputs, splits : Completed(mem, outputs, splits)
  BY DEF ExecuteModel, RunModel
<1>4. UNCHANGED <<vars, text>> /\ ~executed /\ appending = {}
  BY DEF ExecuteModel, Building, Idle
<1> QED BY <1>1, <1>2, <1>3, <1>4

LEMMA PassNext == ASSUME IndInv, Pass, [PagedNext]_allVars PROVE Pass'
<1>1. ASSUME NEW g \in Groups, Prompt(g) PROVE Pass'
  <2>1. UNCHANGED <<appending, maps, loop, preempted, executed>>
    BY <1>1 DEF Prompt, NewGroup, maps
  <2> QED BY <2>1 DEF Pass, maps
<1>2. ASSUME NEW g \in Groups, Prefill(g) PROVE Pass'
  <2>1. UNCHANGED <<maps, preempted, executed>> /\ ~executed /\ loop \in {"none", "prefills"} /\ loop' = "prefills"
    BY <1>2 DEF Prefill, maps, EnterLoop, Building
  <2> QED BY <2>1 DEF Pass, maps, Loops
<1>3. ASSUME NEW g \in Groups, Continue(g) PROVE Pass'
  <2>1. UNCHANGED <<maps, preempted, executed>> /\ ~executed /\ loop \in {"none", "running"} /\ loop' = "running"
    BY <1>3 DEF Continue, WorkerUnchanged, maps, EnterLoop, Building
  <2> QED BY <2>1 DEF Pass, maps, Loops
<1>4. ASSUME NEW g \in Groups, PreemptBySwap(g) PROVE Pass'
  <2>1. /\ UNCHANGED <<blocks_to_swap_in, blocks_to_copy, executed>> /\ ~executed
        /\ loop \in {"none", "running"} /\ loop' = "running" /\ preempted' = TRUE
    BY <1>4 DEF PreemptBySwap, EnterLoop, Building
  <2> QED BY <2>1 DEF Pass, Loops
<1>5. ASSUME NEW g \in Groups, Resume(g) PROVE Pass'
  <2>1. /\ UNCHANGED <<blocks_to_swap_out, blocks_to_copy, preempted, executed>> /\ ~executed
        /\ loop' = "swapped" /\ ~preempted
    BY <1>5 DEF Resume, EnterLoop, Building
  <2> QED BY <2>1 DEF Pass, Loops
<1>6. ASSUME NEW s \in SeqIds, AppendOne(s) PROVE Pass'
  <2>1. /\ UNCHANGED <<blocks_to_swap_in, blocks_to_swap_out, loop, preempted, executed>>
        /\ ~executed /\ s \in appending
    BY <1>6 DEF AppendOne, AppendSlots, Building
  <2> QED BY <2>1 DEF Pass
<1>7. ASSUME NEW s \in SeqIds, Recompute(s) PROVE Pass'
  <2>1. /\ UNCHANGED <<maps, executed>> /\ ~executed
        /\ loop \in {"none", "running"} /\ loop' = "running" /\ preempted' = TRUE
    BY <1>7 DEF Recompute, EnterLoop, Building, maps
  <2> QED BY <2>1 DEF Pass, Loops, maps
<1>8. ASSUME NEW s \in SeqIds, ProcessOutput(s) PROVE Pass'
  <2>1. UNCHANGED <<appending, maps, loop, preempted>> /\ executed /\ executed' \in BOOLEAN
    BY <1>8 DEF ProcessOutput, AddTokenId, maps
  <2> QED BY <2>1 DEF Pass, maps
<1>9. ASSUME NEW s \in SeqIds, AbortOrFinish(s) PROVE Pass'
  <2>1. UNCHANGED <<maps, loop, preempted, executed>> /\ appending' = appending
    BY <1>9 DEF AbortOrFinish, Abort, Finish, FreeSequence, Fail, maps
  <2> QED BY <2>1 DEF Pass, maps
<1>10. ASSUME NEW p \in SeqIds, NEW c \in SeqIds, ForkSequence(p, c) PROVE Pass'
  <2>1. UNCHANGED <<maps, loop, preempted, executed, appending>>
    BY <1>10 DEF ForkSequence, Fork, maps
  <2> QED BY <2>1 DEF Pass, maps
<1>11. ASSUME ExecuteModel PROVE Pass'
  <2>1. UNCHANGED appending /\ ~executed
    BY <1>11, Outcome DEF vars
  <2>2. CASE UNCHANGED <<maps, loop, preempted, executed>>
    BY <2>1, <2>2 DEF Pass, maps
  <2>3. CASE /\ blocks_to_swap_in' = Empty /\ blocks_to_swap_out' = Empty /\ blocks_to_copy' = Empty
             /\ loop' = "none" /\ preempted' = FALSE /\ executed' \in BOOLEAN
    <3>1. appending' = {}
      BY <1>11, <2>1, Outcome
    <3> QED BY <2>3, <3>1 DEF Pass, Loops
  <2> QED BY <1>11, <2>2, <2>3, Outcome
<1>12. ASSUME ResetManager PROVE Pass'
  <2>1. UNCHANGED <<maps, loop, preempted, executed>> /\ appending' = appending
    BY <1>12 DEF ResetManager, Reset, Fail, maps
  <2> QED BY <2>1 DEF Pass, maps
<1>13. ASSUME UNCHANGED allVars PROVE Pass'
  BY <1>13 DEF allVars, vars, worker_vars, Pass
<1> QED BY <1>1, <1>2, <1>3, <1>4, <1>5, <1>6, <1>7, <1>8, <1>9, <1>10, <1>11, <1>12, <1>13 DEF PagedNext

-----------------------------------------------------------------------------
(* The blocks of pending transfers stay where they are until the batch runs *)

(* A sequence that keeps its table for the rest of the pass *)
Pinned(s) == s \in appending \/ slot[s] # "none" \/ status[s] = "Finished"

HeldFast(b) == \E s \in SeqIds : Pinned(s) /\ b \in Range(block_tables[s])

(* A block that was copied for a sequence to write to *)
Private(b) == \E s \in SeqIds : slot[s] = "decode" /\ Owners(b) = {s}

SwappedOut(b) == \E s \in SeqIds : status[s] = "Swapped" /\ b \in Range(block_tables[s])

SwapInsFixed ==
    /\ IsInjective(blocks_to_swap_in)
    /\ DOMAIN blocks_to_swap_in \subseteq CpuBlocks /\ Range(blocks_to_swap_in) \subseteq GpuBlocks
    /\ \A b \in Range(blocks_to_swap_in) : HeldFast(b)

SwapOutsFixed ==
    /\ IsInjective(blocks_to_swap_out)
    /\ DOMAIN blocks_to_swap_out \subseteq GpuBlocks /\ Range(blocks_to_swap_out) \subseteq CpuBlocks
    /\ \A b \in Range(blocks_to_swap_out) : SwappedOut(b)

CopiesFixed ==
    /\ IsInjective(blocks_to_copy)
    /\ DOMAIN blocks_to_copy \subseteq GpuBlocks /\ Range(blocks_to_copy) \subseteq GpuBlocks
    /\ Range(blocks_to_copy) \cap DOMAIN blocks_to_copy = {}
    /\ \A b \in DOMAIN blocks_to_copy : HeldFast(b)
    /\ \A b \in Range(blocks_to_copy) : Private(b)

Transfers == SwapInsFixed /\ SwapOutsFixed /\ CopiesFixed

LEMMA EmptyMap == DOMAIN Empty = {} /\ Range(Empty) = {} /\ IsInjective(Empty)
BY DEF Empty, Range, IsInjective

LEMMA EmptyTransfers ==
    ASSUME blocks_to_swap_in = Empty, blocks_to_swap_out = Empty, blocks_to_copy = Empty
    PROVE  Transfers
BY EmptyMap DEF Transfers, SwapInsFixed, SwapOutsFixed, CopiesFixed

(* Inserting pairs with new targets *)
LEMMA InsertPairs ==
    ASSUME NEW f, NEW g, IsInjective(f), IsInjective(g), Range(f) \cap Range(g) = {}
    PROVE  /\ DOMAIN Insert(f, g) = DOMAIN f \cup DOMAIN g
           /\ Range(Insert(f, g)) \subseteq Range(f) \cup Range(g)
           /\ IsInjective(Insert(f, g))
<1> DEFINE h == Insert(f, g)
<1>1. /\ DOMAIN h = DOMAIN f \cup DOMAIN g
      /\ \A b \in DOMAIN g : h[b] = g[b]
      /\ \A b \in DOMAIN f : b \notin DOMAIN g => h[b] = f[b]
  BY DEF Insert
<1> HIDE DEF h
<1>2. /\ \A b \in DOMAIN g : h[b] \in Range(g)
      /\ \A b \in DOMAIN f : b \notin DOMAIN g => h[b] \in Range(f)
  BY <1>1 DEF Range
<1>3. Range(h) \subseteq Range(f) \cup Range(g)
  BY <1>1, <1>2 DEF Range
<1>4. IsInjective(h)
  <2> SUFFICES ASSUME NEW a \in DOMAIN h, NEW b \in DOMAIN h, h[a] = h[b] PROVE a = b
    BY DEF IsInjective
  <2>1. CASE a \in DOMAIN g /\ b \in DOMAIN g
    BY <1>1, <2>1 DEF IsInjective
  <2>2. CASE a \notin DOMAIN g /\ b \notin DOMAIN g
    BY <1>1, <2>2 DEF IsInjective
  <2> QED BY <1>1, <1>2, <2>1, <2>2
<1> QED BY <1>1, <1>3, <1>4 DEF h

(* Blocks that are held are not free. *)
LEMMA TakenBlocks ==
    ASSUME IndInv, NEW b \in Blocks, HeldFast(b) \/ Private(b) \/ SwappedOut(b)
    PROVE  b \notin free_blocks
BY DEF IndInv, FreeListExact, HeldFast, Private, SwappedOut, Owners

(* A step of the pass that leaves the sequences it is not about alone *)
Calm ==
    /\ \A q \in SeqIds : Pinned(q) => /\ Pinned(q)' /\ slot'[q] = slot[q]
                                      /\ block_tables'[q] = block_tables[q]
    /\ \A q \in SeqIds : Range(block_tables'[q]) \subseteq Range(block_tables[q]) \cup free_blocks

LEMMA CalmKeeps ==
    ASSUME IndInv, Calm, NEW b \in Blocks
    PROVE  /\ HeldFast(b) => HeldFast(b)'
           /\ Private(b) => Private(b)'
<1>1. HeldFast(b) => HeldFast(b)'
  BY DEF Calm, HeldFast
<1>2. ASSUME NEW s \in SeqIds, slot[s] = "decode", Owners(b) = {s} PROVE Private(b)'
  <2>1. Pinned(s) /\ b \in Range(block_tables[s]) /\ b \notin free_blocks
    BY <1>2, TakenBlocks DEF Pinned, Owners, Private
  <2>2. slot'[s] = "decode" /\ b \in Range(block_tables'[s])
    BY <1>2, <2>1 DEF Calm
  <2>3. ASSUME NEW q \in SeqIds, b \in Range(block_tables'[q]) PROVE q = s
    BY <1>2, <2>1, <2>3 DEF Calm, Owners
  <2>4. Owners(b)' = {s}
    BY <2>2, <2>3 DEF Owners
  <2> QED BY <2>2, <2>4 DEF Private
<1> QED BY <1>1, <1>2 DEF Private

LEMMA AllocateCalm ==
    ASSUME BlockSlidingWindow = 0, IndInv, NEW g \in Groups, Allocate(g)
    PROVE  Calm /\ \A q \in SeqIds : status[q] = "Swapped" =>
                        status'[q] = "Swapped" /\ block_tables'[q] = block_tables[q]
<1> DEFINE W == WithStatus(g, "Waiting")
<1> DEFINE Filled(n, k) ==
        \E fresh \in Injection(1..k, FreeGpu) :
            block_tables' = [s \in SeqIds |->
                IF s \in W
                THEN [i \in 1..n |-> IF i <= k THEN fresh[i] ELSE fresh[((i - 1) % k) + 1]]
                ELSE block_tables[s]]
<1>1. PICK first \in W : Filled(logical[first], NumRequired(logical[first]))
  BY AllocateSucceeds
<1> HIDE DEF Filled
<1>2. PICK n \in Nat : n = logical[first]
  BY <1>1 DEF IndInv, TypeOK, WithStatus, Members
<1>3. NumRequired(n) = n
  BY <1>2 DEF NumRequired
<1>4. PICK fresh \in [1..n -> FreeGpu] :
        block_tables' = [s \in SeqIds |->
            IF s \in W THEN [i \in 1..n |-> IF i <= n THEN fresh[i] ELSE fresh[((i - 1) % n) + 1]]
            ELSE block_tables[s]]
  <2>1. Filled(n, n)
    BY <1>1, <1>2, <1>3
  <2> QED BY <2>1 DEF Filled, Injection
<1>5. /\ status' = SetStatus(W, "Running") /\ appending = {} /\ UNCHANGED appending
      /\ slot' = [s \in SeqIds |-> IF s \in W THEN "prefill" ELSE slot[s]]
  BY AllocateSucceeds
<1>6. ASSUME NEW q \in W PROVE q \in SeqIds /\ status[q] = "Waiting" /\ ~Pinned(q)
  BY <1>5 DEF WithStatus, Members, Pinned, IndInv, LengthsAgree, LengthOK
<1>7. ASSUME NEW q \in W PROVE Range(block_tables'[q]) \subseteq free_blocks
  <2>1. block_tables'[q] = [i \in 1..n |-> IF i <= n THEN fresh[i] ELSE fresh[((i - 1) % n) + 1]]
    BY <1>4, <1>6
  <2>2. \A i \in 1..n : i <= n /\ fresh[i] \in free_blocks
    BY <1>4 DEF FreeGpu
  <2> QED BY <2>1, <2>2 DEF Range
<1>8. \A q \in SeqIds : q \notin W => /\ block_tables'[q] = block_tables[q] /\ slot'[q] = slot[q]
                                      /\ status'[q] = status[q]
  BY <1>4, <1>5 DEF SetStatus
<1> HIDE DEF W
<1>9. \A q \in SeqIds : Pinned(q) => Pinned(q)' /\ slot'[q] = slot[q] /\ block_tables'[q] = block_tables[q]
  BY <1>5, <1>6, <1>8 DEF Pinned
<1>10. \A q \in SeqIds : Range(block_tables'[q]) \subseteq Range(block_tables[q]) \cup free_blocks
  BY <1>7, <1>8
<1> QED BY <1>6, <1>8, <1>9, <1>10 DEF Calm

LEMMA StartAppendCalm ==
    ASSUME IndInv, NEW g \in Groups, StartAppend(g)
    PROVE  Calm /\ UNCHANGED <<status, block_tables>>
BY DEF StartAppend, Idle, Calm, Pinned

(* A swap of S, none of which is in the batch or the append loop *)
LEMMA SwapCalm ==
    ASSUME IndInv, appending = {}, NEW S \in SUBSET SeqIds, NEW target \in SUBSET free_blocks, NEW st,
           \A s \in S : slot[s] = "none" /\ status[s] # "Finished",
           Swap(S, target, st)
    PROVE  /\ Calm
           /\ \A q \in SeqIds : q \notin S => status'[q] = status[q] /\ block_tables'[q] = block_tables[q]
           /\ \A q \in S : status'[q] = st
<1>0. target \in SUBSET Blocks /\ TypeOK
  BY DEF IndInv, TypeOK
<1>1. PICK m : MovedBy(m, S, target)
  BY <1>0, SwapMoves
<1>2. \A q \in S : Range(block_tables'[q]) \subseteq free_blocks
  BY <1>1 DEF MovedBy, Range
<1>3. \A q \in SeqIds : q \notin S => status'[q] = status[q] /\ block_tables'[q] = block_tables[q]
  BY DEF Swap, SetStatus, Moved
<1>4. UNCHANGED slot /\ \A q \in S : status'[q] = st
  BY DEF Swap, SetStatus
<1>5. \A q \in SeqIds : Pinned(q) => q \notin S /\ Pinned(q)'
  BY <1>3, <1>4 DEF Pinned
<1> QED BY <1>2, <1>3, <1>4, <1>5 DEF Calm

LEMMA RecomputeCalm ==
    ASSUME BlockSlidingWindow = 0, IndInv, NEW s \in SeqIds, PreemptByRecompute(s)
    PROVE  Calm /\ \A q \in SeqIds : status[q] = "Swapped" =>
                        status'[q] = "Swapped" /\ block_tables'[q] = block_tables[q]
<1>1. appending = {} /\ status[s] = "Running" /\ slot[s] = "none" /\ FreeSequence(s, "Waiting")
  BY DEF PreemptByRecompute, Idle
<1>2. /\ FreeTables({s}) /\ status' = [status EXCEPT ![s] = "Waiting"]
      /\ slot' = [slot EXCEPT ![s] = "none"] /\ UNCHANGED appending
  BY <1>1, FreeNeverFails DEF FreeSequence
<1>3. block_tables' = [q \in SeqIds |-> IF q \in {s} THEN <<>> ELSE block_tables[q]]
  BY <1>2 DEF FreeTables
<1>4. \A q \in SeqIds : q # s => /\ block_tables'[q] = block_tables[q] /\ slot'[q] = slot[q]
                                 /\ status'[q] = status[q]
  BY <1>2, <1>3 DEF IndInv, TypeOK
<1>5. Range(block_tables'[s]) = {}
  BY <1>3 DEF Range
<1> QED BY <1>1, <1>2, <1>4, <1>5 DEF Calm, Pinned

(* append_slots: a block is added, the last one is copied, or nothing is done. *)
Copied(s, b) ==
    /\ b \in FreeGpu
    /\ ref_count[block_tables[s][Len(block_tables[s])]] # 1
    /\ block_tables' = [block_tables EXCEPT ![s] = [block_tables[s] EXCEPT ![Len(block_tables[s])] = b]]

Grown(s, b) == b \in FreeGpu /\ block_tables' = [block_tables EXCEPT ![s] = Append(block_tables[s], b)]

LEMMA AppendCases ==
    ASSUME BlockSlidingWindow = 0, IndInv, NEW s \in SeqIds, AppendSlots(s)
    PROVE  /\ s \in appending /\ SlotReady(s)
           /\ UNCHANGED block_tables \/ (\E b : Grown(s, b)) \/ (\E b : Copied(s, b))
<1>1. err' = "none"
  BY AppendSlotsStep DEF IndInv, NoOperationFails
<1>2. \A e \in {"AppendSlotError", "OutOfMemory", "CannotDoubleFree"} : ~Fail(e)
  BY <1>1 DEF Fail
<1>a. PICK t : t = block_tables[s]
  OBVIOUS
<1>b. block_tables = [block_tables EXCEPT ![s] = t]
  BY <1>a DEF IndInv, TypeOK
<1>3. /\ s \in appending
      /\ \/ PushBlock(s)
         \/ IsShared(t[Len(t)]) /\ CopyOnWrite(s, t)
         \/ block_tables' = [block_tables EXCEPT ![s] = t] /\ SlotReady(s)
  BY <1>a, <1>2 DEF AppendSlots
<1>4. CASE PushBlock(s)
  BY <1>3, <1>4 DEF PushBlock, Grown
<1>5. CASE IsShared(t[Len(t)]) /\ CopyOnWrite(s, t)
  <2>1. SlotReady(s) /\ \E b \in FreeGpu : block_tables' = [block_tables EXCEPT ![s] = [t EXCEPT ![Len(t)] = b]]
    BY <1>2, <1>5 DEF CopyOnWrite
  <2> QED BY <1>a, <1>3, <1>5, <2>1 DEF Copied, IsShared
<1>6. CASE block_tables' = [block_tables EXCEPT ![s] = t] /\ SlotReady(s)
  BY <1>b, <1>3, <1>6
<1> QED BY <1>3, <1>4, <1>5, <1>6

(* The table of an appending sequence after append_slots *)
LEMMA AppendTables ==
    ASSUME IndInv, NEW s \in appending, NEW b, Grown(s, b) \/ Copied(s, b)
    PROVE  /\ \A q \in SeqIds : q # s => block_tables'[q] = block_tables[q]
           /\ b \in GpuBlocks /\ b \in free_blocks /\ b \in Blocks
           /\ Range(block_tables'[s]) \subseteq Range(block_tables[s]) \cup {b}
           /\ Len(block_tables[s]) \in Nat \ {0} /\ s \in SeqIds
           /\ Grown(s, b) => /\ Len(block_tables'[s]) = Len(block_tables[s]) + 1
                             /\ Range(block_tables[s]) \subseteq Range(block_tables'[s])
           /\ Copied(s, b) => /\ Len(block_tables'[s]) = Len(block_tables[s])
                              /\ block_tables'[s][Len(block_tables[s])] = b
                              /\ b # block_tables[s][Len(block_tables[s])]
                              /\ \A x \in Range(block_tables[s]) :
                                    x # block_tables[s][Len(block_tables[s])] => x \in Range(block_tables'[s])
<1>1. PICK t : t = block_tables[s]
  OBVIOUS
<1>2. PICK u : u = block_tables'[s]
  OBVIOUS
<1>3. PICK n : n = Len(t)
  OBVIOUS
<1>4. /\ s \in SeqIds /\ t \in Seq(Blocks) /\ n \in Nat \ {0} /\ block_tables \in [SeqIds -> Seq(Blocks)]
  BY <1>1, <1>3, AppendingFacts DEF IndInv, TypeOK
<1>5. DOMAIN t = 1..n /\ n \in DOMAIN t /\ Range(t) \subseteq Blocks
  BY <1>3, <1>4 DEF Range
<1>6. /\ b \in GpuBlocks /\ b \in free_blocks /\ b \in Blocks
      /\ u = Append(t, b) \/ u = [t EXCEPT ![n] = b]
      /\ Grown(s, b) => u = Append(t, b)
      /\ Copied(s, b) => u = [t EXCEPT ![n] = b]
      /\ \A q \in SeqIds : q # s => block_tables'[q] = block_tables[q]
  BY <1>1, <1>2, <1>3, <1>4 DEF Grown, Copied, FreeGpu, Blocks
<1>7. b \notin Range(t)
  BY <1>1, <1>4, <1>6, FreeMeansUnreferenced
<1>8. ASSUME u = Append(t, b)
      PROVE  Len(u) = n + 1 /\ Range(t) \subseteq Range(u) /\ Range(u) \subseteq Range(t) \cup {b}
  <2>1. /\ DOMAIN u = 1..(n + 1) /\ Len(u) = n + 1 /\ u[n + 1] = b
        /\ \A i \in 1..n : u[i] = t[i] /\ i \in 1..(n + 1)
    BY <1>3, <1>4, <1>6, <1>8
  <2>2. \A i \in 1..(n + 1) : i \in 1..n \/ i = n + 1
    BY <1>4
  <2> QED BY <1>5, <2>1, <2>2 DEF Range
<1>9. ASSUME u = [t EXCEPT ![n] = b]
      PROVE  /\ Len(u) = n /\ u[n] = b /\ b # t[n] /\ Range(u) \subseteq Range(t) \cup {b}
             /\ \A x \in Range(t) : x # t[n] => x \in Range(u)
  <2>1. DOMAIN u = 1..n /\ u[n] = b /\ \A i \in 1..n : i # n => u[i] = t[i]
    BY <1>5, <1>9
  <2>2. u \in [1..n -> Blocks]
    <3>1. t \in [1..n -> Blocks]
      BY <1>3, <1>4
    <3> QED BY <1>6, <1>9, <3>1
  <2>3. u \in Seq(Blocks)
    BY <1>4, <2>2
  <2>4. Len(u) = n
    BY <1>4, <2>1, <2>3
  <2> QED BY <1>5, <1>7, <2>1, <2>4 DEF Range
<1> QED BY <1>1, <1>2, <1>3, <1>4, <1>6, <1>8, <1>9

(* A shared block that one sequence copies has another holder, in the same
   append loop or finished. *)
LEMMA OtherHolder ==
    ASSUME IndInv, Grouped, NEW s \in appending,
           ref_count[block_tables[s][Len(block_tables[s])]] # 1
    PROVE  \E q \in SeqIds : /\ q # s /\ Pinned(q)
                             /\ block_tables[s][Len(block_tables[s])] \in Range(block_tables[q])
<1> DEFINE last == block_tables[s][Len(block_tables[s])]
<1>1. /\ s \in SeqIds /\ status[s] = "Running" /\ block_tables[s] \in Seq(Blocks)
      /\ Len(block_tables[s]) >= 1
  BY AppendingFacts
<1>2. last \in Blocks /\ s \in Owners(last) /\ last \in Range(block_tables[s])
  BY <1>1, LastBlock DEF Owners
<1> HIDE DEF last
<1>3. PICK q \in Owners(last) : q # s
  <2>1. ASSUME Owners(last) = {s} PROVE FALSE
    BY <1>2, <2>1, SoleOwner DEF last
  <2> QED BY <1>2, <2>1
<1>4. q \in SeqIds /\ last \in Range(block_tables[q])
  BY <1>3 DEF Owners
<1>5. GroupOf[s] = GroupOf[q]
  BY <1>1, <1>2, <1>4 DEF IndInv, SharedOnlyWithinGroup
<1>6. last \in GpuBlocks /\ last \notin CpuBlocks
  BY <1>1, <1>2, BlocksAssumption DEF IndInv, TablesOnDevice
<1>7. status[q] \notin {"Unborn", "Waiting", "Swapped"}
  BY <1>4, <1>6 DEF IndInv, TablesOnDevice, Range
<1>8. status[q] \in {"Running", "Finished"}
  BY <1>4, <1>7 DEF IndInv, TypeOK, Statuses
<1>9. Pinned(q)
  BY <1>4, <1>5, <1>8 DEF Grouped, Together, Pinned
<1> QED BY <1>3, <1>4, <1>9 DEF last

LEMMA AppendKeeps ==
    ASSUME BlockSlidingWindow = 0, IndInv, Grouped, NEW s \in SeqIds, AppendSlots(s), NEW x \in Blocks
    PROVE  /\ HeldFast(x) => HeldFast(x)'
           /\ Private(x) => Private(x)'
           /\ SwappedOut(x) => SwappedOut(x)'
<1>0. /\ s \in appending /\ slot[s] = "none" /\ status[s] = "Running"
      /\ slot' = [slot EXCEPT ![s] = "decode"] /\ appending' = appending \ {s} /\ UNCHANGED status
      /\ slot \in [SeqIds -> Slots]
  BY AppendCases, AppendingFacts DEF SlotReady, IndInv, TypeOK
<1>1. \A q \in SeqIds : Pinned(q) => Pinned(q)'
  BY <1>0 DEF Pinned
<1>2. CASE UNCHANGED block_tables
  <2>1. HeldFast(x) => HeldFast(x)'
    BY <1>1, <1>2 DEF HeldFast
  <2>2. Private(x) => Private(x)'
    BY <1>0, <1>2 DEF Private, Owners
  <2>3. SwappedOut(x) => SwappedOut(x)'
    BY <1>0, <1>2 DEF SwappedOut
  <2> QED BY <2>1, <2>2, <2>3
<1>3. ASSUME NEW b, Grown(s, b) \/ Copied(s, b)
      PROVE  /\ HeldFast(x) => HeldFast(x)'
             /\ Private(x) => Private(x)'
             /\ SwappedOut(x) => SwappedOut(x)'
  <2>1. /\ \A q \in SeqIds : q # s => block_tables'[q] = block_tables[q]
        /\ b \in free_blocks
        /\ Range(block_tables'[s]) \subseteq Range(block_tables[s]) \cup {b}
    BY <1>0, <1>3, AppendTables
  <2>2. SwappedOut(x) => SwappedOut(x)'
    BY <1>0, <2>1 DEF SwappedOut
  <2>3. ASSUME NEW q \in SeqIds, slot[q] = "decode", Owners(x) = {q} PROVE Private(x)'
    <3>1. q # s /\ x \notin free_blocks /\ slot'[q] = "decode"
      BY <1>0, <2>3, TakenBlocks DEF Private
    <3>2. Owners(x)' = {q}
      BY <2>1, <2>3, <3>1 DEF Owners
    <3> QED BY <3>1, <3>2 DEF Private
  <2>4. ASSUME NEW q \in SeqIds, Pinned(q), x \in Range(block_tables[q]) PROVE HeldFast(x)'
    <3>1. CASE q # s
      BY <1>1, <2>1, <2>4, <3>1 DEF HeldFast
    <3>2. CASE q = s /\ x \in Range(block_tables'[s])
      BY <1>1, <2>4, <3>2 DEF HeldFast
    <3>3. CASE q = s /\ x \notin Range(block_tables'[s])
      <4>1. Copied(s, b) /\ x = block_tables[s][Len(block_tables[s])]
        BY <1>0, <1>3, <2>4, <3>3, AppendTables
      <4>2. PICK p \in SeqIds : p # s /\ Pinned(p) /\ x \in Range(block_tables[p])
        BY <1>0, <4>1, OtherHolder DEF Copied
      <4> QED BY <1>1, <2>1, <4>2 DEF HeldFast
    <3> QED BY <3>1, <3>2, <3>3
  <2> QED BY <2>2, <2>3, <2>4 DEF HeldFast, Private
<1> QED BY <1>2, <1>3, AppendCases

(* A copy on write adds one pair: from a block that stays held to one that no
   pending copy reads or writes. *)
LEMMA AppendTransfers ==
    ASSUME BlockSlidingWindow = 0, IndInv, IndInv', Grouped, Pass, Transfers,
           NEW s \in SeqIds, AppendOne(s)
    PROVE  Transfers'
<1>0. /\ AppendSlots(s) /\ blocks_to_copy' = CopyMap(s)
      /\ UNCHANGED <<blocks_to_swap_in, blocks_to_swap_out>>
  BY DEF AppendOne
<1>1. /\ s \in appending /\ slot[s] = "none" /\ slot' = [slot EXCEPT ![s] = "decode"]
      /\ slot \in [SeqIds -> Slots]
  BY <1>0, AppendCases, AppendingFacts DEF SlotReady, IndInv, TypeOK
<1>2. GpuBlocks \subseteq Blocks /\ CpuBlocks \subseteq Blocks
  BY DEF Blocks
<1>3. SwapInsFixed'
  BY <1>0, <1>2, AppendKeeps DEF Transfers, SwapInsFixed
<1>4. SwapOutsFixed'
  BY <1>0, <1>2, AppendKeeps DEF Transfers, SwapOutsFixed
<1>5. ASSUME UNCHANGED blocks_to_copy PROVE CopiesFixed'
  BY <1>0, <1>2, <1>5, AppendKeeps DEF Transfers, CopiesFixed
<1>6. CASE UNCHANGED block_tables
  BY <1>0, <1>3, <1>4, <1>5, <1>6 DEF CopyMap, Transfers
<1>7. ASSUME NEW b, Grown(s, b) PROVE Transfers'
  <2>1. Len(block_tables'[s]) # Len(block_tables[s])
    BY <1>1, <1>7, AppendTables
  <2> QED BY <1>0, <1>3, <1>4, <1>5, <2>1 DEF CopyMap, Transfers
<1>8. ASSUME NEW b, Copied(s, b) PROVE Transfers'
  <2>a. PICK n : n = Len(block_tables[s])
    OBVIOUS
  <2>b. PICK last : last = block_tables[s][n]
    OBVIOUS
  <2>c. PICK pair : pair = [x \in {last} |-> b]
    OBVIOUS
  <2>1. /\ n \in Nat \ {0} /\ Len(block_tables'[s]) = n
        /\ block_tables'[s][n] = b /\ b # last
        /\ b \in GpuBlocks /\ b \in free_blocks /\ b \in Blocks
    BY <1>1, <1>8, <2>a, <2>b, AppendTables
  <2>2. blocks_to_copy' = Insert(blocks_to_copy, pair)
    BY <1>0, <2>a, <2>b, <2>c, <2>1 DEF CopyMap
  <2>3. /\ last \in Blocks /\ last \in Range(block_tables[s]) /\ last \in GpuBlocks
        /\ Owners(b)' = {s}
    <3>1. last \in Blocks /\ last \in Range(block_tables[s])
      BY <1>1, <2>a, <2>b, AppendingFacts, LastBlock DEF Owners
    <3>2. last \in GpuBlocks
      BY <1>1, <3>1, AppendingFacts DEF IndInv, TablesOnDevice
    <3>3. slot'[s] = "decode"
      BY <1>1
    <3>4. (Owners(block_tables[s][Len(block_tables[s])]))' = {s}
      BY <3>3 DEF IndInv, ExclusiveWriteSlot
    <3>5. Owners(b)' = {s}
      BY <2>1, <3>4 DEF Owners
    <3> QED BY <3>1, <3>2, <3>5
  <2>4. DOMAIN pair = {last} /\ Range(pair) = {b} /\ IsInjective(pair)
    BY <2>c DEF Range, IsInjective
  <2>5. /\ b \notin Range(blocks_to_copy) /\ b \notin DOMAIN blocks_to_copy
    BY <1>2, <2>1, TakenBlocks DEF Transfers, CopiesFixed
  <2>6. last \notin Range(blocks_to_copy)
    BY <1>1, <2>3 DEF Transfers, CopiesFixed, Private, Owners
  <2>7. /\ DOMAIN blocks_to_copy' = DOMAIN blocks_to_copy \cup {last}
        /\ Range(blocks_to_copy') \subseteq Range(blocks_to_copy) \cup {b}
        /\ IsInjective(blocks_to_copy')
    <3>1. IsInjective(blocks_to_copy) /\ Range(blocks_to_copy) \cap Range(pair) = {}
      BY <2>4, <2>5 DEF Transfers, CopiesFixed
    <3> QED BY <2>2, <2>4, <3>1, InsertPairs
  <2>8. HeldFast(last)'
    <3>1. HeldFast(last)
      BY <1>1, <2>3 DEF HeldFast, Pinned
    <3> QED BY <1>0, <2>3, <3>1, AppendKeeps
  <2>9. Private(b)'
    BY <1>1, <2>3 DEF Private
  <2>10. \A x \in DOMAIN blocks_to_copy : HeldFast(x)'
    BY <1>0, <1>2, AppendKeeps DEF Transfers, CopiesFixed
  <2>11. \A x \in Range(blocks_to_copy) : Private(x)'
    BY <1>0, <1>2, AppendKeeps DEF Transfers, CopiesFixed
  <2>12. CopiesFixed'
    <3>1. Range(blocks_to_copy') \cap DOMAIN blocks_to_copy' = {}
      BY <2>1, <2>5, <2>6, <2>7 DEF Transfers, CopiesFixed
    <3>2. DOMAIN blocks_to_copy' \subseteq GpuBlocks /\ Range(blocks_to_copy') \subseteq GpuBlocks
      BY <2>1, <2>3, <2>7 DEF Transfers, CopiesFixed
    <3> QED BY <2>7, <2>8, <2>9, <2>10, <2>11, <3>1, <3>2 DEF CopiesFixed
  <2> QED BY <1>3, <1>4, <2>12 DEF Transfers
<1> QED BY <1>0, <1>6, <1>7, <1>8, AppendCases

(* The map of a swap is the map the tables were moved by. *)
LEMMA SwapMapIs ==
    ASSUME IndInv, Bounded, NEW S \in SUBSET SeqIds, NEW target, NEW m, MovedBy(m, S, target),
           \A s \in S : status[s] \in {"Running", "Swapped"}
    PROVE  /\ DOMAIN SwapMap(S) = HeldBy(S) /\ IsInjective(SwapMap(S))
           /\ Range(SwapMap(S)) \subseteq target
           /\ \A b \in Range(SwapMap(S)) : \E s \in S : b \in Range(block_tables'[s])
           /\ \A b \in HeldBy(S) : SwapMap(S)[b] = m[b]
<1> DEFINE At(x, b) == x[2] \in DOMAIN block_tables[x[1]] /\ block_tables[x[1]][x[2]] = b
<1> DEFINE X == S \X (1..MaxLogicalBlocks)
<1>1. ASSUME NEW b \in HeldBy(S) PROVE \E x \in X : At(x, b)
  <2>0. PICK s \in S : b \in Range(block_tables[s])
    BY DEF HeldBy
  <2>1. PICK i \in DOMAIN block_tables[s] : block_tables[s][i] = b
    BY <2>0 DEF Range
  <2>2. /\ block_tables[s] \in Seq(Blocks) /\ Len(block_tables[s]) <= logical[s]
        /\ logical[s] <= MaxLogicalBlocks /\ logical[s] \in Nat /\ MaxLogicalBlocks \in Nat
    BY SizesAssumption DEF IndInv, TypeOK, LengthsAgree, LengthOK, Bounded
  <2>3. i \in 1..Len(block_tables[s])
    BY <2>1, <2>2
  <2>4. i \in 1..MaxLogicalBlocks
    BY <2>2, <2>3
  <2>5. <<s, i>> \in X /\ At(<<s, i>>, b)
    BY <2>1, <2>4
  <2> QED BY <2>5
<1>2. ASSUME NEW b \in HeldBy(S)
      PROVE  SwapMap(S)[b] = m[b] /\ \E s \in S : SwapMap(S)[b] \in Range(block_tables'[s])
  <2>1. PICK x : x = CHOOSE y \in X : At(y, b)
    OBVIOUS
  <2>2. x \in X /\ At(x, b)
    BY <1>1, <2>1
  <2>3. SwapMap(S)[b] = block_tables'[x[1]][x[2]]
    BY <2>1 DEF SwapMap
  <2>4. x[1] \in S /\ x[2] \in DOMAIN block_tables[x[1]] /\ block_tables[x[1]][x[2]] = b
    BY <2>2
  <2>5. /\ block_tables'[x[1]][x[2]] = m[b]
        /\ DOMAIN block_tables'[x[1]] = DOMAIN block_tables[x[1]]
    BY <2>4 DEF MovedBy
  <2> QED BY <2>3, <2>4, <2>5 DEF Range
<1>3. DOMAIN SwapMap(S) = HeldBy(S)
  BY DEF SwapMap
<1>4. IsInjective(SwapMap(S))
  BY <1>2, <1>3 DEF IsInjective, MovedBy
<1>5. /\ Range(SwapMap(S)) \subseteq target
      /\ \A b \in Range(SwapMap(S)) : \E s \in S : b \in Range(block_tables'[s])
  BY <1>2, <1>3 DEF Range, MovedBy
<1> QED BY <1>2, <1>3, <1>4, <1>5

(* A step of the pass that leaves the pending transfers alone *)
LEMMA KeptTransfers ==
    ASSUME IndInv, Transfers, Calm, UNCHANGED maps,
           \A b \in CpuBlocks : SwappedOut(b) => SwappedOut(b)'
    PROVE  Transfers'
<1>1. GpuBlocks \subseteq Blocks
  BY DEF Blocks
<1>2. SwapInsFixed'
  BY <1>1, CalmKeeps DEF Transfers, SwapInsFixed, maps
<1>3. SwapOutsFixed'
  BY DEF Transfers, SwapOutsFixed, maps
<1>4. CopiesFixed'
  BY <1>1, CalmKeeps DEF Transfers, CopiesFixed, maps
<1> QED BY <1>2, <1>3, <1>4 DEF Transfers

(* swap_out adds pairs from the blocks of the group to those it moved to. *)
LEMMA SwapOutTransfers ==
    ASSUME BlockSlidingWindow = 0, IndInv, IndInv', Grouped, Pass, Transfers,
           NEW g \in Groups, PreemptBySwap(g)
    PROVE  Transfers'
<1>1. PICK S : S = WithStatus(g, "Running")
  OBVIOUS
<1>2. /\ appending = {} /\ \A s \in S : slot[s] = "none"
      /\ Swap(S, FreeCpu, "Swapped")
      /\ blocks_to_swap_out' = Insert(blocks_to_swap_out, SwapMap(S))
      /\ UNCHANGED <<blocks_to_swap_in, blocks_to_copy>>
  <2>1. err' = "none"
    BY DEF IndInv, NoOperationFails
  <2> QED BY <1>1, <2>1 DEF PreemptBySwap, SwapOut, Idle, Fail
<1>3. /\ S \in SUBSET SeqIds /\ FreeCpu \in SUBSET free_blocks /\ FreeCpu \in SUBSET Blocks
      /\ FreeCpu \subseteq CpuBlocks
      /\ \A s \in S : status[s] = "Running"
  BY <1>1 DEF WithStatus, Members, FreeCpu, Blocks
<1>4. /\ Calm
      /\ \A q \in SeqIds : q \notin S => status'[q] = status[q] /\ block_tables'[q] = block_tables[q]
      /\ \A q \in S : status'[q] = "Swapped"
  BY <1>2, <1>3, SwapCalm
<1>5. PICK m : MovedBy(m, S, FreeCpu)
  BY <1>2, <1>3, SwapMoves DEF IndInv
<1>6. PICK pairs : pairs = SwapMap(S)
  OBVIOUS
<1>7. /\ DOMAIN pairs = HeldBy(S) /\ IsInjective(pairs) /\ Range(pairs) \subseteq FreeCpu
      /\ \A b \in Range(pairs) : \E s \in S : b \in Range(block_tables'[s])
  BY <1>3, <1>5, <1>6, SwapMapIs DEF Grouped
<1>8. \A b \in CpuBlocks : SwappedOut(b) => SwappedOut(b)'
  BY <1>3, <1>4 DEF SwappedOut
<1>9. \A b \in Range(pairs) : SwappedOut(b)'
  BY <1>3, <1>4, <1>7 DEF SwappedOut
<1>10. HeldBy(S) \subseteq GpuBlocks
  BY <1>3 DEF HeldBy, IndInv, TablesOnDevice
<1>11. Range(blocks_to_swap_out) \cap Range(pairs) = {}
  <2>1. \A b \in Range(blocks_to_swap_out) : b \in Blocks /\ b \notin free_blocks
    BY TakenBlocks DEF Transfers, SwapOutsFixed, Blocks
  <2> QED BY <1>3, <1>7, <2>1
<1>12. /\ DOMAIN blocks_to_swap_out' = DOMAIN blocks_to_swap_out \cup DOMAIN pairs
       /\ Range(blocks_to_swap_out') \subseteq Range(blocks_to_swap_out) \cup Range(pairs)
       /\ IsInjective(blocks_to_swap_out')
  <2>1. IsInjective(blocks_to_swap_out)
    BY DEF Transfers, SwapOutsFixed
  <2>2. blocks_to_swap_out' = Insert(blocks_to_swap_out, pairs)
    BY <1>2, <1>6
  <2> QED BY <1>7, <1>11, <2>1, <2>2, InsertPairs
<1>13. SwapOutsFixed'
  <2>1. DOMAIN blocks_to_swap_out' \subseteq GpuBlocks /\ Range(blocks_to_swap_out') \subseteq CpuBlocks
    BY <1>3, <1>7, <1>10, <1>12 DEF Transfers, SwapOutsFixed
  <2>2. \A b \in Range(blocks_to_swap_out') : SwappedOut(b)'
    BY <1>8, <1>9, <1>12 DEF Transfers, SwapOutsFixed
  <2> QED BY <1>12, <2>1, <2>2 DEF SwapOutsFixed
<1>14. GpuBlocks \subseteq Blocks
  BY DEF Blocks
<1>15. SwapInsFixed' /\ CopiesFixed'
  BY <1>2, <1>4, <1>14, CalmKeeps DEF Transfers, SwapInsFixed, CopiesFixed
<1> QED BY <1>13, <1>15 DEF Transfers

(* swap_in adds pairs to blocks that the append loop, which follows, holds;
   nothing was swapped out in this pass. *)
LEMMA SwapInTransfers ==
    ASSUME BlockSlidingWindow = 0, IndInv, IndInv', Grouped, Pass, Transfers,
           NEW g \in Groups, Resume(g)
    PROVE  Transfers'
<1>1. PICK S : S = WithStatus(g, "Swapped")
  OBVIOUS
<1>2. /\ appending = {} /\ appending' = S
      /\ Swap(S, FreeGpu, "Running")
      /\ blocks_to_swap_in' = Insert(blocks_to_swap_in, SwapMap(S))
      /\ UNCHANGED <<blocks_to_swap_out, blocks_to_copy>> /\ ~preempted
  <2>1. err' = "none"
    BY DEF IndInv, NoOperationFails
  <2> QED BY <1>1, <2>1 DEF Resume, SwapIn, Idle, Fail, EnterLoop
<1>3. /\ S \in SUBSET SeqIds /\ FreeGpu \in SUBSET free_blocks /\ FreeGpu \in SUBSET Blocks
      /\ FreeGpu \subseteq GpuBlocks
      /\ \A s \in S : status[s] = "Swapped" /\ slot[s] = "none"
  BY <1>1 DEF WithStatus, Members, FreeGpu, Blocks, IndInv, LengthsAgree, LengthOK
<1>4. Calm
  BY <1>2, <1>3, SwapCalm
<1>5. PICK m : MovedBy(m, S, FreeGpu)
  BY <1>2, <1>3, SwapMoves DEF IndInv
<1>6. PICK pairs : pairs = SwapMap(S)
  OBVIOUS
<1>7. /\ DOMAIN pairs = HeldBy(S) /\ IsInjective(pairs) /\ Range(pairs) \subseteq FreeGpu
      /\ \A b \in Range(pairs) : \E s \in S : b \in Range(block_tables'[s])
  BY <1>3, <1>5, <1>6, SwapMapIs DEF Grouped
<1>8. blocks_to_swap_out = Empty /\ blocks_to_swap_out' = Empty
  BY <1>2 DEF Pass
<1>9. \A b \in Range(pairs) : HeldFast(b)'
  BY <1>2, <1>3, <1>7 DEF HeldFast, Pinned
<1>10. HeldBy(S) \subseteq CpuBlocks
  BY <1>3 DEF HeldBy, IndInv, TablesOnDevice
<1>11. Range(blocks_to_swap_in) \cap Range(pairs) = {}
  <2>1. \A b \in Range(blocks_to_swap_in) : b \in Blocks /\ b \notin free_blocks
    BY TakenBlocks DEF Transfers, SwapInsFixed, Blocks
  <2> QED BY <1>3, <1>7, <2>1
<1>12. /\ DOMAIN blocks_to_swap_in' = DOMAIN blocks_to_swap_in \cup DOMAIN pairs
       /\ Range(blocks_to_swap_in') \subseteq Range(blocks_to_swap_in) \cup Range(pairs)
       /\ IsInjective(blocks_to_swap_in')
  <2>1. IsInjective(blocks_to_swap_in)
    BY DEF Transfers, SwapInsFixed
  <2>2. blocks_to_swap_in' = Insert(blocks_to_swap_in, pairs)
    BY <1>2, <1>6
  <2> QED BY <1>7, <1>11, <2>1, <2>2, InsertPairs
<1>13. GpuBlocks \subseteq Blocks
  BY DEF Blocks
<1>14. SwapInsFixed'
  <2>1. DOMAIN blocks_to_swap_in' \subseteq CpuBlocks /\ Range(blocks_to_swap_in') \subseteq GpuBlocks
    BY <1>3, <1>7, <1>10, <1>12 DEF Transfers, SwapInsFixed
  <2>2. \A b \in Range(blocks_to_swap_in) : HeldFast(b)'
    BY <1>4, <1>13, CalmKeeps DEF Transfers, SwapInsFixed
  <2> QED BY <1>9, <1>12, <2>1, <2>2 DEF SwapInsFixed
<1>15. CopiesFixed'
  BY <1>2, <1>4, <1>13, CalmKeeps DEF Transfers, CopiesFixed
<1>16. SwapOutsFixed'
  BY <1>8, EmptyMap DEF SwapOutsFixed
<1> QED BY <1>14, <1>15, <1>16 DEF Transfers

LEMMA TransfersNext ==
    ASSUME BlockSlidingWindow = 0, IndInv, IndInv', Grouped, Pass, Transfers, [PagedNext]_allVars
    PROVE  Transfers'
<1>1. ASSUME Pass', loop' = "none" PROVE Transfers'
  <2>1. blocks_to_swap_in' = Empty /\ blocks_to_swap_out' = Empty /\ blocks_to_copy' = Empty
    BY <1>1 DEF Pass
  <2> QED BY <2>1, EmptyMap DEF Transfers, SwapInsFixed, SwapOutsFixed, CopiesFixed
<1>2. Pass'
  BY PassNext
<1>3. ASSUME NEW g \in Groups, Prompt(g) PROVE Transfers'
  BY <1>1, <1>2, <1>3 DEF Prompt, Between
<1>4. ASSUME NEW g \in Groups, Prefill(g) PROVE Transfers'
  <2>1. Allocate(g) /\ UNCHANGED maps
    BY <1>4 DEF Prefill, maps
  <2>2. \A b \in CpuBlocks : SwappedOut(b) => SwappedOut(b)'
    BY <2>1, AllocateCalm DEF SwappedOut
  <2> QED BY <2>1, <2>2, AllocateCalm, KeptTransfers
<1>5. ASSUME NEW g \in Groups, Continue(g) PROVE Transfers'
  <2>1. StartAppend(g) /\ UNCHANGED maps
    BY <1>5 DEF Continue, WorkerUnchanged, maps
  <2>2. \A b \in CpuBlocks : SwappedOut(b) => SwappedOut(b)'
    BY <2>1, StartAppendCalm DEF SwappedOut
  <2> QED BY <2>1, <2>2, StartAppendCalm, KeptTransfers
<1>6. ASSUME NEW s \in SeqIds, Recompute(s) PROVE Transfers'
  <2>1. PreemptByRecompute(s) /\ UNCHANGED maps
    BY <1>6 DEF Recompute, maps
  <2>2. \A b \in CpuBlocks : SwappedOut(b) => SwappedOut(b)'
    BY <2>1, RecomputeCalm DEF SwappedOut
  <2> QED BY <2>1, <2>2, RecomputeCalm, KeptTransfers
<1>7. ASSUME NEW s \in SeqIds, ProcessOutput(s) PROVE Transfers'
  <2>1. loop' = "none"
    BY <1>7 DEF ProcessOutput, Pass
  <2> QED BY <1>1, <1>2, <2>1
<1>8. ASSUME NEW s \in SeqIds, AbortOrFinish(s) PROVE Transfers'
  BY <1>1, <1>2, <1>8 DEF AbortOrFinish, Between
<1>9. ASSUME NEW p \in SeqIds, NEW c \in SeqIds, ForkSequence(p, c) PROVE Transfers'
  BY <1>1, <1>2, <1>9 DEF ForkSequence, Between
<1>10. ASSUME ExecuteModel PROVE Transfers'
  <2>1. CASE loop' = "none"
    BY <1>1, <1>2, <2>1
  <2>2. CASE UNCHANGED maps
    <3>1. UNCHANGED vars
      BY <1>10, Outcome
    <3> QED BY <2>2, <3>1 DEF Transfers, SwapInsFixed, SwapOutsFixed, CopiesFixed, HeldFast, Pinned,
                              SwappedOut, Private, Owners, maps, vars
  <2> QED BY <1>10, <2>1, <2>2, Outcome
<1>11. ASSUME ResetManager PROVE Transfers'
  BY <1>1, <1>2, <1>11 DEF ResetManager, Between
<1>12. ASSUME UNCHANGED allVars PROVE Transfers'
  BY <1>12 DEF allVars, vars, worker_vars, Transfers, SwapInsFixed, SwapOutsFixed, CopiesFixed,
               HeldFast, Pinned, SwappedOut, Private, Owners
<1> QED BY <1>3, <1>4, <1>5, <1>6, <1>7, <1>8, <1>9, <1>10, <1>11, <1>12,
           AppendTransfers, SwapOutTransfers, SwapInTransfers DEF PagedNext

PagedInv == IndInv /\ Grouped /\ Pass /\ Transfers

(* PagedInv holds in every state: the transfers a pass has gathered name blocks
   that keep their content and their holder until the worker moves them. *)
THEOREM PagedInvariance == ASSUME BlockSlidingWindow = 0 PROVE PagedSpec => []PagedInv
<1>1. PagedInit => Grouped /\ Pass /\ Transfers
  <2>1. ASSUME PagedInit PROVE Transfers
    BY <2>1, EmptyTransfers DEF PagedInit
  <2> QED BY <2>1, GroupedInit, PassInit DEF PagedInit
<1>2. ASSUME IndInv, IndInv', Grouped, Pass, Transfers, [PagedNext]_allVars
      PROVE  Grouped' /\ Pass' /\ Transfers'
  <2>1. [Next]_vars
    BY <1>2, PagedCalls DEF allVars
  <2> QED BY <1>2, <2>1, GroupedNext, PassNext, TransfersNext
<1> QED BY <1>1, <1>2, ManagerHoldsInCache, PTL DEF PagedSpec, PagedInv

(* TransfersDisjoint: within one map no two copies have one target, no copy on
   write reads a block another one writes, and swaps never go both ways. *)
THEOREM TransfersNeverInterfere ==
    ASSUME BlockSlidingWindow = 0 PROVE PagedSpec => []TransfersDisjoint
<1>1. PagedInv => TransfersDisjoint
  BY DEF PagedInv, Pass, Transfers, SwapInsFixed, SwapOutsFixed, CopiesFixed, TransfersDisjoint
<1> QED BY <1>1, PagedInvariance, PTL

-----------------------------------------------------------------------------
(* SumOf and FlattenSeq, whose recursive functions have to be shown to exist *)

IsSum(g, f, m) == g = [k \in 0..m |-> IF k = 0 THEN 0 ELSE g[k - 1] + f[k]]

LEMMA SumExists == ASSUME NEW f, NEW m \in Nat PROVE \E g : IsSum(g, f, m)
<1> DEFINE T == {n \in Nat : \E g : IsSum(g, f, n)}
<1>1. 0 \in T
  <2> DEFINE g == [n \in 0..0 |-> 0]
  <2>1. IsSum(g, f, 0)
    BY DEF IsSum
  <2> QED BY <2>1
<1>2. ASSUME NEW n \in T PROVE n + 1 \in T
  <2>1. PICK g : IsSum(g, f, n)
    OBVIOUS
  <2> DEFINE h == [k \in 0..(n + 1) |-> IF k = n + 1 THEN g[n] + f[n + 1] ELSE g[k]]
  <2>2. \A k \in 0..n : g[k] = IF k = 0 THEN 0 ELSE g[k - 1] + f[k]
    BY <2>1 DEF IsSum
  <2>3. \A k \in 0..n : h[k] = g[k]
    OBVIOUS
  <2>4. \A k \in 0..(n + 1) : h[k] = IF k = 0 THEN 0 ELSE h[k - 1] + f[k]
    <3> TAKE k \in 0..(n + 1)
    <3>1. CASE k = n + 1
      <4>1. k - 1 = n /\ n \in 0..n /\ k # 0
        BY <3>1
      <4> QED BY <3>1, <4>1, <2>3
    <3>2. CASE k # n + 1
      <4>1. k \in 0..n /\ (k # 0 => k - 1 \in 0..n)
        BY <3>2
      <4> QED BY <4>1, <2>2, <2>3
    <3> QED BY <3>1, <3>2
  <2>5. h = [k \in 0..(n + 1) |-> h[k]]
    OBVIOUS
  <2> HIDE DEF h
  <2>6. IsSum(h, f, n + 1)
    BY <2>4, <2>5 DEF IsSum
  <2> QED BY <2>6
<1> HIDE DEF T
<1>3. T = Nat
  <2>1. T \subseteq Nat
    BY DEF T
  <2> QED BY <1>1, <1>2, <2>1, SetInduction
<1> QED BY <1>3 DEF T

LEMMA SumDef ==
    ASSUME NEW f, NEW n \in Nat
    PROVE  \E g : IsSum(g, f, n) /\ SumOf(f, n) = g[n]
<1> DEFINE g == CHOOSE g : IsSum(g, f, n)
<1>1. IsSum(g, f, n)
  BY SumExists
<1>2. SumOf(f, n) = g[n]
  BY DEF SumOf, IsSum
<1> QED BY <1>1, <1>2

(* The function is the same up to every bound. *)
LEMMA SumUnique ==
    ASSUME NEW f, NEW m \in Nat, NEW n \in Nat, m <= n, NEW g, NEW h, IsSum(g, f, m), IsSum(h, f, n)
    PROVE  g[m] = h[m]
<1> DEFINE T == {k \in 0..m : g[k] = h[k]}
<1>1. /\ \A k \in 0..m : g[k] = IF k = 0 THEN 0 ELSE g[k - 1] + f[k]
      /\ \A k \in 0..n : h[k] = IF k = 0 THEN 0 ELSE h[k - 1] + f[k]
  BY DEF IsSum
<1>2. 0 \in T
  <2>1. 0 \in 0..m /\ 0 \in 0..n
    OBVIOUS
  <2>2. g[0] = h[0]
    BY <1>1, <2>1
  <2> QED BY <2>2
<1>3. ASSUME NEW k \in T, k < m PROVE k + 1 \in T
  <2>1. k <= m /\ k + 1 \in 0..m /\ k + 1 \in 0..n /\ k + 1 # 0 /\ (k + 1) - 1 = k
    BY <1>3
  <2>2. g[k] = h[k]
    BY <2>1
  <2>3. g[k + 1] = g[k] + f[k + 1] /\ h[k + 1] = h[k] + f[k + 1]
    BY <1>1, <2>1
  <2> QED BY <2>1, <2>2, <2>3
<1> HIDE DEF T
<1>4. m \in T
  <2>1. T \subseteq 0..m
    BY DEF T
  <2> QED BY <1>2, <1>3, <2>1, UpTo
<1> QED BY <1>4 DEF T

LEMMA SumStep ==
    ASSUME NEW f, NEW n \in Nat
    PROVE  SumOf(f, 0) = 0 /\ SumOf(f, n + 1) = SumOf(f, n) + f[n + 1]
<1>1. PICK z : IsSum(z, f, 0) /\ SumOf(f, 0) = z[0]
  BY SumDef
<1>2. PICK g : IsSum(g, f, n) /\ SumOf(f, n) = g[n]
  BY SumDef
<1>3. PICK h : IsSum(h, f, n + 1) /\ SumOf(f, n + 1) = h[n + 1]
  BY SumDef
<1>4. z[0] = 0
  BY <1>1 DEF IsSum
<1>5. g[n] = h[n]
  BY <1>2, <1>3, SumUnique
<1>6. h[n + 1] = h[n] + f[n + 1]
  <2>1. n + 1 \in 0..(n + 1) /\ n + 1 # 0 /\ (n + 1) - 1 = n
    OBVIOUS
  <2> QED BY <1>3, <2>1 DEF IsSum
<1> QED BY <1>1, <1>2, <1>3, <1>4, <1>5, <1>6

LEMMA SumNat ==
    ASSUME NEW n \in Nat, NEW f, \A k \in 1..n : f[k] \in Nat
    PROVE  SumOf(f, n) \in Nat
<1> DEFINE T == {k \in 0..n : SumOf(f, k) \in Nat}
<1>1. 0 \in T
  BY SumStep
<1>2. ASSUME NEW k \in T, k < n PROVE k + 1 \in T
  <2>1. k + 1 \in 0..n /\ k + 1 \in 1..n
    BY <1>2
  <2>2. SumOf(f, k + 1) = SumOf(f, k) + f[k + 1]
    BY SumStep
  <2>3. SumOf(f, k) \in Nat /\ f[k + 1] \in Nat
    BY <2>1
  <2> QED BY <2>1, <2>2, <2>3
<1> HIDE DEF T
<1>3. n \in T
  <2>1. T \subseteq 0..n
    BY DEF T
  <2> QED BY <1>1, <1>2, <2>1, UpTo
<1> QED BY <1>3 DEF T

(* A sum of equal terms *)
LEMMA SumSame ==
    ASSUME NEW n \in Nat, NEW c \in Nat, NEW f, \A k \in 1..n : f[k] = c
    PROVE  SumOf(f, n) = c * n
<1> DEFINE T == {k \in 0..n : SumOf(f, k) = c * k}
<1>1. 0 \in T
  BY SumStep
<1>2. ASSUME NEW k \in T, k < n PROVE k + 1 \in T
  <2>1. k + 1 \in 0..n /\ k + 1 \in 1..n
    BY <1>2
  <2>2. SumOf(f, k + 1) = SumOf(f, k) + f[k + 1]
    BY SumStep
  <2>3. SumOf(f, k) = c * k /\ f[k + 1] = c
    BY <2>1
  <2>4. c * (k + 1) = c * k + c
    OBVIOUS
  <2> QED BY <2>1, <2>2, <2>3, <2>4
<1> HIDE DEF T
<1>3. n \in T
  <2>1. T \subseteq 0..n
    BY DEF T
  <2> QED BY <1>1, <1>2, <2>1, UpTo
<1> QED BY <1>3 DEF T

(* Sums of functions that agree *)
LEMMA SumAgree ==
    ASSUME NEW n \in Nat, NEW f, NEW g, \A k \in 1..n : f[k] = g[k]
    PROVE  SumOf(f, n) = SumOf(g, n)
<1> DEFINE T == {k \in 0..n : SumOf(f, k) = SumOf(g, k)}
<1>1. 0 \in T
  BY SumStep
<1>2. ASSUME NEW k \in T, k < n PROVE k + 1 \in T
  <2>1. k + 1 \in 0..n /\ k + 1 \in 1..n
    BY <1>2
  <2>2. SumOf(f, k + 1) = SumOf(f, k) + f[k + 1] /\ SumOf(g, k + 1) = SumOf(g, k) + g[k + 1]
    BY SumStep
  <2>3. SumOf(f, k) = SumOf(g, k) /\ f[k + 1] = g[k + 1]
    BY <2>1
  <2> QED BY <2>1, <2>2, <2>3
<1> HIDE DEF T
<1>3. n \in T
  <2>1. T \subseteq 0..n
    BY DEF T
  <2> QED BY <1>1, <1>2, <2>1, UpTo
<1> QED BY <1>3 DEF T

(* FlattenSeq of n lists, from its own recursive function *)
IsFlat(g, L, n) == g = [i \in 1..n |-> IF i = 1 THEN L[i] ELSE g[i - 1] \o L[i]]

LEMMA FlatExists == ASSUME NEW L, NEW m \in Nat PROVE \E g : IsFlat(g, L, m)
<1> DEFINE T == {n \in Nat : \E g : IsFlat(g, L, n)}
<1>1. 0 \in T
  <2> DEFINE g == [n \in 1..0 |-> 0]
  <2>1. IsFlat(g, L, 0)
    BY DEF IsFlat
  <2> QED BY <2>1
<1>2. ASSUME NEW n \in T PROVE n + 1 \in T
  <2>1. PICK g : IsFlat(g, L, n)
    OBVIOUS
  <2> DEFINE h == [k \in 1..(n + 1) |->
                      IF k = n + 1 THEN (IF k = 1 THEN L[k] ELSE g[n] \o L[n + 1]) ELSE g[k]]
  <2>2. \A k \in 1..n : g[k] = IF k = 1 THEN L[k] ELSE g[k - 1] \o L[k]
    BY <2>1 DEF IsFlat
  <2>3. \A k \in 1..n : h[k] = g[k]
    OBVIOUS
  <2>4. \A k \in 1..(n + 1) : h[k] = IF k = 1 THEN L[k] ELSE h[k - 1] \o L[k]
    <3> TAKE k \in 1..(n + 1)
    <3>1. CASE k = n + 1
      <4>1. k - 1 = n /\ (k # 1 => n \in 1..n)
        BY <3>1
      <4> QED BY <3>1, <4>1, <2>3
    <3>2. CASE k # n + 1
      <4>1. k \in 1..n /\ (k # 1 => k - 1 \in 1..n)
        BY <3>2
      <4> QED BY <4>1, <2>2, <2>3
    <3> QED BY <3>1, <3>2
  <2>5. h = [k \in 1..(n + 1) |-> h[k]]
    OBVIOUS
  <2> HIDE DEF h
  <2>6. IsFlat(h, L, n + 1)
    BY <2>4, <2>5 DEF IsFlat
  <2> QED BY <2>6
<1> HIDE DEF T
<1>3. T = Nat
  <2>1. T \subseteq Nat
    BY DEF T
  <2> QED BY <1>1, <1>2, <2>1, SetInduction
<1> QED BY <1>3 DEF T

LEMMA FlatDef ==
    ASSUME NEW L, NEW n \in Nat \ {0}, Len(L) = n
    PROVE  \E g : IsFlat(g, L, n) /\ FlattenSeq(L) = g[n]
<1> DEFINE g == CHOOSE g : IsFlat(g, L, n)
<1>1. IsFlat(g, L, n)
  BY FlatExists
<1>2. FlattenSeq(L) = g[n]
  BY DEF FlattenSeq, IsFlat
<1> QED BY <1>1, <1>2

(* n lists of members of A, with their lengths *)
ListOfLists(L, n, A, lens) ==
    /\ n \in Nat \ {0} /\ Len(L) = n
    /\ \A i \in 1..n : L[i] \in Seq(A) /\ lens[i] = Len(L[i])

(* It has the members of all lists and the sum of their lengths. *)
LEMMA Flatten ==
    ASSUME NEW L, NEW n, NEW A, NEW lens, ListOfLists(L, n, A, lens)
    PROVE  /\ FlattenSeq(L) \in Seq(A)
           /\ Len(FlattenSeq(L)) = SumOf(lens, n)
           /\ \A x : x \in Range(FlattenSeq(L)) <=> \E i \in 1..n : x \in Range(L[i])
<1>0. /\ n \in Nat \ {0} /\ Len(L) = n
      /\ \A i \in 1..n : L[i] \in Seq(A) /\ lens[i] = Len(L[i])
  BY DEF ListOfLists
<1>1. PICK g : IsFlat(g, L, n) /\ FlattenSeq(L) = g[n]
  BY <1>0, FlatDef
<1>2. \A k \in 1..n : g[k] = IF k = 1 THEN L[k] ELSE g[k - 1] \o L[k]
  BY <1>1 DEF IsFlat
<1> DEFINE Ok(k) == /\ g[k] \in Seq(A) /\ Len(g[k]) = SumOf(lens, k)
                    /\ \A x : x \in Range(g[k]) <=> \E i \in 1..k : x \in Range(L[i])
<1> DEFINE T == {k \in 0..n : k = 0 \/ Ok(k)}
<1>3. 0 \in T
  BY <1>0
<1>4. ASSUME NEW k \in T, k < n PROVE k + 1 \in T
  <2>1. k + 1 \in 0..n /\ k + 1 \in 1..n /\ (k + 1) - 1 = k /\ k \in Nat
    BY <1>0, <1>4
  <2>2. SumOf(lens, 0) = 0 /\ SumOf(lens, k + 1) = SumOf(lens, k) + Len(L[k + 1])
    BY <1>0, <2>1, SumStep
  <2>3. CASE k = 0
    <3>1. g[k + 1] = L[k + 1] /\ L[k + 1] \in Seq(A)
      BY <1>0, <1>2, <2>1, <2>3
    <3>2. Len(g[k + 1]) = SumOf(lens, k + 1)
      BY <2>2, <2>3, <3>1
    <3>3. 1..(k + 1) = {k + 1}
      BY <2>3
    <3> QED BY <2>1, <3>1, <3>2, <3>3
  <2>4. CASE k # 0
    <3>1. Ok(k)
      BY <2>4
    <3>2. PICK p \in Seq(A) : p = g[k]
      BY <3>1
    <3>3. PICK q \in Seq(A) : q = L[k + 1]
      BY <1>0, <2>1
    <3>4. g[k + 1] = p \o q
      <4>1. k + 1 # 1
        BY <2>1, <2>4
      <4>2. g[k + 1] = g[(k + 1) - 1] \o L[k + 1]
        BY <1>2, <2>1, <4>1
      <4> QED BY <2>1, <3>2, <3>3, <4>2
    <3>5. p \o q \in Seq(A) /\ Len(p \o q) = Len(p) + Len(q)
      BY ConcatList
    <3>6. \A x : x \in Range(p \o q) <=> x \in Range(p) \/ x \in Range(q)
      BY ConcatRange
    <3>7. \A i : i \in 1..(k + 1) <=> i \in 1..k \/ i = k + 1
      BY <2>1
    <3>8. \A x : x \in Range(g[k + 1]) <=> \E i \in 1..(k + 1) : x \in Range(L[i])
      BY <3>1, <3>2, <3>3, <3>4, <3>6, <3>7
    <3>9. Len(g[k + 1]) = SumOf(lens, k + 1)
      BY <2>2, <3>1, <3>2, <3>3, <3>4, <3>5
    <3> QED BY <2>1, <3>4, <3>5, <3>8, <3>9
  <2> QED BY <2>3, <2>4
<1> HIDE DEF T
<1>5. n \in T
  <2>1. T \subseteq 0..n
    BY DEF T
  <2> QED BY <1>0, <1>3, <1>4, <2>1, UpTo
<1> QED BY <1>0, <1>1, <1>5 DEF T

-----------------------------------------------------------------------------
(* num_splits_heuristic *)

LEMMA MulMono ==
    ASSUME NEW a \in Nat, NEW b \in Nat, NEW c \in Nat, a <= b PROVE a * c <= b * c
<1>1. PICK d \in Nat : b = a + d
  <2>1. b - a \in Nat /\ b = a + (b - a)
    OBVIOUS
  <2> QED BY <2>1
<1>2. b * c = a * c + d * c /\ d * c >= 0
  BY <1>1
<1>3. a * c \in Nat
  OBVIOUS
<1> QED BY <1>2, <1>3

LEMMA CeilDivIs ==
    ASSUME NEW a \in Nat, NEW b \in Nat \ {0}
    PROVE  /\ CeilDiv(a, b) \in Nat
           /\ a <= CeilDiv(a, b) * b
           /\ CeilDiv(a, b) * b < a + b
<1>1. PICK q \in Int, r \in Int : a + b - 1 = q * b + r /\ 0 <= r /\ r < b /\ q = CeilDiv(a, b)
  <2>1. a + b - 1 \in Int /\ b \in Int /\ b > 0
    OBVIOUS
  <2>2. a + b - 1 = b * ((a + b - 1) \div b) + ((a + b - 1) % b)
        /\ (a + b - 1) % b \in 0..(b - 1) /\ (a + b - 1) \div b \in Int
    BY <2>1
  <2> QED BY <2>2 DEF CeilDiv
<1>2. a <= q * b /\ q * b < a + b
  BY <1>1
<1>3. q \in Nat
  <2>1. ASSUME q < 0 PROVE FALSE
    <3>1. q * b <= -b
      BY <1>1, <2>1
    <3> QED BY <1>2, <3>1
  <2> QED BY <1>1, <2>1
<1> QED BY <1>1, <1>2, <1>3

(* A number of splits that makes them shorter leaves none empty. *)
LEMMA EligibleSplits ==
    ASSUME NEW n \in Nat \ {0}, NEW k \in Nat \ {0}, Eligible(n, k)
    PROVE  (k - 1) * CeilDiv(n, k) < n
<1>1. CASE k = 1
  <2>1. CeilDiv(n, k) \in Nat
    BY CeilDivIs
  <2> QED BY <1>1, <2>1
<1>2. CASE k # 1
  <2>1. PICK c \in Nat : c = CeilDiv(n, k) /\ n <= c * k /\ c * k < n + k
    BY CeilDivIs
  <2>2. PICK j \in Nat \ {0} : j = k - 1
    BY <1>2
  <2>3. PICK d \in Nat : d = CeilDiv(n, j) /\ n <= d * j /\ d * j < n + j
    BY CeilDivIs
  <2>4. c # d
    BY <1>2, <2>1, <2>2, <2>3 DEF Eligible
  <2>5. SUFFICES ASSUME n <= j * c PROVE FALSE
    BY <2>1, <2>2
  <2>6. d <= c
    <3>1. ASSUME c + 1 <= d PROVE FALSE
      <4>1. (c + 1) * j <= d * j
        BY <3>1, MulMono
      <4>2. (c + 1) * j = j * c + j
        BY <2>2
      <4> QED BY <2>3, <2>5, <4>1, <4>2
    <3> QED BY <3>1
  <2>7. c <= d
    <3>1. ASSUME d + 1 <= c PROVE FALSE
      <4>1. (d + 1) * k <= c * k
        BY <3>1, MulMono
      <4>2. (d + 1) * k = d * j + d + k
        BY <2>2
      <4> QED BY <2>1, <2>3, <4>1, <4>2
    <3> QED BY <3>1
  <2> QED BY <2>4, <2>6, <2>7
<1> QED BY <1>1, <1>2

LEMMA NumSplitsFit ==
    ASSUME NEW n \in Nat \ {0}, NEW work
    PROVE  /\ NumSplits(work, n) \in 1..n
           /\ (NumSplits(work, n) - 1) * CeilDiv(n, NumSplits(work, n)) < n
<1> DEFINE max_splits == CHOOSE x \in {128, NumSms, n} : \A y \in {128, NumSms, n} : x <= y
           tried == {k \in 1..max_splits : Eligible(n, k)}
<1>1. max_splits \in Nat /\ max_splits <= n
  <2>1. NumSms \in Nat
    BY WorkerAssumption
  <2>2. \E x \in {128, NumSms, n} : \A y \in {128, NumSms, n} : x <= y
    BY <2>1
  <2> HIDE DEF max_splits
  <2>3. max_splits \in {128, NumSms, n} /\ \A y \in {128, NumSms, n} : max_splits <= y
    BY <2>2 DEF max_splits
  <2> QED BY <2>1, <2>3
<1>2. NumSplits(work, n) = 1 \/ NumSplits(work, n) \in tried
  <2> DEFINE waves(k) == CeilDiv(work * k, NumSms)
             good(k) == \A j \in tried : 100 * k * waves(j) >= 85 * j * waves(k)
             best == CHOOSE k \in tried : good(k) /\ \A j \in tried : good(j) => k <= j
  <2>1. NumSplits(work, n) =
            IF 10 * work >= 8 * NumSms \/ ~(\E k \in tried : good(k)) THEN 1 ELSE best
    BY DEF NumSplits
  <2> HIDE DEF good, tried
  <2>2. ASSUME \E k \in tried : good(k) PROVE best \in tried
    <3> DEFINE G == {k \in tried : good(k)}
    <3>0. \A k \in tried : k \in Nat
      BY <1>1 DEF tried
    <3>1. G \in SUBSET Nat /\ G # {}
      BY <2>2, <3>0
    <3>2. PICK k \in G : \A j \in G : k <= j
      BY <3>1, LeastNumber
    <3>3. \E i \in tried : good(i) /\ \A j \in tried : good(j) => i <= j
      BY <3>2
    <3> QED BY <3>3
  <2> HIDE DEF best
  <2> QED BY <2>1, <2>2
<1> HIDE DEF max_splits
<1>3. ASSUME NEW k \in tried PROVE k \in 1..n /\ (k - 1) * CeilDiv(n, k) < n
  BY <1>1, EligibleSplits
<1>4. 1 \in 1..n /\ (1 - 1) * CeilDiv(n, 1) < n
  BY EligibleSplits DEF Eligible
<1> QED BY <1>2, <1>3, <1>4

(* A set of numbers below a bound has a greatest member, which MaxOf is. *)
LEMMA MaxOfBounded ==
    ASSUME NEW S \in SUBSET Nat, S # {}, NEW n \in Nat, \A x \in S : x <= n
    PROVE  MaxOf(S) \in S /\ \A y \in S : y <= MaxOf(S)
<1> DEFINE D == {n - x : x \in S}
<1>1. D \in SUBSET Nat /\ D # {}
  <2>1. \A x \in S : n - x \in Nat
    OBVIOUS
  <2>2. PICK x : x \in S
    OBVIOUS
  <2>3. n - x \in D
    BY <2>2
  <2> QED BY <2>1, <2>3
<1>2. PICK d \in D : \A e \in D : d <= e
  BY <1>1, LeastNumber
<1>3. PICK x \in S : d = n - x
  BY <1>2
<1>4. \A y \in S : y <= x
  <2> TAKE y \in S
  <2>1. n - y \in D
    OBVIOUS
  <2>2. n - x <= n - y
    BY <1>2, <1>3, <2>1
  <2> QED BY <2>2
<1> QED BY <1>4 DEF MaxOf

-----------------------------------------------------------------------------
(* A batch as prepare_input_tensors goes through it *)

Entry(s) ==
    [id |-> s, tokens |-> text[s], computed |-> computed[s], table |-> block_tables[s]]

Busy == {s \in SeqIds : slot[s] # "none"}

BusyGroups == {g \in Groups : Scheduled(g) # {}}

Pairs(batch) ==
    [g \in DOMAIN batch |-> [k \in DOMAIN batch[g].seqs |-> <<batch[g], batch[g].seqs[k]>>]]

Flat(batch) == FlattenSeq(Pairs(batch))

(* An order lists a finite set, once each. *)
LEMMA OrderLists ==
    ASSUME NEW S, IsFiniteSet(S), S # {}, NEW f \in Orders(S)
    PROVE  Cardinality(S) \in Nat \ {0} /\ f \in [1..Cardinality(S) -> S] /\ Range(f) = S
<1>1. PICK n : n = Cardinality(S)
  OBVIOUS
<1>2. n \in Nat \ {0}
  BY <1>1, FS_CardinalityType, FS_EmptySet
<1>3. f \in Injection(1..n, S) /\ Cardinality(1..n) = n
  BY <1>1, <1>2, FS_Interval DEF Orders
<1>4. f \in Surjection(1..n, S)
  BY <1>1, <1>3, FS_Injection
<1>5. f \in [1..n -> S] /\ \A t \in S : \E k \in 1..n : f[k] = t
  BY <1>3, <1>4 DEF Injection, Surjection
<1>6. Range(f) = S
  BY <1>5 DEF Range
<1> QED BY <1>1, <1>2, <1>5, <1>6

LEMMA BusyFinite ==
    ASSUME TRUE
    PROVE  /\ IsFiniteSet(BusyGroups)
           /\ \A g \in Groups : IsFiniteSet(Scheduled(g))
           /\ Busy # {} => BusyGroups # {}
           /\ \A s \in Busy : s \in Scheduled(GroupOf[s]) /\ GroupOf[s] \in BusyGroups
           /\ \A g \in Groups : \A s \in Scheduled(g) : s \in Busy /\ GroupOf[s] = g
<1>1. IsFiniteSet(SeqIds) /\ GroupOf \in [SeqIds -> Groups]
  BY SequencesAssumption
<1>2. \A g \in Groups : Scheduled(g) \in SUBSET SeqIds
  BY DEF Scheduled, Members
<1>3. \A g \in Groups : IsFiniteSet(Scheduled(g))
  BY <1>1, <1>2, FS_Subset
<1>4. \A g \in Groups : \A s \in Scheduled(g) : s \in Busy /\ GroupOf[s] = g
  BY DEF Scheduled, Members, Busy
<1>5. \A s \in Busy : s \in Scheduled(GroupOf[s]) /\ GroupOf[s] \in BusyGroups
  BY <1>1 DEF Scheduled, Members, Busy, BusyGroups
<1>6. IsFiniteSet(BusyGroups)
  <2> DEFINE f == [s \in Busy |-> GroupOf[s]]
  <2>1. IsFiniteSet(Busy)
    BY <1>1, FS_Subset DEF Busy
  <2>2. f \in [Busy -> BusyGroups]
    BY <1>5
  <2>3. \A g \in BusyGroups : \E s \in Busy : f[s] = g
    BY <1>4 DEF BusyGroups
  <2>4. f \in Surjection(Busy, BusyGroups)
    BY <2>2, <2>3 DEF Surjection
  <2> QED BY <2>1, <2>4, FS_Surjection
<1> QED BY <1>3, <1>4, <1>5, <1>6

(* The groups and sequences of a batch, and how it lists them *)
BatchOf(batch, n, gs, order) ==
    /\ n \in Nat \ {0} /\ gs \in [1..n -> BusyGroups] /\ Range(gs) = BusyGroups
    /\ batch = [i \in 1..n |-> Metadata(gs[i], order[gs[i]])]
    /\ \A g \in BusyGroups :
          \E m \in Nat \ {0} : order[g] \in [1..m -> Scheduled(g)] /\ Range(order[g]) = Scheduled(g)

LEMMA BatchIs ==
    ASSUME NEW batch \in Batches, Busy # {}
    PROVE  \E n, gs, order : BatchOf(batch, n, gs, order)
<1>1. PICK gs \in Orders(BusyGroups),
           order \in {f \in [BusyGroups -> UNION {Orders(Scheduled(g)) : g \in BusyGroups}] :
                        \A g \in BusyGroups : f[g] \in Orders(Scheduled(g))} :
        batch = [i \in DOMAIN gs |-> Metadata(gs[i], order[gs[i]])]
  <2> DEFINE O == {f \in [BusyGroups -> UNION {Orders(Scheduled(g)) : g \in BusyGroups}] :
                        \A g \in BusyGroups : f[g] \in Orders(Scheduled(g))}
  <2>1. Batches = {[i \in DOMAIN gs |-> Metadata(gs[i], order[gs[i]])] :
                        gs \in Orders(BusyGroups), order \in O}
    BY DEF Batches, BusyGroups
  <2> HIDE DEF O
  <2>2. \E gs \in Orders(BusyGroups), order \in O :
            batch = [i \in DOMAIN gs |-> Metadata(gs[i], order[gs[i]])]
    BY <2>1
  <2> QED BY <2>2 DEF O
<1>2. PICK n \in Nat \ {0} : gs \in [1..n -> BusyGroups] /\ Range(gs) = BusyGroups
  BY BusyFinite, OrderLists
<1>3. ASSUME NEW g \in BusyGroups
      PROVE  \E m \in Nat \ {0} : order[g] \in [1..m -> Scheduled(g)] /\ Range(order[g]) = Scheduled(g)
  <2>1. order[g] \in Orders(Scheduled(g)) /\ Scheduled(g) # {} /\ IsFiniteSet(Scheduled(g))
    BY BusyFinite DEF BusyGroups
  <2> QED BY <2>1, OrderLists
<1>4. BatchOf(batch, n, gs, order)
  BY <1>1, <1>2, <1>3 DEF BatchOf
<1> QED BY <1>4

(* Row group k of the flattened batch *)
IsPromptGroup(g) == \E s \in Scheduled(g) : slot[s] = "prefill"

ListsSequence(m, s) ==
    /\ s \in Busy
    /\ m.is_prompt = IsPromptGroup(GroupOf[s])
    /\ \E f \in Scheduled(GroupOf[s]) :
          m.token_chunk_size = IF m.is_prompt THEN Length(f) - computed[f] ELSE 1

LEMMA FlatLists ==
    ASSUME NEW batch \in Batches, Busy # {}
    PROVE  /\ NumSequences(batch) \in Nat \ {0} /\ Len(Flat(batch)) = NumSequences(batch)
           /\ \E A : Flat(batch) \in Seq(A)
           /\ \A k \in 1..Len(Flat(batch)) :
                 \E s \in Busy : Flat(batch)[k][2] = Entry(s) /\ ListsSequence(Flat(batch)[k][1], s)
           /\ \A s \in Busy : \E k \in 1..Len(Flat(batch)) : Flat(batch)[k][2] = Entry(s)
           /\ 1 \in DOMAIN batch /\ 1 \in DOMAIN batch[1].seqs
<1>0. PICK n, gs, order : BatchOf(batch, n, gs, order)
  BY BatchIs
<1>1. /\ n \in Nat \ {0} /\ gs \in [1..n -> BusyGroups] /\ Range(gs) = BusyGroups
      /\ batch = [i \in 1..n |-> Metadata(gs[i], order[gs[i]])]
      /\ \A g \in BusyGroups :
            \E m \in Nat \ {0} : order[g] \in [1..m -> Scheduled(g)] /\ Range(order[g]) = Scheduled(g)
  BY <1>0 DEF BatchOf
<1> DEFINE Of(g) == {<<Metadata(g, order[g]), Entry(s)>> : s \in Scheduled(g)}
           A == UNION {Of(g) : g \in BusyGroups}
           L == Pairs(batch)
           lens == [h \in DOMAIN batch |-> Len(batch[h].seqs)]
<1>2. DOMAIN batch = 1..n /\ Len(batch) = n /\ DOMAIN L = 1..n /\ Len(L) = n
  BY <1>1 DEF Pairs
<1>3. ASSUME NEW i \in 1..n
      PROVE  \E m \in Nat \ {0} :
                /\ L[i] \in [1..m -> A] /\ L[i] \in Seq(A) /\ Len(L[i]) = m /\ lens[i] = m
                /\ DOMAIN batch[i].seqs = 1..m
                /\ \A x : x \in Range(L[i]) <=> x \in Of(gs[i])
  <2>1. PICK g \in BusyGroups : g = gs[i]
    BY <1>1
  <2>2. PICK m \in Nat \ {0} : order[g] \in [1..m -> Scheduled(g)] /\ Range(order[g]) = Scheduled(g)
    BY <1>1
  <2>3. PICK M : M = Metadata(g, order[g])
    OBVIOUS
  <2>4. batch[i] = M
    BY <1>1, <2>1, <2>3
  <2>5. M.seqs = [k \in 1..m |-> Entry(order[g][k])]
    BY <2>2, <2>3 DEF Metadata, Entry
  <2>6. L[i] = [k \in 1..m |-> <<M, Entry(order[g][k])>>]
    BY <1>2, <2>4, <2>5 DEF Pairs
  <2>7. \A k \in 1..m : order[g][k] \in Scheduled(g) /\ <<M, Entry(order[g][k])>> \in Of(g)
    BY <2>2, <2>3
  <2> HIDE DEF Of
  <2>8. L[i] \in [1..m -> A]
    BY <2>6, <2>7
  <2> HIDE DEF A, L
  <2>9. L[i] \in Seq(A) /\ Len(L[i]) = m
    BY <2>8
  <2>10. lens[i] = m /\ DOMAIN batch[i].seqs = 1..m
    <3>1. Len(M.seqs) = m
      BY <2>5
    <3> QED BY <1>2, <2>4, <2>5, <3>1
  <2>11. ASSUME NEW x \in Of(g) PROVE x \in Range(L[i])
    <3>1. PICK s \in Scheduled(g) : x = <<M, Entry(s)>>
      BY <2>3 DEF Of
    <3>2. PICK k \in 1..m : order[g][k] = s
      BY <2>2 DEF Range
    <3> QED BY <2>6, <3>1, <3>2 DEF Range
  <2>12. ASSUME NEW x \in Range(L[i]) PROVE x \in Of(g)
    BY <2>6, <2>7 DEF Range
  <2> QED BY <2>1, <2>8, <2>9, <2>10, <2>11, <2>12
<1>4. /\ Flat(batch) \in Seq(A) /\ Len(Flat(batch)) = SumOf(lens, n)
      /\ \A x : x \in Range(Flat(batch)) <=> \E i \in 1..n : x \in Range(L[i])
  <2> HIDE DEF A, L, lens, Of
  <2>1. \A i \in 1..n : L[i] \in Seq(A) /\ lens[i] = Len(L[i])
    BY <1>3
  <2>2. /\ FlattenSeq(L) \in Seq(A) /\ Len(FlattenSeq(L)) = SumOf(lens, n)
        /\ \A x : x \in Range(FlattenSeq(L)) <=> \E i \in 1..n : x \in Range(L[i])
    <3>1. ListOfLists(L, n, A, lens)
      BY <1>1, <1>2, <2>1 DEF ListOfLists
    <3> QED BY <3>1, Flatten
  <2> QED BY <2>2 DEF Flat, L
<1>5. NumSequences(batch) = SumOf(lens, n)
  BY <1>2 DEF NumSequences
<1> HIDE DEF L, lens, A
<1>6. SumOf(lens, n) \in Nat
  <2>1. \A i \in 1..n : lens[i] \in Nat
    BY <1>3
  <2> QED BY <1>1, <2>1, SumNat
<1>7. PICK F : F = Flat(batch)
  OBVIOUS
<1>8. ASSUME NEW k \in 1..Len(F)
      PROVE  \E s \in Busy : F[k][2] = Entry(s) /\ ListsSequence(F[k][1], s)
  <2>1. F[k] \in Range(F)
    BY <1>4, <1>7 DEF Range
  <2>2. PICK i \in 1..n : F[k] \in Of(gs[i])
    BY <1>3, <1>4, <1>7, <2>1
  <2>3. PICK g \in BusyGroups : g = gs[i]
    BY <1>1
  <2>4. PICK s \in Scheduled(g) : F[k] = <<Metadata(g, order[g]), Entry(s)>>
    BY <2>2, <2>3
  <2>5. PICK M : M = Metadata(g, order[g])
    OBVIOUS
  <2>6. F[k][1] = M /\ F[k][2] = Entry(s) /\ s \in Busy /\ GroupOf[s] = g
    BY <2>4, <2>5, BusyFinite DEF BusyGroups
  <2>7. PICK m \in Nat \ {0} : order[g] \in [1..m -> Scheduled(g)]
    BY <1>1
  <2>8. order[g][1] \in Scheduled(g)
    BY <2>7
  <2>9. /\ M.is_prompt = IsPromptGroup(g)
        /\ M.token_chunk_size =
              IF M.is_prompt THEN Length(order[g][1]) - computed[order[g][1]] ELSE 1
    BY <2>5 DEF Metadata, IsPromptGroup
  <2>10. ListsSequence(M, s)
    BY <2>6, <2>8, <2>9 DEF ListsSequence
  <2> QED BY <2>6, <2>10
<1>9. ASSUME NEW s \in Busy PROVE \E k \in 1..Len(F) : F[k][2] = Entry(s)
  <2>1. PICK g \in BusyGroups : s \in Scheduled(g)
    BY BusyFinite
  <2>2. PICK i \in 1..n : gs[i] = g
    BY <1>1 DEF Range
  <2>3. <<Metadata(g, order[g]), Entry(s)>> \in Of(gs[i])
    BY <2>1, <2>2
  <2>4. <<Metadata(g, order[g]), Entry(s)>> \in Range(F)
    BY <1>3, <1>4, <1>7, <2>3
  <2>5. PICK k \in 1..Len(F) : F[k] = <<Metadata(g, order[g]), Entry(s)>>
    BY <1>4, <1>7, <2>4 DEF Range
  <2>6. F[k][2] = Entry(s)
    BY <2>5
  <2> QED BY <2>6
<1>10. Len(F) \in Nat \ {0}
  <2>1. PICK k \in 1..Len(F) : TRUE
    BY <1>9
  <2> QED BY <1>4, <1>6, <1>7, <2>1
<1>11. 1 \in DOMAIN batch /\ 1 \in DOMAIN batch[1].seqs
  <2>1. 1 \in 1..n
    BY <1>1
  <2> QED BY <1>2, <1>3, <2>1
<1> QED BY <1>4, <1>5, <1>7, <1>8, <1>9, <1>10, <1>11

-----------------------------------------------------------------------------
(* The tensors of a batch, row by row *)

(* What each sequence of the flattened batch F contributes *)
QueryRows(F) == [k \in 1..Len(F) |-> QueryLength(F[k][1], F[k][2])]

TokenRows(F) == [k \in 1..Len(F) |-> InputTokens(F[k][1], F[k][2])]

PositionRows(F) == [k \in 1..Len(F) |-> InputPositions(F[k][1], F[k][2])]

SlotRows(F) == [k \in 1..Len(F) |-> SlotMapping(F[k][1], F[k][2])]

LengthRows(F) == [k \in 1..Len(F) |-> SequenceLength(F[k][1], F[k][2])]

TableRows(F) == [k \in 1..Len(F) |-> TableOf(F[k][1], F[k][2])]

PrefillRows(F) == [k \in 1..Len(F) |-> IF F[k][1].is_prompt THEN QueryRows(F)[k] ELSE 0]

(* The tensors in of a flattened batch F *)
TensorsOf(in, F) ==
    /\ in.tokens = FlattenSeq(TokenRows(F))
    /\ in.positions = FlattenSeq(PositionRows(F))
    /\ in.slot_mapping = FlattenSeq(SlotRows(F))
    /\ in.sequence_lengths = LengthRows(F)
    /\ in.query_start_loc = StartLocations(QueryRows(F))
    /\ in.seq_start_loc = StartLocations(LengthRows(F))
    /\ in.block_tables = Padded(TableRows(F))
    /\ in.num_prefills = Cardinality({k \in 1..Len(F) : F[k][1].is_prompt})
    /\ in.num_prefill_tokens = SumOf(PrefillRows(F), Len(F))
    /\ in.num_decode_tokens = SumOf(QueryRows(F), Len(F)) - SumOf(PrefillRows(F), Len(F))
    /\ in.max_prefill_seq_len = MaxOf({0} \cup
          {SequenceLength(F[k][1], F[k][2]) : k \in {j \in 1..Len(F) : F[j][1].is_prompt}})

LEMMA Tensors == ASSUME NEW batch PROVE TensorsOf(PrepareInputTensors(batch), Flat(batch))
BY DEF TensorsOf, PrepareInputTensors, Flat, Pairs, PrefillRows, QueryRows, TokenRows, PositionRows,
       SlotRows, LengthRows, TableRows

(* What flattening does to the lengths, whatever the lists hold *)
LEMMA FlattenLength ==
    ASSUME NEW n \in Nat \ {0}, NEW L, Len(L) = n, NEW lens,
           \A i \in 1..n : lens[i] \in Nat /\ Len(L[i]) = lens[i] /\ \E A : L[i] \in Seq(A)
    PROVE  Len(FlattenSeq(L)) = SumOf(lens, n)
<1> DEFINE A == UNION {Range(L[i]) : i \in 1..n}
<1>1. ASSUME NEW i \in 1..n PROVE L[i] \in Seq(A)
  <2>1. PICK B : L[i] \in Seq(B)
    OBVIOUS
  <2>2. PICK l \in Seq(B) : l = L[i]
    BY <2>1
  <2>3. \A j \in 1..Len(l) : l[j] \in Range(l)
    BY DEF Range
  <2>4. \A j \in 1..Len(l) : l[j] \in A
    BY <2>2, <2>3
  <2> HIDE DEF A
  <2>5. PICK k \in Nat : k = Len(l) /\ l \in [1..k -> B]
    OBVIOUS
  <2>6. l \in [1..k -> A]
    BY <2>4, <2>5
  <2>7. l \in Seq(A)
    BY <2>5, <2>6
  <2> QED BY <2>2, <2>7
<1> HIDE DEF A
<1>2. ListOfLists(L, n, A, lens)
  BY <1>1 DEF ListOfLists
<1> QED BY <1>2, Flatten

-----------------------------------------------------------------------------
(* Texts: a text is as long as the logical blocks say, and no more of it is
   computed than there is. *)

TextOK(s) ==
    /\ status[s] \in Live => Len(text[s]) = Length(s) /\ Length(s) >= MinPromptTokens
    /\ status[s] \notin Live => text[s] = <<>>
    /\ computed[s] <= Len(text[s])

Texts ==
    /\ computed \in [SeqIds -> Nat] /\ text \in [SeqIds -> Seq(SeqIds \cup Groups)]
    /\ \A s \in SeqIds : TextOK(s)

(* Kinds: a batch is all prompts or all decodings, by the loops it came from;
   a prompt is alone in its group. *)
Kinds ==
    /\ loop = "none" /\ ~executed => Busy = {}
    /\ loop = "prefills" => \A s \in Busy : slot[s] = "prefill"
    /\ loop \in {"running", "swapped"} => \A s \in Busy : slot[s] = "decode"
    /\ appending # {} => loop \in {"running", "swapped"}
    /\ worker_err = "none" =>
          \A s, t \in Busy : slot[s] = "prefill" /\ GroupOf[s] = GroupOf[t] => s = t

(* The rows of one sequence: every tensor gets as many as its query is long. *)
RowFits(m, q, len) ==
    /\ len \in Nat /\ QueryLength(m, q) = len
    /\ Len(InputTokens(m, q)) = len /\ \E A : InputTokens(m, q) \in Seq(A)
    /\ Len(InputPositions(m, q)) = len /\ \E A : InputPositions(m, q) \in Seq(A)
    /\ Len(SlotMapping(m, q)) = len /\ \E A : SlotMapping(m, q) \in Seq(A)

LEMMA PromptRow ==
    ASSUME IndInv, Texts, Kinds, worker_err = "none", NEW s \in Busy, slot[s] = "prefill",
           NEW m, ListsSequence(m, s)
    PROVE  /\ m.is_prompt
           /\ SequenceLength(m, Entry(s)) = Len(text[s])
           /\ RowFits(m, Entry(s), Len(text[s]) - computed[s])
           /\ TableOf(m, Entry(s)) = <<>>
<1> DEFINE q == Entry(s)
<1>1. PICK t : t = text[s]
  OBVIOUS
<1>2. PICK c : c = computed[s]
  OBVIOUS
<1>3. /\ s \in SeqIds /\ t \in Seq(SeqIds \cup Groups) /\ c \in Nat /\ c <= Len(t) /\ Len(t) = Length(s)
      /\ status[s] = "Running"
  BY <1>1, <1>2 DEF Busy, Texts, TextOK, Live, IndInv, LengthsAgree, LengthOK
<1>4. m.is_prompt /\ m.token_chunk_size = Len(t) - c
  <2>1. s \in Scheduled(GroupOf[s])
    BY BusyFinite
  <2>2. m.is_prompt
    BY <2>1 DEF ListsSequence, IsPromptGroup
  <2>3. PICK f \in Scheduled(GroupOf[s]) : m.token_chunk_size = Length(f) - computed[f]
    BY <2>2 DEF ListsSequence
  <2>4. f = s
    <3>1. GroupOf[s] \in Groups
      BY <1>3, SequencesAssumption
    <3>2. f \in Busy /\ GroupOf[f] = GroupOf[s]
      BY <3>1, BusyFinite
    <3> QED BY <3>2 DEF Kinds
  <2> QED BY <1>2, <1>3, <2>2, <2>3, <2>4
<1>5. q.tokens = t /\ q.computed = c
  BY <1>1, <1>2 DEF Entry
<1> HIDE DEF q
<1>6. ContextLength(m, q) = c
  BY <1>4, <1>5 DEF ContextLength
<1>7. SequenceLength(m, q) = Len(t)
  BY <1>3, <1>4, <1>5, <1>6 DEF SequenceLength
<1>8. PICK len \in Nat : len = Len(t) - c
  BY <1>3
<1>9. QueryLength(m, q) = len
  BY <1>4, <1>6, <1>7, <1>8 DEF QueryLength
<1>10. Len(InputTokens(m, q)) = len /\ InputTokens(m, q) \in Seq(SeqIds \cup Groups)
  <2>1. InputTokens(m, q) = SubSeq(t, c + 1, Len(t))
    BY <1>4, <1>5, <1>6, <1>7 DEF InputTokens
  <2>2. \A i \in (c + 1)..Len(t) : i \in 1..Len(t)
    BY <1>3
  <2> QED BY <1>3, <1>8, <2>1, <2>2
<1>11. InputPositions(m, q) = [i \in 1..len |-> c + i - 1]
  BY <1>6, <1>7, <1>8 DEF InputPositions
<1>12. Len(InputPositions(m, q)) = len /\ InputPositions(m, q) \in Seq(Nat)
  BY <1>3, <1>11
<1>13. SlotMapping(m, q) = [i \in 1..len |-> SlotOf(q.table, InputPositions(m, q)[i])]
  BY <1>11 DEF SlotMapping
<1> DEFINE A == {SlotOf(q.table, InputPositions(m, q)[i]) : i \in 1..len}
<1>14. Len(SlotMapping(m, q)) = len /\ SlotMapping(m, q) \in Seq(A)
  <2>1. \A i \in 1..len : SlotOf(q.table, InputPositions(m, q)[i]) \in A
    OBVIOUS
  <2> HIDE DEF A
  <2> QED BY <1>13, <2>1
<1> HIDE DEF A
<1>15. RowFits(m, q, len)
  BY <1>9, <1>10, <1>12, <1>14 DEF RowFits
<1>16. TableOf(m, q) = <<>>
  BY <1>4 DEF TableOf
<1> QED BY <1>1, <1>2, <1>4, <1>7, <1>8, <1>15, <1>16 DEF q

LEMMA DecodeRow ==
    ASSUME IndInv, Texts, Kinds, NEW s \in Busy, \A t \in Busy : slot[t] = "decode",
           NEW m, ListsSequence(m, s)
    PROVE  /\ ~m.is_prompt
           /\ RowFits(m, Entry(s), 1)
           /\ TableOf(m, Entry(s)) = block_tables[s]
<1> DEFINE q == Entry(s)
<1>1. PICK t : t = text[s]
  OBVIOUS
<1>2. /\ s \in SeqIds /\ t \in Seq(SeqIds \cup Groups) /\ Len(t) = Length(s)
      /\ Len(t) \in Nat \ {0}
  <2>1. MinPromptTokens \in Nat \ {0}
    BY WorkerAssumption
  <2>2. s \in SeqIds /\ status[s] = "Running"
    BY DEF Busy, IndInv, LengthsAgree, LengthOK
  <2>3. t \in Seq(SeqIds \cup Groups) /\ Len(t) = Length(s) /\ Length(s) >= MinPromptTokens
    BY <1>1, <2>2 DEF Texts, TextOK, Live
  <2> QED BY <2>1, <2>2, <2>3
<1>3. ~m.is_prompt /\ m.token_chunk_size = 1
  <2>1. GroupOf[s] \in Groups
    BY <1>2, SequencesAssumption
  <2>2. \A f \in Scheduled(GroupOf[s]) : slot[f] = "decode"
    BY <2>1, BusyFinite
  <2>3. ~IsPromptGroup(GroupOf[s])
    BY <2>2 DEF IsPromptGroup
  <2> QED BY <2>3 DEF ListsSequence
<1>4. q.tokens = t /\ q.table = block_tables[s]
  BY <1>1 DEF Entry
<1> HIDE DEF q
<1>5. ContextLength(m, q) = Len(t) - 1
  BY <1>3, <1>4 DEF ContextLength
<1>6. SequenceLength(m, q) = Len(t)
  BY <1>2, <1>3, <1>4, <1>5 DEF SequenceLength
<1>7. QueryLength(m, q) = 1 /\ TableOf(m, q) = block_tables[s]
  BY <1>3, <1>4 DEF QueryLength, TableOf
<1>8. InputTokens(m, q) = <<t[Len(t)]>>
  BY <1>3, <1>4 DEF InputTokens
<1>9. Len(InputTokens(m, q)) = 1 /\ InputTokens(m, q) \in Seq(SeqIds \cup Groups)
  BY <1>2, <1>8
<1>10. InputPositions(m, q) = [i \in 1..1 |-> Len(t) - 1 + i - 1]
  <2>1. SequenceLength(m, q) - ContextLength(m, q) = 1
    BY <1>2, <1>5, <1>6
  <2> QED BY <1>5, <2>1 DEF InputPositions
<1>11. Len(InputPositions(m, q)) = 1 /\ InputPositions(m, q) \in Seq(Nat)
  BY <1>2, <1>10
<1>12. SlotMapping(m, q) = [i \in 1..1 |-> SlotOf(q.table, InputPositions(m, q)[i])]
  BY <1>10 DEF SlotMapping
<1> DEFINE A == {SlotOf(q.table, InputPositions(m, q)[i]) : i \in 1..1}
<1>13. Len(SlotMapping(m, q)) = 1 /\ SlotMapping(m, q) \in Seq(A)
  <2>1. \A i \in 1..1 : SlotOf(q.table, InputPositions(m, q)[i]) \in A
    OBVIOUS
  <2> HIDE DEF A
  <2> QED BY <1>12, <2>1
<1> HIDE DEF A
<1>14. RowFits(m, q, 1)
  BY <1>7, <1>9, <1>11, <1>13 DEF RowFits
<1> QED BY <1>3, <1>7, <1>14 DEF q

(* Lists built from the rows *)
LEMMA ListOfValues ==
    ASSUME NEW n \in Nat, NEW f, f = [k \in 1..n |-> f[k]]
    PROVE  Len(f) = n /\ f \in Seq(Range(f))
<1>1. \A k \in 1..n : f[k] \in Range(f)
  BY DEF Range
<1>2. f \in [1..n -> Range(f)]
  BY <1>1
<1> QED BY <1>2

(* All tensors with a row per token have one length; those with an entry per
   sequence have another. *)
LEMMA TensorsFit ==
    ASSUME NEW F, NEW in, TensorsOf(in, F),
           NEW n \in Nat \ {0}, Len(F) = n,
           \A k \in 1..n : \E len : RowFits(F[k][1], F[k][2], len)
    PROVE  /\ \A k \in 1..n : QueryRows(F)[k] \in Nat
           /\ Len(in.tokens) = SumOf(QueryRows(F), n)
           /\ Len(in.positions) = SumOf(QueryRows(F), n)
           /\ Len(in.slot_mapping) = SumOf(QueryRows(F), n)
           /\ Len(in.query_start_loc) = n + 1
           /\ Len(in.seq_start_loc) = n + 1 /\ in.seq_start_loc \in Seq(Range(in.seq_start_loc))
           /\ Len(in.sequence_lengths) = n /\ in.sequence_lengths \in Seq(Range(in.sequence_lengths))
           /\ Len(in.block_tables) = n
<1> DEFINE lens == QueryRows(F)
<1>1. ASSUME NEW k \in 1..n PROVE RowFits(F[k][1], F[k][2], lens[k])
  <2>1. PICK len : RowFits(F[k][1], F[k][2], len)
    OBVIOUS
  <2>2. lens[k] = len
    BY <2>1 DEF QueryRows, RowFits
  <2> QED BY <2>1, <2>2
<1> HIDE DEF lens
<1>2. \A k \in 1..n : lens[k] \in Nat
  BY <1>1 DEF RowFits
<1>3. Len(in.tokens) = SumOf(lens, n)
  <2> DEFINE L == TokenRows(F)
  <2>1. L = [k \in 1..n |-> InputTokens(F[k][1], F[k][2])]
    BY DEF TokenRows
  <2>2. Len(L) = n
    BY <2>1
  <2>3. \A i \in 1..n : Len(L[i]) = lens[i] /\ \E A : L[i] \in Seq(A)
    BY <1>1, <2>1 DEF RowFits
  <2> HIDE DEF L
  <2>4. Len(FlattenSeq(L)) = SumOf(lens, n)
    BY <1>2, <2>2, <2>3, FlattenLength
  <2> QED BY <2>4 DEF L, TensorsOf
<1>4. Len(in.positions) = SumOf(lens, n)
  <2> DEFINE L == PositionRows(F)
  <2>1. L = [k \in 1..n |-> InputPositions(F[k][1], F[k][2])]
    BY DEF PositionRows
  <2>2. Len(L) = n
    BY <2>1
  <2>3. \A i \in 1..n : Len(L[i]) = lens[i] /\ \E A : L[i] \in Seq(A)
    BY <1>1, <2>1 DEF RowFits
  <2> HIDE DEF L
  <2>4. Len(FlattenSeq(L)) = SumOf(lens, n)
    BY <1>2, <2>2, <2>3, FlattenLength
  <2> QED BY <2>4 DEF L, TensorsOf
<1>5. Len(in.slot_mapping) = SumOf(lens, n)
  <2> DEFINE L == SlotRows(F)
  <2>1. L = [k \in 1..n |-> SlotMapping(F[k][1], F[k][2])]
    BY DEF SlotRows
  <2>2. Len(L) = n
    BY <2>1
  <2>3. \A i \in 1..n : Len(L[i]) = lens[i] /\ \E A : L[i] \in Seq(A)
    BY <1>1, <2>1 DEF RowFits
  <2> HIDE DEF L
  <2>4. Len(FlattenSeq(L)) = SumOf(lens, n)
    BY <1>2, <2>2, <2>3, FlattenLength
  <2> QED BY <2>4 DEF L, TensorsOf
<1>6. Len(in.query_start_loc) = n + 1
  <2>1. Len(lens) = n
    BY DEF lens, QueryRows
  <2>2. in.query_start_loc = [k \in 1..(n + 1) |-> SumOf(lens, k - 1)]
    BY <2>1 DEF TensorsOf, lens, StartLocations
  <2> QED BY <2>2
<1>7. Len(in.sequence_lengths) = n /\ in.sequence_lengths \in Seq(Range(in.sequence_lengths))
  <2>1. PICK f : f = in.sequence_lengths
    OBVIOUS
  <2>2. f = [k \in 1..n |-> SequenceLength(F[k][1], F[k][2])]
    BY <2>1 DEF TensorsOf, LengthRows
  <2> QED BY <2>1, <2>2, ListOfValues
<1>8. Len(in.seq_start_loc) = n + 1 /\ in.seq_start_loc \in Seq(Range(in.seq_start_loc))
  <2>1. PICK f : f = in.seq_start_loc
    OBVIOUS
  <2>2. Len(LengthRows(F)) = n
    BY DEF LengthRows
  <2>3. f = [k \in 1..(n + 1) |-> SumOf(LengthRows(F), k - 1)]
    BY <2>1, <2>2 DEF TensorsOf, StartLocations
  <2>4. n + 1 \in Nat /\ f = [k \in 1..(n + 1) |-> f[k]]
    BY <2>3
  <2> QED BY <2>1, <2>4, ListOfValues
<1>9. Len(in.block_tables) = n
  <2> DEFINE T == TableRows(F)
  <2>1. DOMAIN T = 1..n
    BY DEF TableRows
  <2> HIDE DEF T
  <2>2. DOMAIN Padded(T) = 1..n
    BY <2>1 DEF Padded
  <2>3. Len(Padded(T)) = n
    <3>1. PICK f : f = Padded(T)
      OBVIOUS
    <3>2. f = [k \in 1..n |-> f[k]]
      BY <2>1, <3>1 DEF Padded
    <3> QED BY <3>1, <3>2
  <2> QED BY <2>3 DEF T, TensorsOf
<1> QED BY <1>2, <1>3, <1>4, <1>5, <1>6, <1>7, <1>8, <1>9 DEF lens

(* No more tokens than the logical blocks hold *)
LEMMA LengthBound ==
    ASSUME IndInv, Grouped, NEW s \in SeqIds, status[s] # "Unborn"
    PROVE  Length(s) \in Int /\ Length(s) <= MaxTokens /\ MaxTokens \in Nat
<1>1. PICK l \in Nat \ {0} : l = logical[s] /\ l <= MaxLogicalBlocks
  BY DEF IndInv, TypeOK, LengthsAgree, LengthOK, Grouped, Bounded
<1>2. PICK f \in Nat : f = last_fill[s] /\ f <= BlockSize
  BY SizesAssumption DEF IndInv, TypeOK
<1>3. BlockSize \in Nat /\ MaxLogicalBlocks \in Nat
  BY SizesAssumption
<1>4. l * BlockSize <= MaxLogicalBlocks * BlockSize /\ MaxLogicalBlocks * BlockSize \in Nat
  BY <1>1, <1>3, MulMono
<1>5. l * BlockSize = (l - 1) * BlockSize + BlockSize
  BY <1>1, <1>3
<1>6. Length(s) = (l - 1) * BlockSize + f
  BY <1>1, <1>2 DEF Length
<1> QED BY <1>2, <1>3, <1>4, <1>5, <1>6 DEF MaxTokens

(* The configuration the kernels are built for *)
KernelsFit ==
    /\ NumHeads % NumKvHeads = 0 /\ BlockSize % PageMultiple = 0
    /\ MinPromptTokens >= 2 \/ NumHeads <= NumKvHeads

(* A batch of prompts: as many start locations as sequences, every row a row of
   a prompt, nothing left for the decoding kernel. *)
LEMMA PromptBatch ==
    ASSUME IndInv, Grouped, Texts, Kinds, worker_err = "none", loop = "prefills", Busy # {},
           NEW batch \in Batches, NEW in, in = PrepareInputTensors(batch)
    PROVE  /\ Len(in.query_start_loc) = NumSequences(batch) + 1
           /\ ComputeNumSplits(in) = 0
           /\ KernelsFit => ~ForwardFails(in)
<1>1. PICK F : F = Flat(batch)
  OBVIOUS
<1>2. PICK n \in Nat \ {0} : n = NumSequences(batch) /\ Len(F) = n
  BY <1>1, FlatLists
<1>3. ASSUME NEW k \in 1..n
      PROVE  /\ F[k][1].is_prompt /\ \E len : RowFits(F[k][1], F[k][2], len)
             /\ SequenceLength(F[k][1], F[k][2]) \in MinPromptTokens..MaxTokens
  <2>1. PICK s \in Busy : F[k][2] = Entry(s) /\ ListsSequence(F[k][1], s)
    BY <1>1, <1>2, FlatLists
  <2>2. slot[s] = "prefill"
    BY DEF Kinds
  <2>3. /\ F[k][1].is_prompt /\ SequenceLength(F[k][1], F[k][2]) = Len(text[s])
        /\ RowFits(F[k][1], F[k][2], Len(text[s]) - computed[s])
    BY <2>1, <2>2, PromptRow
  <2>4. s \in SeqIds /\ status[s] = "Running"
    BY DEF Busy, IndInv, LengthsAgree, LengthOK
  <2>5. Len(text[s]) = Length(s) /\ Length(s) >= MinPromptTokens
    BY <2>4 DEF Texts, TextOK, Live
  <2>6. Length(s) \in Int /\ Length(s) <= MaxTokens /\ MaxTokens \in Nat /\ MinPromptTokens \in Nat
    BY <2>4, LengthBound, WorkerAssumption
  <2> QED BY <2>3, <2>5, <2>6
<1>4. TensorsOf(in, F)
  BY <1>1, Tensors
<1>5. \A k \in 1..n : \E len : RowFits(F[k][1], F[k][2], len)
  BY <1>3
<1>6. /\ \A k \in 1..n : QueryRows(F)[k] \in Nat
      /\ Len(in.tokens) = SumOf(QueryRows(F), n)
      /\ Len(in.positions) = SumOf(QueryRows(F), n)
      /\ Len(in.slot_mapping) = SumOf(QueryRows(F), n)
      /\ Len(in.query_start_loc) = n + 1
      /\ Len(in.seq_start_loc) = n + 1 /\ in.seq_start_loc \in Seq(Range(in.seq_start_loc))
  BY <1>2, <1>4, <1>5, TensorsFit
<1>7. SumOf(PrefillRows(F), n) = SumOf(QueryRows(F), n) /\ SumOf(QueryRows(F), n) \in Nat
  <2>1. \A k \in 1..n : PrefillRows(F)[k] = QueryRows(F)[k]
    BY <1>2, <1>3 DEF PrefillRows
  <2> QED BY <1>6, <2>1, SumAgree, SumNat
<1>8. in.num_prefill_tokens = Len(in.tokens) /\ in.num_decode_tokens = 0 /\ Len(in.tokens) \in Nat
  BY <1>2, <1>4, <1>6, <1>7 DEF TensorsOf
<1>9. in.num_prefills = n
  <2>1. {k \in 1..n : F[k][1].is_prompt} = 1..n
    BY <1>3
  <2>2. Cardinality(1..n) = n
    BY FS_Interval
  <2> QED BY <1>2, <1>4, <2>1, <2>2 DEF TensorsOf
<1>10. Len(PrefillMetadata(in).sequence_start_locations) = n + 1
  <2>1. PICK f : f = in.seq_start_loc
    OBVIOUS
  <2>2. f \in Seq(Range(f)) /\ Len(f) = n + 1 /\ n + 1 \in Nat
    BY <1>6, <2>1
  <2>3. Len(SubSeq(f, 1, n + 1)) = n + 1
    BY <2>2
  <2> QED BY <1>9, <2>1, <2>3 DEF PrefillMetadata
<1>11. in.max_prefill_seq_len >= MinPromptTokens /\ in.max_prefill_seq_len \in Nat
  <2> DEFINE S == {SequenceLength(F[k][1], F[k][2]) : k \in {j \in 1..n : F[j][1].is_prompt}}
  <2>0. MinPromptTokens \in Nat /\ MaxTokens \in Nat
    BY WorkerAssumption, SizesAssumption DEF MaxTokens
  <2>1. \A x \in S : x \in MinPromptTokens..MaxTokens
    BY <1>3
  <2>2. PICK x : x \in S
    <3>1. 1 \in {j \in 1..n : F[j][1].is_prompt}
      BY <1>3
    <3> QED BY <3>1
  <2>3. in.max_prefill_seq_len = MaxOf({0} \cup S)
    BY <1>2, <1>4 DEF TensorsOf
  <2> HIDE DEF S
  <2>4. {0} \cup S \in SUBSET Nat /\ {0} \cup S # {} /\ \A y \in {0} \cup S : y <= MaxTokens
    BY <2>0, <2>1
  <2>5. MaxOf({0} \cup S) \in {0} \cup S /\ \A y \in {0} \cup S : y <= MaxOf({0} \cup S)
    BY <2>0, <2>4, MaxOfBounded
  <2>6. x <= MaxOf({0} \cup S) /\ x >= MinPromptTokens /\ x \in Nat /\ MaxOf({0} \cup S) \in Nat
    BY <2>0, <2>1, <2>2, <2>4, <2>5
  <2> QED BY <2>0, <2>3, <2>6
<1>12. ASSUME KernelsFit PROVE ~PrefillFails(in)
  <2>1. MinPromptTokens \in Nat /\ NumHeads \in Nat /\ NumKvHeads \in Nat
    BY WorkerAssumption
  <2>2. ~NgroupsSwapped(in)
    BY <1>11, <1>12, <2>1 DEF NgroupsSwapped, KernelsFit
  <2>3. ~(Len(PrefillMetadata(in).sequence_start_locations) < 2)
    BY <1>10
  <2> QED BY <1>12, <2>2, <2>3 DEF PrefillFails, KernelsFit
<1>13. ComputeNumSplits(in) = 0
  BY <1>8 DEF ComputeNumSplits
<1>14. ASSUME KernelsFit PROVE ~ForwardFails(in)
  <2>1. ~RotaryFails(in) /\ ~CacheWriteFails(in)
    BY <1>6 DEF RotaryFails, CacheWriteFails
  <2>2. Len(in.tokens) = in.num_prefill_tokens + in.num_decode_tokens /\ ~(in.num_decode_tokens > 0)
    BY <1>8
  <2> QED BY <1>12, <1>14, <2>1, <2>2 DEF ForwardFails
<1> QED BY <1>2, <1>6, <1>13, <1>14

(* The widest table in the batch *)
WidestTable == MaxOf({Len(block_tables[s]) : s \in Busy})

LEMMA WidestIs ==
    ASSUME IndInv, Grouped, Busy # {}
    PROVE  WidestTable \in Nat \ {0}
<1> DEFINE S == {Len(block_tables[s]) : s \in Busy}
<1>1. \A s \in Busy : Len(block_tables[s]) \in 1..MaxLogicalBlocks
  <2> TAKE s \in Busy
  <2>1. s \in SeqIds /\ slot[s] # "none"
    BY DEF Busy
  <2>2. /\ Len(block_tables[s]) = logical[s] /\ logical[s] \in Nat /\ logical[s] >= 1
        /\ logical[s] <= MaxLogicalBlocks /\ MaxLogicalBlocks \in Nat
    BY <2>1, SizesAssumption DEF IndInv, TypeOK, LengthsAgree, LengthOK, Grouped, Bounded
  <2> QED BY <2>2
<1>2. MaxLogicalBlocks \in Nat
  BY SizesAssumption
<1>3. S \in SUBSET Nat /\ S # {} /\ \A x \in S : x <= MaxLogicalBlocks /\ x # 0
  <2>1. PICK s : s \in Busy
    OBVIOUS
  <2>2. Len(block_tables[s]) \in S
    BY <2>1
  <2>3. \A x \in S : x \in 1..MaxLogicalBlocks
    BY <1>1
  <2> HIDE DEF S
  <2> QED BY <1>2, <2>2, <2>3
<1> HIDE DEF S
<1>4. MaxOf(S) \in S
  BY <1>2, <1>3, MaxOfBounded
<1> QED BY <1>3, <1>4 DEF WidestTable, S


(* A batch of decodings: a row per sequence, nothing for the prompt kernel, and
   the padded tables as wide as the widest. *)
LEMMA DecodeBatch ==
    ASSUME IndInv, Grouped, Texts, Kinds, loop \in {"running", "swapped"}, Busy # {},
           NEW batch \in Batches, NEW in, in = PrepareInputTensors(batch)
    PROVE  /\ Len(in.query_start_loc) = NumSequences(batch) + 1
           /\ \E work : ComputeNumSplits(in) = NumSplits(work, CeilDiv(WidestTable * BlockSize, KeyBlock))
           /\ KernelsFit => ~ForwardFails(in)
<1>1. PICK F : F = Flat(batch)
  OBVIOUS
<1>2. PICK n \in Nat \ {0} : n = NumSequences(batch) /\ Len(F) = n
  BY <1>1, FlatLists
<1>3. ASSUME NEW k \in 1..n
      PROVE  /\ ~F[k][1].is_prompt /\ RowFits(F[k][1], F[k][2], 1)
             /\ \E s \in Busy : TableOf(F[k][1], F[k][2]) = block_tables[s]
             /\ \A s \in Busy : F[k][2] = Entry(s) => TableOf(F[k][1], F[k][2]) = block_tables[s]
  <2>1. PICK s \in Busy : F[k][2] = Entry(s) /\ ListsSequence(F[k][1], s)
    BY <1>1, <1>2, FlatLists
  <2>2. \A t \in Busy : slot[t] = "decode"
    BY DEF Kinds
  <2>3. ~F[k][1].is_prompt /\ RowFits(F[k][1], F[k][2], 1) /\ TableOf(F[k][1], F[k][2]) = block_tables[s]
    BY <2>1, <2>2, DecodeRow
  <2>4. \A t \in Busy : F[k][2] = Entry(t) => t = s
    BY <2>1 DEF Entry
  <2> QED BY <2>3, <2>4
<1>4. TensorsOf(in, F)
  BY <1>1, Tensors
<1>5. \A k \in 1..n : \E len : RowFits(F[k][1], F[k][2], len)
  BY <1>3
<1>6. /\ Len(in.tokens) = SumOf(QueryRows(F), n)
      /\ Len(in.positions) = SumOf(QueryRows(F), n)
      /\ Len(in.slot_mapping) = SumOf(QueryRows(F), n)
      /\ Len(in.query_start_loc) = n + 1
      /\ Len(in.sequence_lengths) = n /\ in.sequence_lengths \in Seq(Range(in.sequence_lengths))
      /\ Len(in.block_tables) = n
  BY <1>2, <1>4, <1>5, TensorsFit
<1>7. SumOf(PrefillRows(F), n) = 0 /\ SumOf(QueryRows(F), n) = n
  <2>1. \A k \in 1..n : PrefillRows(F)[k] = 0
    BY <1>2, <1>3 DEF PrefillRows
  <2>2. \A k \in 1..n : QueryRows(F)[k] = 1
    BY <1>2, <1>3 DEF QueryRows, RowFits
  <2>3. SumOf(PrefillRows(F), n) = 0 * n
    BY <2>1, SumSame
  <2>4. SumOf(QueryRows(F), n) = 1 * n
    BY <2>2, SumSame
  <2> QED BY <2>3, <2>4
<1>8. in.num_prefill_tokens = 0 /\ in.num_decode_tokens = n /\ Len(in.tokens) = n
  BY <1>2, <1>4, <1>6, <1>7 DEF TensorsOf
<1>9. in.num_prefills = 0
  <2>1. {k \in 1..n : F[k][1].is_prompt} = {}
    BY <1>3
  <2> QED BY <1>2, <1>4, <2>1, FS_EmptySet DEF TensorsOf
<1>10. ASSUME KernelsFit PROVE ~DecodeFails(in)
  <2>1. PICK f : f = in.sequence_lengths
    OBVIOUS
  <2>2. f \in Seq(Range(f)) /\ Len(f) = n
    BY <1>6, <2>1
  <2>3. Len(SubSeq(f, 1, n)) = n
    BY <2>2
  <2>4. DecodingMetadata(in).sequence_lengths = SubSeq(f, 1, n)
    BY <1>9, <2>1, <2>2 DEF DecodingMetadata
  <2>5. DecodingMetadata(in).block_tables = in.block_tables
    BY DEF DecodingMetadata
  <2> QED BY <1>6, <1>8, <1>10, <2>3, <2>4, <2>5 DEF DecodeFails, KernelsFit
<1>11. Len(in.block_tables[1]) = WidestTable
  <2> DEFINE T == TableRows(F)
             S == {Len(T[k]) : k \in DOMAIN T}
  <2>1. T = [k \in 1..n |-> TableOf(F[k][1], F[k][2])] /\ DOMAIN T = 1..n
    BY <1>2 DEF TableRows
  <2>2. ASSUME NEW k \in 1..n PROVE \E s \in Busy : T[k] = block_tables[s]
    BY <1>3, <2>1
  <2>3. ASSUME NEW s \in Busy PROVE \E k \in 1..n : T[k] = block_tables[s]
    <3>1. PICK k \in 1..n : F[k][2] = Entry(s)
      BY <1>1, <1>2, FlatLists
    <3> QED BY <1>3, <2>1, <3>1
  <2> HIDE DEF T
  <2>4. S = {Len(block_tables[s]) : s \in Busy}
    <3>1. ASSUME NEW k \in 1..n PROVE Len(T[k]) \in {Len(block_tables[s]) : s \in Busy}
      BY <2>2
    <3>2. ASSUME NEW s \in Busy PROVE Len(block_tables[s]) \in S
      BY <2>1, <2>3
    <3> QED BY <2>1, <3>1, <3>2
  <2>5. PICK w \in Nat \ {0} : w = MaxOf(S) /\ w = WidestTable
    BY <2>4, WidestIs DEF WidestTable
  <2>6. in.block_tables[1] = [i \in 1..w |-> IF i <= Len(T[1]) THEN T[1][i] ELSE "pad"]
    <3>1. 1 \in DOMAIN T
      BY <2>1
    <3>2. in.block_tables = Padded(T)
      BY <1>4 DEF TensorsOf, T
    <3> QED BY <2>5, <3>1, <3>2 DEF Padded
  <2> QED BY <2>5, <2>6
<1>12. ComputeNumSplits(in) = NumSplits(n * NumHeads, CeilDiv(WidestTable * BlockSize, KeyBlock))
  BY <1>8, <1>11 DEF ComputeNumSplits
<1>13. ASSUME KernelsFit PROVE ~ForwardFails(in)
  <2>1. ~RotaryFails(in) /\ ~CacheWriteFails(in)
    BY <1>6 DEF RotaryFails, CacheWriteFails
  <2>2. Len(in.tokens) = in.num_prefill_tokens + in.num_decode_tokens /\ ~(in.num_prefill_tokens > 0)
    BY <1>8
  <2> QED BY <1>10, <1>13, <2>1, <2>2 DEF ForwardFails
<1> QED BY <1>2, <1>6, <1>12, <1>13

(* A number of splits for the widest table leaves none without keys. *)
LEMMA SplitsFit ==
    ASSUME IndInv, Grouped, Busy # {}, NEW work, NEW n, n = CeilDiv(WidestTable * BlockSize, KeyBlock)
    PROVE  /\ NumSplits(work, n) \in Nat \ {0}
           /\ (NumSplits(work, n) - 1) * CeilDiv(n, NumSplits(work, n)) < n
<1>1. WidestTable \in Nat \ {0} /\ BlockSize \in Nat \ {0} /\ KeyBlock \in Nat \ {0}
  BY WidestIs, SizesAssumption, WorkerAssumption
<1>2. PICK a \in Nat \ {0} : a = WidestTable * BlockSize
  <2>1. PICK w \in Nat \ {0} : w = WidestTable
    BY <1>1
  <2>2. PICK b \in Nat \ {0} : b = BlockSize
    BY <1>1
  <2>3. 1 * b <= w * b
    BY <2>1, <2>2, MulMono
  <2> QED BY <2>1, <2>2, <2>3
<1>3. CeilDiv(a, KeyBlock) \in Nat /\ a <= CeilDiv(a, KeyBlock) * KeyBlock
  BY <1>1, <1>2, CeilDivIs
<1>4. n \in Nat \ {0}
  <2>1. n # 0
    BY <1>1, <1>2, <1>3
  <2> QED BY <1>2, <1>3, <2>1
<1>5. NumSplits(work, n) \in 1..n /\ (NumSplits(work, n) - 1) * CeilDiv(n, NumSplits(work, n)) < n
  BY <1>4, NumSplitsFit
<1> QED BY <1>4, <1>5

(* sample answers scheduled sequences only, and some. *)
LEMMA SampleAnswers ==
    ASSUME NEW batch \in Batches, Busy # {}, NEW logits
    PROVE  DOMAIN Sample(batch, logits) \subseteq Busy /\ Sample(batch, logits) # Empty
<1>1. PICK n, gs, order : BatchOf(batch, n, gs, order)
  BY BatchIs
<1> DEFINE places == {p \in (DOMAIN batch) \X (1..NumSequences(batch)) : p[2] \in DOMAIN batch[p[1]].seqs}
<1>2. DOMAIN Sample(batch, logits) = {batch[p[1]].seqs[p[2]].id : p \in places}
  BY DEF Sample
<1>3. ASSUME NEW p \in places PROVE batch[p[1]].seqs[p[2]].id \in Busy
  <2>1. PICK i \in DOMAIN batch : i = p[1]
    OBVIOUS
  <2>2. PICK k \in DOMAIN batch[i].seqs : k = p[2]
    BY <2>1
  <2>3. i \in 1..n /\ gs[i] \in BusyGroups /\ batch[i] = Metadata(gs[i], order[gs[i]])
    BY <1>1, <2>1 DEF BatchOf
  <2>4. PICK g \in BusyGroups : g = gs[i]
    BY <2>3
  <2>5. PICK m \in Nat \ {0} : order[g] \in [1..m -> Scheduled(g)]
    BY <1>1 DEF BatchOf
  <2>6. batch[i].seqs = [j \in 1..m |-> Entry(order[g][j])]
    BY <2>3, <2>4, <2>5 DEF Metadata, Entry
  <2>7. k \in 1..m /\ batch[i].seqs[k].id = order[g][k]
    BY <2>2, <2>6 DEF Entry
  <2>8. order[g][k] \in Scheduled(g) /\ g \in Groups
    BY <2>5, <2>7 DEF BusyGroups
  <2> QED BY <2>1, <2>2, <2>7, <2>8, BusyFinite
<1>4. PICK p : p \in places
  <2>1. 1 \in DOMAIN batch /\ 1 \in DOMAIN batch[1].seqs /\ NumSequences(batch) \in Nat \ {0}
    BY FlatLists
  <2>2. <<1, 1>> \in places
    BY <2>1
  <2> QED BY <2>2
<1> HIDE DEF places
<1>5. batch[p[1]].seqs[p[2]].id \in DOMAIN Sample(batch, logits)
  BY <1>2, <1>4
<1>6. DOMAIN Empty = {}
  BY EmptyMap
<1> QED BY <1>2, <1>3, <1>5, <1>6

(* num_splits is that of the batch whose outputs are being processed. *)
Splits == num_splits \in Nat /\ (num_splits # 0 => executed /\ NoEmptySplit)

(* What the worker does with a batch *)
LEMMA BatchOutcome ==
    ASSUME IndInv, Grouped, Pass, Texts, Kinds, ExecuteModel, Busy # {}, ~CopyFails
    PROVE  \/ \E e, mem : Stop(e, mem) /\ e # "none" /\ ~KernelsFit
           \/ \E mem, outputs, splits :
                 /\ Completed(mem, outputs, splits)
                 /\ DOMAIN outputs \subseteq Busy /\ outputs # Empty
                 /\ splits \in Nat
                 /\ splits # 0 =>
                       LET n == CeilDiv(WidestTable * BlockSize, KeyBlock)
                       IN  (splits - 1) * CeilDiv(n, splits) < n
<1>1. PICK batch \in Batches : RunModel(batch, CacheSwap(cache))
  BY DEF ExecuteModel, Busy
<1>2. PICK in : in = PrepareInputTensors(batch)
  OBVIOUS
<1>3. PICK pass : pass = Forward(CacheSwap(cache), in)
  OBVIOUS
<1>4. loop # "none" /\ worker_err = "none"
  BY DEF ExecuteModel, Building
<1>5. /\ Len(in.query_start_loc) = NumSequences(batch) + 1
      /\ KernelsFit => ~ForwardFails(in)
      /\ \/ ComputeNumSplits(in) = 0
         \/ \E work : ComputeNumSplits(in) = NumSplits(work, CeilDiv(WidestTable * BlockSize, KeyBlock))
  <2>1. CASE loop = "prefills"
    BY <1>2, <1>4, <2>1, PromptBatch
  <2>2. CASE loop \in {"running", "swapped"}
    BY <1>2, <1>4, <2>2, DecodeBatch
  <2> QED BY <1>4, <2>1, <2>2 DEF Pass, Loops
<1>6. ~InvalidLogits(batch, pass.logits)
  <2>1. PICK n \in Nat : n = NumSequences(batch)
    BY FlatLists
  <2>2. DOMAIN SelectedTokenIndices(in) = 1..n
    BY <1>5, <2>1 DEF SelectedTokenIndices
  <2>3. Len(pass.logits) = n
    BY <1>3, <2>2 DEF Forward
  <2> QED BY <2>1, <2>3 DEF InvalidLogits
<1>7. CASE ForwardFails(in)
  <2>1. Stop("CandleError", CacheSwap(cache))
    BY <1>1, <1>2, <1>7 DEF RunModel
  <2> QED BY <1>5, <1>7, <2>1
<1>8. CASE ~ForwardFails(in)
  <2>1. Completed(pass.cache, Sample(batch, pass.logits), ComputeNumSplits(in))
    BY <1>1, <1>2, <1>3, <1>6, <1>8 DEF RunModel
  <2>2. PICK splits : splits = ComputeNumSplits(in)
    OBVIOUS
  <2>3. /\ splits \in Nat
        /\ splits # 0 =>
              LET n == CeilDiv(WidestTable * BlockSize, KeyBlock)
              IN  (splits - 1) * CeilDiv(n, splits) < n
    BY <1>5, <2>2, SplitsFit
  <2>4. PICK outputs : outputs = Sample(batch, pass.logits)
    OBVIOUS
  <2>5. DOMAIN outputs \subseteq Busy /\ outputs # Empty
    BY <2>4, SampleAnswers
  <2>6. Completed(pass.cache, outputs, splits)
    BY <2>1, <2>2, <2>4
  <2> QED BY <2>3, <2>5, <2>6
<1> QED BY <1>7, <1>8

(* The worker stops on a check, or ends the pass with an output for scheduled
   sequences only, and for some if there are any. *)
Ends(outputs, splits) ==
    /\ DOMAIN outputs \subseteq Busy /\ (outputs = Empty <=> Busy = {})
    /\ splits \in Nat
    /\ splits # 0 => /\ Busy # {}
                     /\ LET n == CeilDiv(WidestTable * BlockSize, KeyBlock)
                        IN  (splits - 1) * CeilDiv(n, splits) < n
    /\ num_splits' = splits /\ loop' = "none" /\ executed' = (outputs # Empty)
    /\ computed' = [s \in SeqIds |-> IF s \in DOMAIN outputs THEN Length(s) ELSE computed[s]]
    /\ UNCHANGED worker_err

LEMMA ExecuteOutcome ==
    ASSUME IndInv, Grouped, Pass, Texts, Kinds, ExecuteModel
    PROVE  \/ /\ UNCHANGED <<computed, loop, executed, num_splits>>
              /\ ~(KernelsFit /\ "copy_mapping" \in Repaired)
              /\ worker_err' # "none"
           \/ \E outputs, splits : Ends(outputs, splits)
<1>1. ASSUME NEW e, NEW mem, Stop(e, mem)
      PROVE  UNCHANGED <<computed, loop, executed, num_splits>> /\ worker_err' = e
  BY <1>1 DEF Stop, results
<1>2. CASE CopyFails
  <2>1. Stop("UnexpectedDType", SwapBlocks(SwapBlocks(cache, blocks_to_swap_in), blocks_to_swap_out))
    BY <1>2 DEF ExecuteModel
  <2>2. "copy_mapping" \notin Repaired
    BY <1>2 DEF CopyFails
  <2> QED BY <1>1, <2>1, <2>2
<1>3. CASE ~CopyFails /\ Busy = {}
  <2>1. Completed(CacheSwap(cache), Empty, 0)
    BY <1>3 DEF ExecuteModel, Busy
  <2>2. Ends(Empty, 0)
    BY <1>3, <2>1, EmptyMap DEF Completed, Ends
  <2> QED BY <2>2
<1>4. CASE ~CopyFails /\ Busy # {}
  <2>1. CASE \E e, mem : Stop(e, mem) /\ e # "none" /\ ~KernelsFit
    BY <1>1, <2>1
  <2>2. CASE \E mem, outputs, splits :
                 /\ Completed(mem, outputs, splits)
                 /\ DOMAIN outputs \subseteq Busy /\ outputs # Empty
                 /\ splits \in Nat
                 /\ splits # 0 =>
                       LET n == CeilDiv(WidestTable * BlockSize, KeyBlock)
                       IN  (splits - 1) * CeilDiv(n, splits) < n
    <3>1. PICK mem, outputs, splits :
                 /\ Completed(mem, outputs, splits)
                 /\ DOMAIN outputs \subseteq Busy /\ outputs # Empty
                 /\ splits \in Nat
                 /\ splits # 0 =>
                       LET n == CeilDiv(WidestTable * BlockSize, KeyBlock)
                       IN  (splits - 1) * CeilDiv(n, splits) < n
      BY <2>2
    <3>2. Ends(outputs, splits)
      BY <1>4, <3>1 DEF Completed, Ends
    <3> QED BY <3>2
  <2> QED BY <1>4, <2>1, <2>2, BatchOutcome
<1> QED BY <1>2, <1>3, <1>4

-----------------------------------------------------------------------------
(* Texts is kept *)

LEMMA TextsInit == PagedInit => Texts
BY DEF PagedInit, Init, Texts, TextOK, Live

LEMMA TextsFrame ==
    ASSUME Texts, UNCHANGED <<text, computed, logical, last_fill>>,
           \A s \in SeqIds : status'[s] \in Live <=> status[s] \in Live
    PROVE  Texts'
BY DEF Texts, TextOK, Length

LEMMA PromptTexts ==
    ASSUME IndInv, Texts, NEW g \in Groups, Prompt(g)
    PROVE  Texts'
<1>1. PICK S \in SUBSET Members(g), n \in 1..MaxLogicalBlocks, k \in 1..BlockSize :
        /\ status' = [s \in SeqIds |-> IF s \in S THEN "Waiting" ELSE status[s]]
        /\ logical' = [s \in SeqIds |-> IF s \in S THEN n ELSE logical[s]]
        /\ last_fill' = [s \in SeqIds |-> IF s \in S THEN k ELSE last_fill[s]]
  <2>1. NewGroup(g)
    BY DEF Prompt
  <2> QED BY <2>1 DEF NewGroup
<1>2. S \subseteq SeqIds /\ \A s \in S : status[s] = "Unborn" /\ s \in Members(g)
  BY DEF Prompt, NewGroup, Members
<1>3. /\ text' = [s \in SeqIds |-> IF status[s] # status'[s] THEN [i \in 1..Length(s)' |-> g] ELSE text[s]]
      /\ UNCHANGED computed
      /\ \A s \in Members(g) : status'[s] # status[s] => Length(s)' >= MinPromptTokens
  BY DEF Prompt
<1>4. \A s \in SeqIds : status[s] # status'[s] <=> s \in S
  BY <1>1, <1>2
<1>5. PICK l \in Nat : l = (n - 1) * BlockSize + k
  <2>1. n - 1 \in Nat /\ BlockSize \in Nat /\ k \in Nat
    BY SizesAssumption
  <2>2. (n - 1) * BlockSize \in Nat
    BY <2>1
  <2> QED BY <2>1, <2>2
<1>6. ASSUME NEW s \in S
      PROVE  /\ Length(s)' = l /\ l >= MinPromptTokens /\ status'[s] = "Waiting"
             /\ text'[s] = [i \in 1..l |-> g] /\ computed'[s] = computed[s] /\ computed[s] = 0
  <2>1. s \in SeqIds /\ s \in Members(g) /\ status[s] # status'[s] /\ status'[s] = "Waiting"
    BY <1>1, <1>2, <1>4
  <2>2. Length(s)' = l
    BY <1>1, <1>5, <2>1 DEF Length
  <2>3. text[s] = <<>> /\ computed[s] \in Nat /\ computed[s] <= Len(text[s])
    BY <1>2, <2>1 DEF Texts, TextOK, Live
  <2>4. computed[s] = 0
    BY <2>3
  <2> QED BY <1>3, <2>1, <2>2, <2>4
<1>7. ASSUME NEW s \in SeqIds, s \notin S
      PROVE  text'[s] = text[s] /\ TextOK(s)'
  <2>1. status'[s] = status[s] /\ logical'[s] = logical[s] /\ last_fill'[s] = last_fill[s]
    BY <1>1, <1>7
  <2>2. text'[s] = text[s] /\ computed'[s] = computed[s]
    BY <1>3, <1>4, <1>7
  <2> QED BY <2>1, <2>2 DEF Texts, TextOK, Length
<1>8. ASSUME NEW s \in S PROVE text'[s] \in Seq(SeqIds \cup Groups) /\ TextOK(s)'
  <2>1. PICK t : t = [i \in 1..l |-> g]
    OBVIOUS
  <2>2. t \in Seq(SeqIds \cup Groups) /\ Len(t) = l
    BY <2>1
  <2>3. text'[s] = t /\ Length(s)' = l /\ l >= MinPromptTokens /\ status'[s] = "Waiting" /\ computed'[s] = 0
    BY <1>6, <2>1
  <2> QED BY <2>2, <2>3 DEF TextOK, Live
<1>9. text' \in [SeqIds -> Seq(SeqIds \cup Groups)]
  <2>1. \A s \in SeqIds : text'[s] \in Seq(SeqIds \cup Groups)
    BY <1>7, <1>8 DEF Texts
  <2>2. text' = [s \in SeqIds |-> text'[s]]
    BY <1>3
  <2> QED BY <2>1, <2>2
<1> QED BY <1>3, <1>7, <1>8, <1>9 DEF Texts

LEMMA OutputTexts ==
    ASSUME IndInv, Texts, NEW s \in SeqIds, ProcessOutput(s)
    PROVE  Texts'
<1>1. /\ UNCHANGED <<status, computed>> /\ slot[s] # "none"
      /\ Length(s)' = Length(s) + (IF Length(s) < MaxTokens THEN 1 ELSE 0)
      /\ text' = IF Length(s)' = Length(s) THEN text ELSE [text EXCEPT ![s] = Append(@, s)]
  BY DEF ProcessOutput, AddTokenId
<1>2. \A q \in SeqIds : q # s => logical'[q] = logical[q] /\ last_fill'[q] = last_fill[q]
  BY DEF ProcessOutput, AddTokenId, IndInv, TypeOK
<1>3. status[s] = "Running"
  BY <1>1 DEF IndInv, LengthsAgree, LengthOK
<1>4. PICK t \in Seq(SeqIds \cup Groups) : t = text[s] /\ Len(t) = Length(s) /\ Len(t) >= MinPromptTokens
  BY <1>3 DEF Texts, TextOK, Live
<1>5. MinPromptTokens \in Nat /\ computed[s] \in Nat /\ computed[s] <= Len(t)
  BY <1>4, WorkerAssumption DEF Texts, TextOK
<1>6. ASSUME NEW q \in SeqIds, q # s PROVE text'[q] = text[q] /\ TextOK(q)'
  <2>1. text'[q] = text[q]
    BY <1>1, <1>6 DEF Texts
  <2> QED BY <1>1, <1>2, <1>6, <2>1 DEF Texts, TextOK, Length
<1>7. text'[s] \in Seq(SeqIds \cup Groups) /\ TextOK(s)'
  <2>1. PICK l \in Nat : l = Length(s)
    BY <1>4
  <2>2. CASE Length(s)' = Length(s)
    BY <1>1, <1>3, <1>4, <1>5, <2>2 DEF Texts, TextOK, Live
  <2>3. CASE Length(s)' # Length(s)
    <3>1. Length(s)' = l + 1
      BY <1>1, <2>1, <2>3
    <3>2. text'[s] = Append(t, s)
      BY <1>1, <1>4, <2>3 DEF Texts
    <3>3. PICK u : u = Append(t, s)
      OBVIOUS
    <3>4. u \in Seq(SeqIds \cup Groups) /\ Len(u) = Len(t) + 1
      BY <3>3
    <3> QED BY <1>1, <1>3, <1>4, <1>5, <2>1, <3>1, <3>2, <3>3, <3>4 DEF TextOK, Live
  <2> QED BY <2>2, <2>3
<1>8. text' \in [SeqIds -> Seq(SeqIds \cup Groups)]
  <2>1. text' = [q \in SeqIds |-> text'[q]]
    BY <1>1 DEF Texts
  <2>2. \A q \in SeqIds : text'[q] \in Seq(SeqIds \cup Groups)
    BY <1>6, <1>7 DEF Texts
  <2> QED BY <2>1, <2>2
<1> QED BY <1>1, <1>6, <1>7, <1>8 DEF Texts

LEMMA BetweenTexts ==
    ASSUME IndInv, IndInv', Texts,
           \/ \E s \in SeqIds : AbortOrFinish(s)
           \/ \E p, c \in SeqIds : ForkSequence(p, c)
           \/ ResetManager
    PROVE  Texts'
<1>0. /\ status \in [SeqIds -> Statuses] /\ logical \in [SeqIds -> Nat] /\ err' = "none"
      /\ last_fill \in [SeqIds -> 0..BlockSize]
  BY DEF IndInv, TypeOK, NoOperationFails
<1>1. ASSUME NEW s \in SeqIds, AbortOrFinish(s) PROVE Texts'
  <2>1. /\ status' = [status EXCEPT ![s] = "Finished"] /\ UNCHANGED <<logical, last_fill>>
        /\ text' = [text EXCEPT ![s] = <<>>] /\ computed' = [computed EXCEPT ![s] = 0]
    BY <1>0, <1>1 DEF AbortOrFinish, Abort, Finish, FreeSequence, Fail
  <2> QED BY <1>0, <2>1 DEF Texts, TextOK, Length, Live
<1>2. ASSUME NEW p \in SeqIds, NEW c \in SeqIds, ForkSequence(p, c) PROVE Texts'
  <2>1. /\ status' = [status EXCEPT ![c] = status[p]] /\ logical' = [logical EXCEPT ![c] = logical[p]]
        /\ last_fill' = [last_fill EXCEPT ![c] = last_fill[p]]
        /\ text' = [text EXCEPT ![c] = text[p]] /\ computed' = [computed EXCEPT ![c] = computed[p]]
    BY <1>2 DEF ForkSequence, Fork
  <2>2. \A s \in SeqIds : TextOK(s)'
    <3>1. TextOK(c)'
      BY <1>0, <2>1 DEF Texts, TextOK, Length
    <3>2. \A s \in SeqIds : s # c => TextOK(s)'
      BY <1>0, <2>1 DEF Texts, TextOK, Length
    <3> QED BY <3>1, <3>2
  <2> QED BY <2>1, <2>2 DEF Texts
<1>3. ASSUME ResetManager PROVE Texts'
  <2>1. /\ status' = [s \in SeqIds |-> "Unborn"]
        /\ text' = [s \in SeqIds |-> <<>>] /\ computed' = [s \in SeqIds |-> 0]
    BY <1>0, <1>3 DEF ResetManager, Reset, Fail
  <2> QED BY <2>1 DEF Texts, TextOK, Live
<1> QED BY <1>1, <1>2, <1>3

LEMMA ExecuteTexts ==
    ASSUME IndInv, Grouped, Pass, Texts, Kinds, ExecuteModel
    PROVE  Texts'
<1>1. UNCHANGED <<status, logical, last_fill, text>>
  BY DEF ExecuteModel, vars
<1>2. CASE UNCHANGED computed
  BY <1>1, <1>2, TextsFrame
<1>3. CASE \E outputs, splits : Ends(outputs, splits)
  <2>1. PICK outputs, splits : Ends(outputs, splits)
    BY <1>3
  <2>2. ASSUME NEW s \in SeqIds PROVE computed'[s] \in Nat /\ computed'[s] <= Len(text[s])
    <3>1. CASE s \in DOMAIN outputs
      <4>1. computed'[s] = Length(s) /\ s \in Busy
        BY <2>1, <3>1 DEF Ends
      <4>2. status[s] = "Running"
        BY <4>1 DEF Busy, IndInv, LengthsAgree, LengthOK
      <4>3. Len(text[s]) = Length(s) /\ text[s] \in Seq(SeqIds \cup Groups)
        BY <4>2 DEF Texts, TextOK, Live
      <4> QED BY <4>1, <4>3
    <3>2. CASE s \notin DOMAIN outputs
      <4>1. computed'[s] = computed[s]
        BY <2>1, <3>2 DEF Ends
      <4> QED BY <4>1 DEF Texts, TextOK
    <3> QED BY <3>1, <3>2
  <2>3. computed' \in [SeqIds -> Nat]
    <3>1. computed' = [s \in SeqIds |-> computed'[s]]
      BY <2>1 DEF Ends
    <3> QED BY <2>2, <3>1
  <2> QED BY <1>1, <2>2, <2>3 DEF Texts, TextOK, Length
<1> QED BY <1>2, <1>3, ExecuteOutcome

LEMMA TextsNext ==
    ASSUME IndInv, IndInv', Grouped, Pass, Texts, Kinds, [PagedNext]_allVars
    PROVE  Texts'
<1>0. status \in [SeqIds -> Statuses] /\ err' = "none"
  BY DEF IndInv, TypeOK, NoOperationFails
<1>1. ASSUME NEW g \in Groups, Prefill(g) PROVE Texts'
  <2>1. /\ status' = SetStatus(WithStatus(g, "Waiting"), "Running")
        /\ UNCHANGED <<text, computed, logical, last_fill>>
    BY <1>1, AllocateSucceeds DEF Prefill
  <2>2. \A s \in SeqIds : status'[s] \in Live <=> status[s] \in Live
    BY <1>0, <2>1 DEF SetStatus, WithStatus, Members, Live
  <2> QED BY <2>1, <2>2, TextsFrame
<1>2. ASSUME NEW g \in Groups, Continue(g) PROVE Texts'
  <2>1. UNCHANGED <<status, text, computed, logical, last_fill>>
    BY <1>2 DEF Continue, StartAppend, WorkerUnchanged
  <2> QED BY <2>1, TextsFrame
<1>3. ASSUME NEW g \in Groups, PreemptBySwap(g) PROVE Texts'
  <2>1. /\ status' = SetStatus(WithStatus(g, "Running"), "Swapped")
        /\ UNCHANGED <<text, computed, logical, last_fill>>
    BY <1>0, <1>3 DEF PreemptBySwap, SwapOut, Swap, Fail
  <2>2. \A s \in SeqIds : status'[s] \in Live <=> status[s] \in Live
    BY <1>0, <2>1 DEF SetStatus, WithStatus, Members, Live
  <2> QED BY <2>1, <2>2, TextsFrame
<1>4. ASSUME NEW g \in Groups, Resume(g) PROVE Texts'
  <2>1. /\ status' = SetStatus(WithStatus(g, "Swapped"), "Running")
        /\ UNCHANGED <<text, computed, logical, last_fill>>
    BY <1>0, <1>4 DEF Resume, SwapIn, Swap, Fail
  <2>2. \A s \in SeqIds : status'[s] \in Live <=> status[s] \in Live
    BY <1>0, <2>1 DEF SetStatus, WithStatus, Members, Live
  <2> QED BY <2>1, <2>2, TextsFrame
<1>5. ASSUME NEW s \in SeqIds, AppendOne(s) PROVE Texts'
  <2>1. AppendSlots(s) /\ UNCHANGED <<text, computed>>
    BY <1>5 DEF AppendOne
  <2>2. UNCHANGED <<status, logical, last_fill>>
    BY <2>1 DEF AppendSlots, Fail, PushBlock, CopyOnWrite, SlotReady
  <2> QED BY <2>1, <2>2, TextsFrame
<1>6. ASSUME NEW s \in SeqIds, Recompute(s) PROVE Texts'
  <2>1. /\ status' = [status EXCEPT ![s] = "Waiting"] /\ status[s] = "Running"
        /\ computed' = [computed EXCEPT ![s] = 0] /\ UNCHANGED <<text, logical, last_fill>>
    BY <1>0, <1>6 DEF Recompute, PreemptByRecompute, FreeSequence, Fail
  <2>2. \A q \in SeqIds : Len(text[q]) \in Nat
    BY DEF Texts
  <2> QED BY <1>0, <2>1, <2>2 DEF Texts, TextOK, Length, Live
<1>7. ASSUME UNCHANGED allVars PROVE Texts'
  <2>1. UNCHANGED <<status, text, computed, logical, last_fill>>
    BY <1>7 DEF allVars, vars, worker_vars
  <2> QED BY <2>1, TextsFrame
<1> QED BY <1>1, <1>2, <1>3, <1>4, <1>5, <1>6, <1>7, PromptTexts, OutputTexts, BetweenTexts, ExecuteTexts
        DEF PagedNext

-----------------------------------------------------------------------------
(* Kinds is kept *)

LEMMA KindsInit == PagedInit => Kinds
BY DEF PagedInit, Init, Kinds, Busy

(* A step that neither schedules a sequence nor leaves the pass *)
LEMMA KindsFrame ==
    ASSUME Kinds, UNCHANGED <<loop, executed, worker_err>>,
           \A s \in SeqIds : slot'[s] = slot[s] \/ slot'[s] = "none",
           appending' \subseteq appending
    PROVE  Kinds'
<1>1. \A s \in Busy' : s \in Busy /\ slot'[s] = slot[s]
  BY DEF Busy
<1>2. loop' = loop /\ executed' = executed /\ worker_err' = worker_err
  OBVIOUS
<1> QED BY <1>1, <1>2 DEF Kinds

LEMMA PrefillKinds ==
    ASSUME IndInv, Pass, Kinds, NEW g \in Groups, Prefill(g)
    PROVE  Kinds'
<1>1. PICK W : W = WithStatus(g, "Waiting")
  OBVIOUS
<1>2. /\ loop \in {"none", "prefills"} /\ loop' = "prefills" /\ ~executed /\ worker_err = "none"
      /\ slot' = [s \in SeqIds |-> IF s \in W THEN "prefill" ELSE slot[s]]
      /\ appending' = {}
      /\ worker_err' = "none" => Cardinality({s \in Members(g) : status[s] # "Unborn"}) = 1
  BY <1>1, AllocateSucceeds DEF Prefill, EnterLoop, Building
<1>3. \A s \in Busy : slot[s] = "prefill"
  BY <1>2 DEF Kinds
<1>4. \A s \in Busy' : s \in SeqIds /\ slot'[s] = "prefill" /\ (s \in W \/ s \in Busy)
  BY <1>2, <1>3 DEF Busy
<1>5. ASSUME worker_err' = "none", NEW s \in Busy', NEW t \in Busy', GroupOf[s] = GroupOf[t]
      PROVE  s = t
  <2>1. CASE s \in W \/ t \in W
    <3> DEFINE M == {q \in Members(g) : status[q] # "Unborn"}
    <3>1. Cardinality(M) = 1
      BY <1>2, <1>5
    <3>2. s \in SeqIds /\ t \in SeqIds /\ GroupOf[s] = g /\ GroupOf[t] = g
      BY <1>1, <1>4, <1>5, <2>1 DEF WithStatus, Members
    <3>3. status[s] # "Unborn" /\ status[t] # "Unborn"
      BY <1>1, <1>4 DEF WithStatus, Busy, IndInv, LengthsAgree, LengthOK
    <3>4. s \in M /\ t \in M
      BY <3>2, <3>3 DEF Members
    <3>5. IsFiniteSet(M)
      <4>1. M \subseteq SeqIds
        BY DEF Members
      <4> QED BY <4>1, SequencesAssumption, FS_Subset
    <3> HIDE DEF M
    <3>6. \E x : M = {x}
      BY <3>1, <3>5, FS_Singleton
    <3> QED BY <3>4, <3>6
  <2>2. CASE s \notin W /\ t \notin W
    BY <1>2, <1>3, <1>4, <1>5, <2>2 DEF Kinds
  <2> QED BY <2>1, <2>2
<1> QED BY <1>2, <1>4, <1>5 DEF Kinds

LEMMA KindsNext ==
    ASSUME IndInv, IndInv', Grouped, Pass, Texts, Kinds, [PagedNext]_allVars
    PROVE  Kinds'
<1>0. slot \in [SeqIds -> Slots] /\ err' = "none"
  BY DEF IndInv, TypeOK, NoOperationFails
<1>1. ASSUME NEW g \in Groups, Prompt(g) PROVE Kinds'
  <2>1. UNCHANGED <<loop, executed, worker_err, slot, appending>>
    BY <1>1 DEF Prompt, NewGroup
  <2> QED BY <2>1, KindsFrame
<1>2. ASSUME NEW g \in Groups, Continue(g) PROVE Kinds'
  <2>1. /\ loop \in {"none", "running"} /\ loop' = "running" /\ UNCHANGED <<worker_err, slot>> /\ ~executed
    BY <1>2 DEF Continue, StartAppend, WorkerUnchanged, EnterLoop, Building
  <2>2. Busy' = Busy /\ \A s \in Busy : slot[s] = "decode"
    BY <2>1 DEF Busy, Kinds
  <2> QED BY <2>1, <2>2 DEF Kinds
<1>3. ASSUME NEW g \in Groups, PreemptBySwap(g) PROVE Kinds'
  <2>1. /\ loop \in {"none", "running"} /\ loop' = "running" /\ ~executed
        /\ UNCHANGED <<worker_err, slot, appending>>
    BY <1>0, <1>3 DEF PreemptBySwap, SwapOut, Swap, Fail, EnterLoop, Building
  <2>2. Busy' = Busy /\ \A s \in Busy : slot[s] = "decode"
    BY <2>1 DEF Busy, Kinds
  <2> QED BY <2>1, <2>2 DEF Kinds
<1>4. ASSUME NEW g \in Groups, Resume(g) PROVE Kinds'
  <2>1. /\ loop \in {"none", "running", "swapped"} /\ loop' = "swapped" /\ ~executed
        /\ UNCHANGED <<worker_err, slot>>
    BY <1>0, <1>4 DEF Resume, SwapIn, Swap, Fail, EnterLoop, Building
  <2>2. Busy' = Busy /\ \A s \in Busy : slot[s] = "decode"
    BY <2>1 DEF Busy, Kinds
  <2> QED BY <2>1, <2>2 DEF Kinds
<1>5. ASSUME NEW s \in SeqIds, AppendOne(s) PROVE Kinds'
  <2>1. s \in appending /\ UNCHANGED <<loop, executed, worker_err>>
    BY <1>5 DEF AppendOne, AppendSlots
  <2>2. appending' = appending \ {s} /\ slot' = [slot EXCEPT ![s] = "decode"]
    BY <1>0, <1>5 DEF AppendOne, AppendSlots, Fail, PushBlock, CopyOnWrite, SlotReady
  <2>3. loop \in {"running", "swapped"} /\ \A q \in Busy : slot[q] = "decode"
    BY <2>1 DEF Kinds
  <2>4. \A q \in Busy' : slot'[q] = "decode"
    BY <1>0, <2>2, <2>3 DEF Busy
  <2> QED BY <2>1, <2>3, <2>4 DEF Kinds
<1>6. ASSUME NEW s \in SeqIds, Recompute(s) PROVE Kinds'
  <2>1. /\ loop \in {"none", "running"} /\ loop' = "running" /\ ~executed /\ slot[s] = "none"
        /\ UNCHANGED <<worker_err, appending>> /\ slot' = [slot EXCEPT ![s] = "none"]
    BY <1>0, <1>6 DEF Recompute, PreemptByRecompute, FreeSequence, Fail, EnterLoop, Building
  <2>2. slot' = slot /\ Busy' = Busy /\ \A q \in Busy : slot[q] = "decode"
    BY <1>0, <2>1 DEF Busy, Kinds
  <2> QED BY <2>1, <2>2 DEF Kinds
<1>7. ASSUME NEW s \in SeqIds, ProcessOutput(s) PROVE Kinds'
  <2>1. /\ slot' = [slot EXCEPT ![s] = "none"] /\ appending' = {}
        /\ loop = "none" /\ UNCHANGED <<loop, worker_err>>
        /\ executed' = \E q \in SeqIds : slot'[q] # "none"
    BY <1>7 DEF ProcessOutput, AddTokenId, Idle, Pass
  <2>2. \A q \in Busy' : q \in Busy /\ slot'[q] = slot[q]
    BY <1>0, <2>1 DEF Busy
  <2>3. ~executed' => Busy' = {}
    BY <2>1 DEF Busy
  <2> QED BY <2>1, <2>2, <2>3 DEF Kinds
<1>8. ASSUME NEW s \in SeqIds, AbortOrFinish(s) PROVE Kinds'
  <2>1. /\ UNCHANGED <<loop, executed, worker_err, appending>>
        /\ slot' = slot \/ slot' = [slot EXCEPT ![s] = "none"]
    BY <1>0, <1>8 DEF AbortOrFinish, Abort, Finish, FreeSequence, Fail
  <2>2. \A q \in SeqIds : slot'[q] = slot[q] \/ slot'[q] = "none"
    BY <1>0, <2>1
  <2> QED BY <2>1, <2>2, KindsFrame
<1>9. ASSUME NEW p \in SeqIds, NEW c \in SeqIds, ForkSequence(p, c) PROVE Kinds'
  <2>1. UNCHANGED <<loop, executed, worker_err, slot, appending>>
    BY <1>9 DEF ForkSequence, Fork
  <2> QED BY <2>1, KindsFrame
<1>10. ASSUME ExecuteModel PROVE Kinds'
  <2>1. UNCHANGED <<slot, appending>> /\ Busy' = Busy /\ worker_err = "none" /\ appending = {}
    BY <1>10 DEF ExecuteModel, vars, Busy, Building, Idle
  <2>2. CASE UNCHANGED <<loop, executed>> /\ worker_err' # "none"
    BY <2>1, <2>2 DEF Kinds
  <2>3. CASE \E outputs, splits : Ends(outputs, splits)
    <3>1. loop' = "none" /\ (executed' <=> Busy # {}) /\ UNCHANGED worker_err
      BY <2>3 DEF Ends
    <3> QED BY <2>1, <3>1 DEF Kinds
  <2> QED BY <1>10, <2>2, <2>3, ExecuteOutcome
<1>11. ASSUME ResetManager PROVE Kinds'
  <2>1. UNCHANGED <<loop, executed, worker_err, appending>> /\ slot' = [s \in SeqIds |-> "none"]
    BY <1>0, <1>11 DEF ResetManager, Reset, Fail
  <2> QED BY <2>1, KindsFrame
<1>12. ASSUME UNCHANGED allVars PROVE Kinds'
  <2>1. UNCHANGED <<loop, executed, worker_err, slot, appending>>
    BY <1>12 DEF allVars, vars, worker_vars
  <2> QED BY <2>1, KindsFrame
<1> QED BY <1>1, <1>2, <1>3, <1>4, <1>5, <1>6, <1>7, <1>8, <1>9, <1>10, <1>11, <1>12, PrefillKinds
        DEF PagedNext

-----------------------------------------------------------------------------
(* The number of splits and the errors of the worker *)

LEMMA SplitsInit == PagedInit => Splits
BY DEF PagedInit, Splits

(* Only the worker and the processing of outputs set num_splits. *)
LEMMA SplitsNext ==
    ASSUME IndInv, Grouped, Pass, Texts, Kinds, Splits, [PagedNext]_allVars
    PROVE  Splits'
<1>1. ASSUME ~executed, UNCHANGED num_splits PROVE Splits'
  BY <1>1 DEF Splits
<1>2. ASSUME NEW g \in Groups,
             Prompt(g) \/ Prefill(g) \/ Continue(g) \/ PreemptBySwap(g) \/ Resume(g) PROVE Splits'
  <2>1. ~executed /\ UNCHANGED num_splits
    BY <1>2 DEF Prompt, Prefill, Continue, PreemptBySwap, Resume, Between, EnterLoop, Building,
                WorkerUnchanged, results
  <2> QED BY <1>1, <2>1
<1>3. ASSUME NEW s \in SeqIds, AppendOne(s) \/ Recompute(s) \/ AbortOrFinish(s) PROVE Splits'
  <2>1. ~executed /\ UNCHANGED num_splits
    BY <1>3 DEF AppendOne, Recompute, AbortOrFinish, Between, EnterLoop, Building, results
  <2> QED BY <1>1, <2>1
<1>4. ASSUME NEW s \in SeqIds, ProcessOutput(s) PROVE Splits'
  BY <1>4 DEF ProcessOutput, Splits
<1>5. ASSUME NEW p \in SeqIds, NEW c \in SeqIds, ForkSequence(p, c) PROVE Splits'
  <2>1. ~executed /\ UNCHANGED num_splits
    BY <1>5 DEF ForkSequence, Between, Building, results
  <2> QED BY <1>1, <2>1
<1>6. ASSUME ResetManager PROVE Splits'
  <2>1. ~executed /\ UNCHANGED num_splits
    BY <1>6 DEF ResetManager, Between, Building, results
  <2> QED BY <1>1, <2>1
<1>7. ASSUME ExecuteModel PROVE Splits'
  <2>1. UNCHANGED <<slot, block_tables>> /\ ~executed
    BY <1>7 DEF ExecuteModel, vars, Building
  <2>2. CASE UNCHANGED num_splits
    BY <1>1, <2>1, <2>2
  <2>3. CASE \E outputs, splits : Ends(outputs, splits)
    <3>1. PICK outputs, splits : Ends(outputs, splits)
      BY <2>3
    <3>2. num_splits' = splits /\ splits \in Nat /\ (splits # 0 => executed' /\ Busy # {})
      BY <3>1 DEF Ends
    <3>3. ASSUME splits # 0 PROVE NoEmptySplit'
      <4>1. LET n == CeilDiv(WidestTable * BlockSize, KeyBlock)
            IN  (splits - 1) * CeilDiv(n, splits) < n
        BY <3>1, <3>3 DEF Ends
      <4> QED BY <2>1, <3>2, <4>1 DEF NoEmptySplit, WidestTable, Busy
    <3> QED BY <3>2, <3>3 DEF Splits
  <2> QED BY <1>7, <2>2, <2>3, ExecuteOutcome
<1>8. ASSUME UNCHANGED allVars PROVE Splits'
  BY <1>8 DEF allVars, vars, worker_vars, Splits, NoEmptySplit
<1> QED BY <1>2, <1>3, <1>4, <1>5, <1>6, <1>7, <1>8 DEF PagedNext

LEMMA SuccessNext ==
    ASSUME KernelsFit, "copy_mapping" \in Repaired, IndInv, Grouped, Pass, Texts, Kinds,
           ExecutionSucceeds, [PagedNext]_allVars
    PROVE  ExecutionSucceeds'
<1>1. ASSUME UNCHANGED worker_err PROVE ExecutionSucceeds'
  BY <1>1 DEF ExecutionSucceeds
<1>2. ASSUME NEW g \in Groups, Prefill(g) PROVE ExecutionSucceeds'
  BY <1>2 DEF Prefill, ExecutionSucceeds
<1>3. ASSUME NEW g \in Groups, Prompt(g) \/ Continue(g) \/ PreemptBySwap(g) \/ Resume(g)
      PROVE  ExecutionSucceeds'
  <2>1. UNCHANGED worker_err
    BY <1>3 DEF Prompt, Continue, PreemptBySwap, Resume, WorkerUnchanged
  <2> QED BY <1>1, <2>1
<1>4. ASSUME NEW s \in SeqIds, AppendOne(s) \/ Recompute(s) \/ ProcessOutput(s) \/ AbortOrFinish(s)
      PROVE  ExecutionSucceeds'
  <2>1. UNCHANGED worker_err
    BY <1>4 DEF AppendOne, Recompute, ProcessOutput, AbortOrFinish
  <2> QED BY <1>1, <2>1
<1>5. ASSUME NEW p \in SeqIds, NEW c \in SeqIds, ForkSequence(p, c) PROVE ExecutionSucceeds'
  BY <1>1, <1>5 DEF ForkSequence
<1>6. ASSUME ResetManager PROVE ExecutionSucceeds'
  BY <1>1, <1>6 DEF ResetManager
<1>7. ASSUME ExecuteModel PROVE ExecutionSucceeds'
  <2>1. PICK outputs, splits : Ends(outputs, splits)
    BY <1>7, ExecuteOutcome
  <2> QED BY <1>1, <2>1 DEF Ends
<1>8. ASSUME UNCHANGED allVars PROVE ExecutionSucceeds'
  BY <1>1, <1>8 DEF allVars, worker_vars
<1> QED BY <1>2, <1>3, <1>4, <1>5, <1>6, <1>7, <1>8 DEF PagedNext

BatchInv == Texts /\ Kinds /\ Splits

(* BatchInv holds in every state: while a batch is built, texts and logical
   blocks agree and the loops of a pass never mix prompts with decodings. *)
THEOREM BatchInvariance == ASSUME BlockSlidingWindow = 0 PROVE PagedSpec => []BatchInv
<1>1. PagedInit => BatchInv
  BY TextsInit, KindsInit, SplitsInit DEF BatchInv
<1>2. ASSUME PagedInv, PagedInv', BatchInv, [PagedNext]_allVars PROVE BatchInv'
  BY <1>2, TextsNext, KindsNext, SplitsNext DEF PagedInv, BatchInv
<1> QED BY <1>1, <1>2, PagedInvariance, PTL DEF PagedSpec

(* NoEmptySplit: num_splits_heuristic, given the width of the padded tables,
   never cuts the keys into more splits than there are blocks of keys to fill. *)
THEOREM SplitsNeverEmpty == ASSUME BlockSlidingWindow = 0 PROVE PagedSpec => []NoEmptySplit
<1>1. BatchInv => NoEmptySplit
  BY DEF BatchInv, Splits, NoEmptySplit
<1> QED BY <1>1, BatchInvariance, PTL

(* ExecutionSucceeds: once copy_blocks reads its mapping as it is written, and
   with heads and pages the kernels are built for, no batch a pass can build is
   refused by the checks of copy_blocks, forward, the kernels or sample.  A
   prompt of one token is the exception when query heads share key heads. *)
THEOREM BatchesExecute ==
    ASSUME BlockSlidingWindow = 0, KernelsFit, "copy_mapping" \in Repaired
    PROVE  PagedSpec => []ExecutionSucceeds
<1>1. PagedInit => ExecutionSucceeds
  BY DEF PagedInit, ExecutionSucceeds
<1>2. ASSUME PagedInv, BatchInv, ExecutionSucceeds, [PagedNext]_allVars PROVE ExecutionSucceeds'
  BY <1>2, SuccessNext DEF PagedInv, BatchInv
<1> QED BY <1>1, <1>2, PagedInvariance, BatchInvariance, PTL DEF PagedSpec

=============================================================================
