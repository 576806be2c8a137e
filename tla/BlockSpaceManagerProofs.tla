---------------------- MODULE BlockSpaceManagerProofs ----------------------
(***************************************************************************)
(* The block manager without a sliding window keeps its inductive          *)
(* invariant: proofs for every number of blocks, sequences and groups.     *)
(***************************************************************************)
EXTENDS BlockSpaceManager, FiniteSetTheorems, TLAPS

-----------------------------------------------------------------------------
(* Cardinalities *)

(* Sets of sequences and of blocks are finite. *)
LEMMA FiniteOwners ==
    ASSUME NEW S \in SUBSET SeqIds
    PROVE  IsFiniteSet(S) /\ Cardinality(S) \in Nat
BY SequencesAssumption, FS_Subset, FS_CardinalityType

LEMMA FiniteGpu ==
    ASSUME NEW S \in SUBSET GpuBlocks
    PROVE  IsFiniteSet(S) /\ Cardinality(S) \in Nat
BY BlocksAssumption, FS_Subset, FS_CardinalityType

(* Removing one member. *)
LEMMA OneLess ==
    ASSUME NEW S, NEW x \in S, IsFiniteSet(S)
    PROVE  IsFiniteSet(S \ {x}) /\ Cardinality(S \ {x}) = Cardinality(S) - 1
BY FS_RemoveElement

(* The swap loops meet a block as often as there are sequences holding it,
   because no table repeats a block. *)
LEMMA UsesAreOwners ==
    ASSUME NEW S \in SUBSET SeqIds, NEW T,
           \A s \in S : T[s] \in Seq(Blocks) /\ IsInjective(T[s]),
           NEW b
    PROVE  NumUses(T, S, b) = Cardinality({s \in S : b \in Range(T[s])})
<1> DEFINE O == {s \in S : b \in Range(T[s])}
<1> DEFINE Pos(s) == CHOOSE i \in DOMAIN T[s] : T[s][i] = b
<1> DEFINE f == [s \in O |-> <<s, Pos(s)>>]
<1>1. \A s \in O : Pos(s) \in DOMAIN T[s] /\ T[s][Pos(s)] = b
  BY DEF Range
<1>2. \A s \in O : \A i \in DOMAIN T[s] : T[s][i] = b => i = Pos(s)
  BY <1>1 DEF IsInjective
<1>3. Uses(T, S, b) = {<<s, Pos(s)>> : s \in O}
  <2>1. ASSUME NEW p \in Uses(T, S, b) PROVE p \in {<<s, Pos(s)>> : s \in O}
    <3>1. PICK s \in S : \E i \in DOMAIN T[s] : p = <<s, i>> /\ T[s][i] = b
      BY <2>1 DEF Uses
    <3>2. s \in O
      BY <3>1 DEF Range
    <3> QED BY <3>1, <3>2, <1>2
  <2>2. ASSUME NEW s \in O PROVE <<s, Pos(s)>> \in Uses(T, S, b)
    <3>1. Pos(s) \in {j \in DOMAIN T[s] : T[s][j] = b}
      BY <1>1
    <3>2. <<s, Pos(s)>> \in {<<s, i>> : i \in {j \in DOMAIN T[s] : T[s][j] = b}}
      BY <3>1
    <3> HIDE DEF Pos
    <3> QED BY <3>2, Zenon DEF Uses
  <2> QED BY <2>1, <2>2
<1> HIDE DEF Pos
<1>4. f \in Bijection(O, Uses(T, S, b))
  BY <1>3 DEF Bijection, Injection, Surjection, IsInjective
<1>5. ExistsBijection(O, Uses(T, S, b))
  BY <1>4 DEF ExistsBijection
<1>6. IsFiniteSet(O)
  BY FiniteOwners
<1> QED BY <1>5, <1>6, FS_Bijection DEF NumUses

(* A table of a running or swapped sequence is not empty, and its last block
   is one of its blocks. *)
LEMMA LastBlock ==
    ASSUME NEW s \in SeqIds, block_tables[s] \in Seq(Blocks), Len(block_tables[s]) >= 1
    PROVE  /\ Len(block_tables[s]) \in DOMAIN block_tables[s]
           /\ block_tables[s][Len(block_tables[s])] \in Blocks
           /\ s \in Owners(block_tables[s][Len(block_tables[s])])
BY DEF Owners, Range

(* A block is referenced exactly when a table holds it. *)
LEMMA FreeMeansUnreferenced ==
    ASSUME IndInv, NEW b \in Blocks
    PROVE  /\ Owners(b) \in SUBSET SeqIds
           /\ b \in free_blocks <=> ref_count[b] = 0
           /\ b \in free_blocks => \A s \in SeqIds : b \notin Range(block_tables[s])
<1>1. Owners(b) \in SUBSET SeqIds
  BY DEF Owners
<1>2. IsFiniteSet(Owners(b))
  BY <1>1, FiniteOwners
<1>3. ref_count[b] = 0 <=> Owners(b) = {}
  BY <1>2, FS_EmptySet DEF IndInv, RefCountsMatchTables
<1> QED BY <1>1, <1>3 DEF IndInv, FreeListExact, Owners

-----------------------------------------------------------------------------
(* The initial states *)

LEMMA InitIndInv == Init => IndInv
<1> SUFFICES ASSUME Init PROVE IndInv
  OBVIOUS
<1>1. TypeOK
  BY SizesAssumption DEF Init, TypeOK, Statuses, Slots, Errors
<1>2. \A s \in SeqIds : Range(block_tables[s]) = {} /\ IsInjective(block_tables[s])
  BY DEF Init, Range, IsInjective
<1>3. \A b \in Blocks : Owners(b) = {}
  BY <1>2 DEF Owners
<1>4. RefCountsMatchTables /\ FreeListExact
  BY <1>3, FS_EmptySet DEF Init, RefCountsMatchTables, FreeListExact
<1>5. AppendFits
  <2>1. FreeGpu \in SUBSET GpuBlocks
    BY DEF FreeGpu
  <2> QED BY <2>1, FiniteGpu, FS_EmptySet DEF Init, AppendFits
<1> QED
  BY <1>1, <1>2, <1>4, <1>5
  DEF Init, IndInv, TablesDistinct, SharedOnlyWithinGroup, TablesOnDevice, LengthsAgree, LengthOK,
      ExclusiveWriteSlot, NoOperationFails

-----------------------------------------------------------------------------
(* Steps that leave tables, reference counts and free lists alone *)

LEMMA Frame ==
    ASSUME IndInv, UNCHANGED <<block_tables, ref_count, free_blocks>>
    PROVE  /\ TablesDistinct'
           /\ RefCountsMatchTables'
           /\ FreeListExact'
           /\ SharedOnlyWithinGroup'
           /\ \A b : Owners(b)' = Owners(b)
           /\ FreeGpu' = FreeGpu
BY DEF IndInv, TablesDistinct, RefCountsMatchTables, FreeListExact, SharedOnlyWithinGroup,
       Owners, FreeGpu

LEMMA NewGroupStep ==
    ASSUME IndInv, NEW g \in Groups, NewGroup(g)
    PROVE  IndInv'
<1>1. PICK S \in SUBSET Members(g), n \in 1..MaxLogicalBlocks, k \in 1..BlockSize :
        /\ S # {}
        /\ status' = [s \in SeqIds |-> IF s \in S THEN "Waiting" ELSE status[s]]
        /\ logical' = [s \in SeqIds |-> IF s \in S THEN n ELSE logical[s]]
        /\ last_fill' = [s \in SeqIds |-> IF s \in S THEN k ELSE last_fill[s]]
  BY DEF NewGroup
<1>2. /\ UNCHANGED <<block_tables, ref_count, free_blocks, appending, slot, err>>
      /\ appending = {} /\ err = "none"
      /\ \A s \in Members(g) : status[s] = "Unborn"
  BY DEF NewGroup, Idle
<1>3. n \in Nat /\ n >= 1 /\ k \in 0..BlockSize
  BY SizesAssumption
<1>4. S \subseteq SeqIds /\ \A s \in SeqIds : s \in S => GroupOf[s] = g
  BY DEF Members
<1>5. TypeOK'
  BY <1>1, <1>2, <1>3 DEF IndInv, TypeOK, Statuses
<1>6. TablesOnDevice'
  BY <1>1, <1>2, <1>4 DEF IndInv, TypeOK, TablesOnDevice, Members
<1>7. LengthsAgree'
  BY <1>1, <1>2, <1>3, <1>4 DEF IndInv, TypeOK, LengthsAgree, LengthOK, Members
<1>8. AppendFits'
  BY <1>2, Frame DEF IndInv, AppendFits
<1>9. ExclusiveWriteSlot'
  BY <1>1, <1>2, <1>3, <1>4, Frame DEF IndInv, TypeOK, ExclusiveWriteSlot, LengthsAgree, LengthOK, Members
<1> QED
  BY <1>2, <1>5, <1>6, <1>7, <1>8, <1>9, Frame DEF IndInv, NoOperationFails

LEMMA StartAppendStep ==
    ASSUME IndInv, NEW g \in Groups, StartAppend(g)
    PROVE  IndInv'
<1>1. TypeOK' /\ TablesOnDevice' /\ LengthsAgree' /\ NoOperationFails'
  BY DEF IndInv, TypeOK, StartAppend, TablesOnDevice, LengthsAgree, LengthOK, NoOperationFails,
         WithStatus, Members
<1>2. AppendFits'
  BY Frame DEF IndInv, TypeOK, StartAppend, CanAppendSlots, AppendFits, WithStatus, Members
<1>3. ExclusiveWriteSlot'
  BY Frame DEF IndInv, StartAppend, ExclusiveWriteSlot
<1> QED BY <1>1, <1>2, <1>3, Frame DEF IndInv, StartAppend

LEMMA AddTokenIdStep ==
    ASSUME IndInv, NEW s \in SeqIds, AddTokenId(s)
    PROVE  IndInv'
<1>1. /\ UNCHANGED <<status, block_tables, ref_count, free_blocks, appending, err>>
      /\ appending = {} /\ err = "none" /\ slot[s] # "none"
      /\ slot' = [slot EXCEPT ![s] = "none"]
  BY DEF AddTokenId, Idle
<1>2. /\ logical' \in [SeqIds -> Nat]
      /\ last_fill' \in [SeqIds -> 0..BlockSize]
      /\ \A x \in SeqIds : x # s => logical'[x] = logical[x]
      /\ logical'[s] \in {logical[s], logical[s] + 1}
  <2>0. logical \in [SeqIds -> Nat] /\ last_fill \in [SeqIds -> 0..BlockSize]
        /\ BlockSize \in Nat /\ BlockSize >= 1
    BY SizesAssumption DEF IndInv, TypeOK
  <2>1. CASE /\ last_fill[s] < BlockSize
             /\ last_fill' = [last_fill EXCEPT ![s] = @ + 1]
             /\ UNCHANGED logical
    BY <2>0, <2>1
  <2>2. CASE /\ logical' = [logical EXCEPT ![s] = @ + 1]
             /\ last_fill' = [last_fill EXCEPT ![s] = 1]
    BY <2>0, <2>2
  <2>3. CASE UNCHANGED <<logical, last_fill>>
    BY <2>0, <2>3
  <2> QED BY <2>1, <2>2, <2>3 DEF AddTokenId
<1>3. status[s] = "Running" /\ Len(block_tables[s]) = logical[s]
  BY <1>1 DEF IndInv, LengthsAgree, LengthOK
<1>4. TypeOK'
  BY <1>1, <1>2 DEF IndInv, TypeOK, Slots
<1>5. LengthsAgree'
  <2>1. \A x \in SeqIds : x # s => slot'[x] = slot[x] /\ logical'[x] = logical[x]
    BY <1>1, <1>2 DEF IndInv, TypeOK
  <2>2. logical[s] \in Nat /\ logical[s] >= 1 /\ slot'[s] = "none"
    BY <1>1, <1>3 DEF IndInv, TypeOK, LengthsAgree, LengthOK
  <2>3. LengthOK(s)'
    BY <1>1, <1>2, <1>3, <2>2 DEF LengthOK
  <2>4. \A x \in SeqIds : x # s => LengthOK(x)'
    BY <1>1, <2>1 DEF IndInv, LengthsAgree, LengthOK
  <2> QED BY <1>1, <1>3, <2>1, <2>3, <2>4 DEF IndInv, LengthsAgree
<1>6. ExclusiveWriteSlot'
  BY <1>1, <1>2, Frame DEF IndInv, TypeOK, ExclusiveWriteSlot
<1>7. TablesOnDevice' /\ AppendFits' /\ NoOperationFails'
  BY <1>1, Frame DEF IndInv, TablesOnDevice, AppendFits, NoOperationFails
<1> QED BY <1>1, <1>4, <1>5, <1>6, <1>7, Frame DEF IndInv

LEMMA FinishStep ==
    ASSUME IndInv, NEW s \in SeqIds, Finish(s)
    PROVE  IndInv'
<1>1. TypeOK' /\ TablesOnDevice' /\ LengthsAgree' /\ NoOperationFails'
  BY DEF Finish, Idle, IndInv, TypeOK, Statuses, TablesOnDevice, LengthsAgree, LengthOK, NoOperationFails
<1>2. AppendFits' /\ ExclusiveWriteSlot'
  BY Frame DEF Finish, Idle, IndInv, AppendFits, ExclusiveWriteSlot
<1> QED BY <1>1, <1>2, Frame DEF IndInv, Finish

-----------------------------------------------------------------------------
(* allocate *)

(* What can_allocate counted is there when allocate pops it. *)
LEMMA AllocateFits ==
    ASSUME IndInv, NEW n \in Nat, CanAllocate(n)
    PROVE  ~OutOfBlocks(NumRequired(n), FreeGpu)
<1>1. NumRequired(n) \in Nat
  BY SizesAssumption DEF NumRequired
<1>2. Cardinality(FreeGpu) \in Nat
  BY FiniteGpu DEF FreeGpu
<1> QED BY <1>1, <1>2 DEF CanAllocate, OutOfBlocks

(* allocate behind can_allocate does not fail: it takes fresh blocks. *)
LEMMA AllocateSucceeds ==
    ASSUME IndInv, NEW g \in Groups, Allocate(g)
    PROVE  /\ \E first \in WithStatus(g, "Waiting") :
                LET W == WithStatus(g, "Waiting")
                    n == logical[first]
                    k == NumRequired(n)
                IN  /\ \E fresh \in Injection(1..k, FreeGpu) :
                        /\ block_tables' = [s \in SeqIds |->
                                IF s \in W
                                THEN [i \in 1..n |-> IF i <= k THEN fresh[i] ELSE fresh[((i - 1) % k) + 1]]
                                ELSE block_tables[s]]
                        /\ ref_count' = [b \in Blocks |->
                                IF b \in Range(fresh) THEN RefsPerBlock(W) ELSE ref_count[b]]
                        /\ free_blocks' = Popped(Range(fresh))
                    /\ status' = SetStatus(W, "Running")
                    /\ slot' = [s \in SeqIds |-> IF s \in W THEN "prefill" ELSE slot[s]]
           /\ UNCHANGED <<logical, last_fill, appending, err>>
           /\ appending = {} /\ err = "none"
<1>1. \A first \in WithStatus(g, "Waiting") : logical[first] \in Nat
  BY DEF IndInv, TypeOK, WithStatus, Members
<1>2. \A first \in WithStatus(g, "Waiting") :
        CanAllocate(logical[first]) => ~OutOfBlocks(NumRequired(logical[first]), FreeGpu)
  BY <1>1, AllocateFits
<1> QED BY <1>2 DEF Allocate, Idle

LEMMA AllocateStep ==
    ASSUME BlockSlidingWindow = 0, IndInv, NEW g \in Groups, Allocate(g)
    PROVE  IndInv'
<1> DEFINE W == WithStatus(g, "Waiting")
<1> DEFINE Taken(n, k) ==
        \E fresh \in Injection(1..k, FreeGpu) :
            /\ block_tables' = [s \in SeqIds |->
                    IF s \in W
                    THEN [i \in 1..n |-> IF i <= k THEN fresh[i] ELSE fresh[((i - 1) % k) + 1]]
                    ELSE block_tables[s]]
            /\ ref_count' = [b \in Blocks |->
                    IF b \in Range(fresh) THEN Cardinality(W) ELSE ref_count[b]]
            /\ free_blocks' = free_blocks \ Range(fresh)
<1>1. PICK first \in W :
        /\ Taken(logical[first], NumRequired(logical[first]))
        /\ status' = [s \in SeqIds |-> IF s \in W THEN "Running" ELSE status[s]]
        /\ slot' = [s \in SeqIds |-> IF s \in W THEN "prefill" ELSE slot[s]]
  BY AllocateSucceeds DEF RefsPerBlock, Popped, SetStatus
<1> DEFINE n == logical[first]
<1>2. /\ UNCHANGED <<logical, last_fill, appending, err>>
      /\ appending = {} /\ err = "none"
  BY AllocateSucceeds
<1>3. /\ W \subseteq SeqIds /\ first \in SeqIds
      /\ \A s \in SeqIds : s \in W <=> GroupOf[s] = g /\ status[s] = "Waiting"
  BY DEF WithStatus, Members
<1>4. n \in Nat /\ n >= 1 /\ NumRequired(n) = n
  BY <1>3 DEF IndInv, TypeOK, LengthsAgree, LengthOK, NumRequired
<1>a. Taken(n, n)
  <2> HIDE DEF Taken
  <2> QED BY <1>1, <1>4
<1>5. PICK fresh \in Injection(1..n, FreeGpu) :
        /\ block_tables' = [s \in SeqIds |->
                IF s \in W
                THEN [i \in 1..n |-> IF i <= n THEN fresh[i] ELSE fresh[((i - 1) % n) + 1]]
                ELSE block_tables[s]]
        /\ ref_count' = [b \in Blocks |->
                IF b \in Range(fresh) THEN Cardinality(W) ELSE ref_count[b]]
        /\ free_blocks' = free_blocks \ Range(fresh)
  BY <1>a
<1>6. /\ status' = [s \in SeqIds |-> IF s \in W THEN "Running" ELSE status[s]]
      /\ slot' = [s \in SeqIds |-> IF s \in W THEN "prefill" ELSE slot[s]]
  BY <1>1
<1> HIDE DEF n, W
<1>7. /\ fresh \in [1..n -> FreeGpu] /\ IsInjective(fresh) /\ fresh \in Seq(Blocks)
      /\ Len(fresh) = n /\ Range(fresh) \subseteq FreeGpu
  BY <1>4, <1>5 DEF Injection, FreeGpu, Range, Blocks
<1>8. /\ \A s \in W : block_tables'[s] = fresh
      /\ \A s \in SeqIds : s \notin W => block_tables'[s] = block_tables[s]
      /\ block_tables' \in [SeqIds -> Seq(Blocks)]
  <2>1. [i \in 1..n |-> IF i <= n THEN fresh[i] ELSE fresh[((i - 1) % n) + 1]] = fresh
    BY <1>4, <1>7
  <2> QED BY <1>3, <1>5, <1>7, <2>1 DEF IndInv, TypeOK
<1>9. /\ \A s \in W : block_tables[s] = <<>> /\ logical[s] = n /\ slot[s] = "none"
      /\ \A s \in SeqIds : Range(block_tables[s]) \cap Range(fresh) = {}
  <2>1. \A s \in W : logical[s] = n
    BY <1>3 DEF IndInv, LengthsAgree, n, W
  <2>2. \A s \in W : block_tables[s] = <<>> /\ slot[s] = "none"
    BY <1>3 DEF IndInv, LengthsAgree, LengthOK, TablesOnDevice
  <2>3. \A b \in Range(fresh) : b \in Blocks /\ b \in free_blocks
    BY <1>7 DEF FreeGpu, Blocks
  <2> QED BY <2>1, <2>2, <2>3, FreeMeansUnreferenced
<1>10. \A b \in Range(fresh) : Owners(b)' = W
  BY <1>3, <1>8, <1>9 DEF Owners
<1>11. \A b : b \notin Range(fresh) => Owners(b)' = Owners(b)
  <2>1. Range(<<>>) = {}
    BY DEF Range
  <2> QED BY <1>3, <1>8, <1>9, <2>1 DEF Owners
<1>12. IsFiniteSet(W) /\ Cardinality(W) \in Nat /\ W # {}
  BY <1>1, <1>3, FiniteOwners
<1>13. TypeOK'
  BY <1>2, <1>5, <1>6, <1>7, <1>8, <1>12 DEF IndInv, TypeOK, Statuses, Slots
<1>14. TablesDistinct'
  BY <1>7, <1>8 DEF IndInv, TablesDistinct
<1>15. RefCountsMatchTables'
  BY <1>5, <1>10, <1>11 DEF IndInv, RefCountsMatchTables
<1>16. FreeListExact'
  BY <1>5, <1>7, <1>10, <1>11, <1>12 DEF IndInv, FreeListExact
<1>17. SharedOnlyWithinGroup'
  BY <1>3, <1>8, <1>9 DEF IndInv, SharedOnlyWithinGroup
<1>18. TablesOnDevice'
  BY <1>3, <1>6, <1>7, <1>8 DEF IndInv, TypeOK, TablesOnDevice, FreeGpu
<1>19. LengthsAgree'
  <2>1. \A s \in W : LengthOK(s)'
    BY <1>2, <1>3, <1>4, <1>6, <1>7, <1>8, <1>9 DEF LengthOK
  <2>2. \A s \in SeqIds : s \notin W => LengthOK(s)'
    BY <1>2, <1>3, <1>6, <1>8 DEF IndInv, LengthsAgree, LengthOK
  <2> QED BY <1>2, <1>3, <1>6, <2>1, <2>2 DEF IndInv, LengthsAgree
<1>20. AppendFits'
  <2>1. FreeGpu' \in SUBSET GpuBlocks
    BY DEF FreeGpu
  <2> QED BY <1>2, <2>1, FiniteGpu, FS_EmptySet DEF AppendFits
<1>21. ExclusiveWriteSlot'
  <2> SUFFICES ASSUME NEW s \in SeqIds, slot'[s] = "decode"
               PROVE  /\ Len(block_tables'[s]) = logical'[s]
                      /\ Owners(block_tables[s][Len(block_tables[s])])' = {s}
    BY DEF ExclusiveWriteSlot
  <2>1. s \notin W /\ slot[s] = "decode"
    BY <1>6
  <2>2. /\ Len(block_tables[s]) = logical[s] /\ Len(block_tables[s]) >= 1
        /\ Owners(block_tables[s][Len(block_tables[s])]) = {s}
    BY <2>1 DEF IndInv, TypeOK, ExclusiveWriteSlot, LengthsAgree, LengthOK
  <2>3. block_tables[s][Len(block_tables[s])] \notin Range(fresh)
    BY <1>9, <2>2, LastBlock DEF IndInv, TypeOK, Owners
  <2> QED BY <1>2, <1>8, <1>11, <2>1, <2>2, <2>3
<1> QED
  BY <1>2, <1>13, <1>14, <1>15, <1>16, <1>17, <1>18, <1>19, <1>20, <1>21 DEF IndInv, NoOperationFails

-----------------------------------------------------------------------------
(* append_slots *)

(* What is known of a sequence of the append loop. *)
LEMMA AppendingFacts ==
    ASSUME IndInv, NEW s \in appending
    PROVE  /\ s \in SeqIds /\ status[s] = "Running" /\ slot[s] = "none"
           /\ block_tables[s] \in Seq(Blocks)
           /\ logical[s] \in Nat
           /\ Len(block_tables[s]) \in Nat /\ Len(block_tables[s]) >= 1
           /\ Len(block_tables[s]) <= logical[s]
           /\ Len(block_tables[s]) >= logical[s] - 1
           /\ FreeGpu # {}
<1>1. s \in SeqIds /\ status[s] = "Running" /\ slot[s] = "none"
  BY DEF IndInv, TypeOK, AppendFits
<1>2. /\ block_tables[s] \in Seq(Blocks) /\ logical[s] \in Nat
      /\ Len(block_tables[s]) >= 1 /\ Len(block_tables[s]) <= logical[s]
      /\ Len(block_tables[s]) >= logical[s] - 1
  BY <1>1 DEF IndInv, TypeOK, LengthsAgree, LengthOK
<1>3. Cardinality(appending) \in Nat /\ Cardinality(appending) # 0
  BY FiniteOwners, FS_EmptySet DEF IndInv, TypeOK
<1>4. FreeGpu # {}
  BY <1>3, FS_EmptySet DEF IndInv, AppendFits
<1> QED BY <1>1, <1>2, <1>4

(* The loop gives s a slot: the part of the invariant that does not depend on
   how its table changed. *)
LEMMA SlotReadyStep ==
    ASSUME IndInv, NEW s \in appending, SlotReady(s),
           NEW t \in Seq(Blocks), Len(t) = logical[s], IsInjective(t),
           Range(t) \subseteq GpuBlocks,
           block_tables' = [block_tables EXCEPT ![s] = t]
    PROVE  /\ TablesDistinct'
           /\ TablesOnDevice'
           /\ LengthsAgree'
           /\ NoOperationFails'
           /\ \A x \in appending' : status'[x] = "Running" /\ slot'[x] = "none"
           /\ \A x \in SeqIds : x # s /\ slot'[x] = "decode" =>
                /\ slot[x] = "decode" /\ block_tables'[x] = block_tables[x]
                /\ Len(block_tables[x]) >= 1
                /\ Len(block_tables[x]) = logical'[x]
                /\ Owners(block_tables[x][Len(block_tables[x])]) = {x}
<1>1. /\ s \in SeqIds /\ status[s] = "Running" /\ logical[s] \in Nat /\ logical[s] >= 1
  BY AppendingFacts
<1>2. /\ status' = status /\ logical' = logical /\ err' = err
      /\ appending' = appending \ {s}
      /\ slot' = [slot EXCEPT ![s] = "decode"]
  BY DEF SlotReady
<1>3. /\ block_tables'[s] = t /\ slot'[s] = "decode"
      /\ \A x \in SeqIds : x # s => block_tables'[x] = block_tables[x] /\ slot'[x] = slot[x]
  BY <1>1, <1>2 DEF IndInv, TypeOK
<1>4. TablesDistinct' /\ TablesOnDevice'
  BY <1>1, <1>2, <1>3 DEF IndInv, TablesDistinct, TablesOnDevice
<1>5. LengthsAgree'
  <2>1. LengthOK(s)'
    BY <1>1, <1>2, <1>3 DEF LengthOK
  <2>2. \A x \in SeqIds : x # s => LengthOK(x)'
    BY <1>2, <1>3 DEF IndInv, LengthsAgree, LengthOK
  <2> QED BY <1>2, <2>1, <2>2 DEF IndInv, LengthsAgree
<1>6. \A x \in appending' : status'[x] = "Running" /\ slot'[x] = "none"
  BY <1>2, <1>3 DEF IndInv, TypeOK, AppendFits
<1>7. ASSUME NEW x \in SeqIds, x # s, slot'[x] = "decode"
      PROVE  /\ slot[x] = "decode" /\ block_tables'[x] = block_tables[x]
             /\ Len(block_tables[x]) >= 1
             /\ Len(block_tables[x]) = logical'[x]
             /\ Owners(block_tables[x][Len(block_tables[x])]) = {x}
  <2>1. slot[x] = "decode" /\ block_tables'[x] = block_tables[x]
    BY <1>3, <1>7
  <2>2. LengthOK(x)
    BY DEF IndInv, LengthsAgree
  <2>3. status[x] = "Running"
    BY <2>1, <2>2 DEF LengthOK
  <2> QED BY <1>2, <2>1, <2>2, <2>3 DEF IndInv, ExclusiveWriteSlot, LengthOK
<1> QED BY <1>2, <1>4, <1>5, <1>6, <1>7 DEF IndInv, NoOperationFails

LEMMA PushBlockStep ==
    ASSUME IndInv, NEW s \in appending, PushBlock(s),
           Len(block_tables[s]) = logical[s] - 1
    PROVE  IndInv'
<1>1. PICK b \in FreeGpu :
        /\ block_tables' = [block_tables EXCEPT ![s] = Append(@, b)]
        /\ ref_count' = [ref_count EXCEPT ![b] = @ + 1]
        /\ free_blocks' = free_blocks \ {b}
        /\ SlotReady(s)
  BY DEF PushBlock
<1> DEFINE t == Append(block_tables[s], b)
<1>2. b \in GpuBlocks /\ b \in Blocks /\ b \in free_blocks
  BY DEF FreeGpu, Blocks
<1>3. ref_count[b] = 0 /\ \A x \in SeqIds : b \notin Range(block_tables[x])
  BY <1>2, FreeMeansUnreferenced
<1>4. /\ s \in SeqIds /\ block_tables[s] \in Seq(Blocks) /\ IsInjective(block_tables[s])
      /\ Range(block_tables[s]) \subseteq GpuBlocks /\ Len(block_tables[s]) \in Nat
      /\ logical[s] \in Nat
  BY AppendingFacts DEF IndInv, TablesDistinct, TablesOnDevice
<1>5. /\ t \in Seq(Blocks) /\ Len(t) = logical[s] /\ t[Len(t)] = b
      /\ \A i \in DOMAIN t : i # Len(t) =>
            i \in DOMAIN block_tables[s] /\ t[i] = block_tables[s][i]
      /\ \A i \in DOMAIN block_tables[s] : i \in DOMAIN t /\ t[i] = block_tables[s][i]
      /\ Len(t) \in DOMAIN t
  BY <1>2, <1>4
<1> HIDE DEF t
<1>6. Range(t) = Range(block_tables[s]) \cup {b}
  BY <1>5 DEF Range
<1>7. IsInjective(t)
  <2>1. \A i \in DOMAIN t : i # Len(t) => t[i] # b
    BY <1>3, <1>4, <1>5 DEF Range
  <2> QED BY <1>4, <1>5, <2>1 DEF IsInjective
<1>8. block_tables' = [block_tables EXCEPT ![s] = t]
  BY <1>1, <1>4 DEF t, IndInv, TypeOK
<1>9. /\ block_tables'[s] = t
      /\ \A x \in SeqIds : x # s => block_tables'[x] = block_tables[x]
  BY <1>4, <1>8 DEF IndInv, TypeOK
<1>10. Owners(b)' = {s} /\ \A c : c # b => Owners(c)' = Owners(c)
  BY <1>3, <1>4, <1>6, <1>9 DEF Owners
<1>11. TypeOK'
  BY <1>1, <1>4, <1>5, <1>8 DEF IndInv, TypeOK, SlotReady, Slots
<1>12. RefCountsMatchTables'
  <2>1. ref_count'[b] = 1 /\ \A c \in Blocks : c # b => ref_count'[c] = ref_count[c]
    BY <1>1, <1>2, <1>3 DEF IndInv, TypeOK
  <2>2. Cardinality({s}) = 1
    BY FS_Singleton
  <2>3. \A c \in Blocks : c # b => ref_count'[c] = Cardinality(Owners(c)')
    BY <1>10, <2>1 DEF IndInv, RefCountsMatchTables
  <2> QED BY <1>10, <2>1, <2>2, <2>3 DEF RefCountsMatchTables
<1>13. FreeListExact'
  BY <1>1, <1>2, <1>10 DEF IndInv, FreeListExact
<1>14. SharedOnlyWithinGroup'
  <2>1. \A x \in SeqIds : x # s => Range(t) \cap Range(block_tables[x])
                                     = Range(block_tables[s]) \cap Range(block_tables[x])
    BY <1>3, <1>6
  <2>2. SharedOnlyWithinGroup
    BY DEF IndInv
  <2> SUFFICES ASSUME NEW x \in SeqIds, NEW y \in SeqIds,
                      Range(block_tables'[x]) \cap Range(block_tables'[y]) # {}
               PROVE  GroupOf[x] = GroupOf[y]
    BY DEF SharedOnlyWithinGroup
  <2>3. CASE x = s /\ y = s
    BY <2>3
  <2>4. CASE x = s /\ y # s
    <3>1. Range(block_tables[s]) \cap Range(block_tables[y]) # {}
      BY <1>9, <2>1, <2>4
    <3> QED BY <1>4, <2>2, <2>4, <3>1 DEF SharedOnlyWithinGroup
  <2>5. CASE x # s /\ y = s
    <3>1. Range(block_tables[s]) \cap Range(block_tables[x]) # {}
      BY <1>9, <2>1, <2>5
    <3> QED BY <1>4, <2>2, <2>5, <3>1 DEF SharedOnlyWithinGroup
  <2>6. CASE x # s /\ y # s
    <3>1. Range(block_tables[x]) \cap Range(block_tables[y]) # {}
      BY <1>9, <2>6
    <3> QED BY <2>2, <3>1 DEF SharedOnlyWithinGroup
  <2> QED BY <2>3, <2>4, <2>5, <2>6
<1>15. Range(t) \subseteq GpuBlocks
  BY <1>2, <1>4, <1>6
<1>16. AppendFits'
  <2>1. appending' = appending \ {s} /\ FreeGpu' = FreeGpu \ {b}
    BY <1>1 DEF SlotReady, FreeGpu
  <2>2. /\ Cardinality(appending') = Cardinality(appending) - 1
        /\ Cardinality(FreeGpu') = Cardinality(FreeGpu) - 1
        /\ Cardinality(appending) \in Nat /\ Cardinality(FreeGpu) \in Nat
    <3>1. /\ IsFiniteSet(appending) /\ Cardinality(appending) \in Nat
          /\ IsFiniteSet(FreeGpu) /\ Cardinality(FreeGpu) \in Nat
      BY FiniteOwners, FiniteGpu DEF IndInv, TypeOK, FreeGpu
    <3> QED BY <2>1, <3>1, FS_RemoveElement
  <2>3. Cardinality(appending') <= Cardinality(FreeGpu')
    BY <2>2 DEF IndInv, AppendFits
  <2>4. \A x \in appending' : status'[x] = "Running" /\ slot'[x] = "none"
    BY <1>1, <1>5, <1>7, <1>8, <1>15, SlotReadyStep
  <2> QED BY <2>3, <2>4 DEF AppendFits
<1>17. ExclusiveWriteSlot'
  <2> SUFFICES ASSUME NEW x \in SeqIds, slot'[x] = "decode"
               PROVE  /\ Len(block_tables'[x]) = logical'[x]
                      /\ Owners(block_tables[x][Len(block_tables[x])])' = {x}
    BY DEF ExclusiveWriteSlot
  <2>1. CASE x = s
    BY <1>1, <1>5, <1>9, <1>10, <2>1 DEF SlotReady
  <2>2. CASE x # s
    <3>1. /\ block_tables'[x] = block_tables[x]
          /\ Len(block_tables[x]) >= 1
          /\ Len(block_tables[x]) = logical'[x]
          /\ Owners(block_tables[x][Len(block_tables[x])]) = {x}
      BY <1>1, <1>5, <1>7, <1>8, <1>15, <2>2, SlotReadyStep
    <3>2. block_tables[x][Len(block_tables[x])] # b
      BY <1>3, <3>1, LastBlock DEF IndInv, TypeOK, Owners
    <3> QED BY <1>10, <3>1, <3>2
  <2> QED BY <2>1, <2>2
<1> QED
  BY <1>1, <1>5, <1>7, <1>8, <1>11, <1>12, <1>13, <1>14, <1>15, <1>16, <1>17, SlotReadyStep
  DEF IndInv

LEMMA CopyOnWriteStep ==
    ASSUME IndInv, NEW s \in appending, CopyOnWrite(s, block_tables[s]),
           Len(block_tables[s]) = logical[s],
           ref_count[block_tables[s][Len(block_tables[s])]] # 1
    PROVE  IndInv'
<1>a. PICK old : old = block_tables[s]
  OBVIOUS
<1>b. PICK last : last = old[Len(old)]
  OBVIOUS
<1>1. /\ s \in SeqIds /\ old \in Seq(Blocks) /\ IsInjective(old)
      /\ Range(old) \subseteq GpuBlocks /\ Len(old) \in Nat /\ Len(old) >= 1
      /\ status[s] = "Running" /\ slot[s] = "none"
  BY <1>a, AppendingFacts DEF IndInv, TablesDistinct, TablesOnDevice
<1>2. Len(old) \in DOMAIN old /\ last \in Blocks /\ s \in Owners(last) /\ last \in Range(old)
  BY <1>a, <1>b, <1>1, LastBlock DEF Owners
<1>3. /\ IsFiniteSet(Owners(last)) /\ ref_count[last] = Cardinality(Owners(last))
      /\ ref_count[last] \in Nat /\ ref_count[last] >= 2
  <2>1. Owners(last) \in SUBSET SeqIds
    BY DEF Owners
  <2>2. /\ IsFiniteSet(Owners(last)) /\ ref_count[last] = Cardinality(Owners(last))
        /\ ref_count[last] \in Nat
    BY <1>2, <2>1, FiniteOwners DEF IndInv, RefCountsMatchTables
  <2>3. ref_count[last] # 0
    BY <1>2, <2>2, FS_EmptySet
  <2> QED BY <1>a, <1>b, <2>2, <2>3
<1>4. PICK b \in FreeGpu :
        /\ block_tables' = [block_tables EXCEPT ![s] = [old EXCEPT ![Len(old)] = b]]
        /\ ref_count' = [ref_count EXCEPT ![b] = @ + 1, ![last] = @ - 1]
        /\ free_blocks' = (free_blocks \ {b})
                            \cup (IF ref_count'[last] = 0 THEN {last} ELSE {})
        /\ SlotReady(s)
  BY <1>a, <1>b, <1>3 DEF CopyOnWrite
<1> DEFINE t == [old EXCEPT ![Len(old)] = b]
<1>5. b \in GpuBlocks /\ b \in Blocks /\ b \in free_blocks
  BY DEF FreeGpu, Blocks
<1>6. ref_count[b] = 0 /\ \A x \in SeqIds : b \notin Range(block_tables[x])
  BY <1>5, FreeMeansUnreferenced
<1>7. b # last
  BY <1>a, <1>1, <1>2, <1>6
<1>8. /\ ref_count'[b] = 1 /\ ref_count'[last] = ref_count[last] - 1
      /\ \A c \in Blocks : c # b /\ c # last => ref_count'[c] = ref_count[c]
      /\ ref_count' \in [Blocks -> Nat]
      /\ free_blocks' = free_blocks \ {b}
  <2>1. ref_count \in [Blocks -> Nat]
    BY DEF IndInv, TypeOK
  <2>2. /\ ref_count'[b] = 1 /\ ref_count'[last] = ref_count[last] - 1
        /\ \A c \in Blocks : c # b /\ c # last => ref_count'[c] = ref_count[c]
        /\ ref_count' \in [Blocks -> Nat]
    BY <1>2, <1>3, <1>4, <1>5, <1>6, <1>7, <2>1
  <2> QED BY <1>3, <1>4, <2>2
<1>9. /\ t \in Seq(Blocks) /\ Len(t) = logical[s] /\ Len(t) = Len(old)
      /\ t[Len(t)] = b /\ DOMAIN t = DOMAIN old
      /\ \A i \in DOMAIN t : i # Len(old) => t[i] = old[i]
  BY <1>a, <1>1, <1>2, <1>5
<1>10. block_tables' = [block_tables EXCEPT ![s] = t]
  BY <1>4
<1> HIDE DEF t
<1>11. /\ block_tables'[s] = t
       /\ \A x \in SeqIds : x # s => block_tables'[x] = block_tables[x]
  BY <1>1, <1>10 DEF IndInv, TypeOK
<1>12. Range(t) = (Range(old) \ {last}) \cup {b}
  <2>1. \A i \in DOMAIN old : old[i] = last <=> i = Len(old)
    BY <1>b, <1>1, <1>2 DEF IsInjective
  <2> QED BY <1>2, <1>9, <2>1 DEF Range
<1>13. IsInjective(t)
  <2>1. \A i \in DOMAIN t : i # Len(t) => t[i] # b
    BY <1>a, <1>1, <1>6, <1>9 DEF Range
  <2> QED BY <1>1, <1>9, <2>1 DEF IsInjective
<1>14. /\ Owners(b)' = {s} /\ Owners(last)' = Owners(last) \ {s}
       /\ \A c : c # b /\ c # last => Owners(c)' = Owners(c)
  <2>1. Owners(b)' = {s}
    BY <1>1, <1>6, <1>11, <1>12 DEF Owners
  <2>2. Owners(last)' = Owners(last) \ {s}
    BY <1>a, <1>1, <1>7, <1>11, <1>12 DEF Owners
  <2>3. \A c : c # b /\ c # last => Owners(c)' = Owners(c)
    BY <1>a, <1>1, <1>11, <1>12 DEF Owners
  <2> QED BY <2>1, <2>2, <2>3
<1>15. TypeOK'
  <2>1. SlotReady(s)
    BY <1>4
  <2>2. free_blocks' \in SUBSET Blocks
    BY <1>8 DEF IndInv, TypeOK
  <2> QED BY <1>1, <1>8, <1>9, <1>10, <2>1, <2>2 DEF IndInv, TypeOK, SlotReady, Slots
<1>16. RefCountsMatchTables'
  <2>1. Cardinality({s}) = 1
    BY FS_Singleton
  <2>2. Cardinality(Owners(last) \ {s}) = ref_count[last] - 1
    BY <1>2, <1>3, OneLess
  <2>3. \A c \in Blocks : c # b /\ c # last => ref_count'[c] = Cardinality(Owners(c)')
    BY <1>8, <1>14 DEF IndInv, RefCountsMatchTables
  <2> QED BY <1>8, <1>14, <2>1, <2>2, <2>3 DEF RefCountsMatchTables
<1>17. FreeListExact'
  <2>1. Owners(last) \ {s} # {}
    <3>1. ASSUME Owners(last) \ {s} = {} PROVE FALSE
      <4>1. Owners(last) = {s}
        BY <1>2, <3>1
      <4>2. Cardinality(Owners(last)) = 1
        BY <4>1, FS_Singleton
      <4> QED BY <1>3, <4>2
    <3> QED BY <3>1
  <2>2. last \notin free_blocks
    BY <1>2 DEF IndInv, FreeListExact
  <2> QED BY <1>8, <1>14, <2>1, <2>2 DEF IndInv, FreeListExact
<1>18. SharedOnlyWithinGroup'
  <2>1. \A x \in SeqIds : x # s => Range(t) \cap Range(block_tables[x])
                                     \subseteq Range(block_tables[s]) \cap Range(block_tables[x])
    BY <1>a, <1>6, <1>12
  <2>2. SharedOnlyWithinGroup
    BY DEF IndInv
  <2> SUFFICES ASSUME NEW x \in SeqIds, NEW y \in SeqIds,
                      Range(block_tables'[x]) \cap Range(block_tables'[y]) # {}
               PROVE  GroupOf[x] = GroupOf[y]
    BY DEF SharedOnlyWithinGroup
  <2>3. CASE x = s /\ y = s
    BY <2>3
  <2>4. CASE x = s /\ y # s
    <3>1. Range(block_tables[s]) \cap Range(block_tables[y]) # {}
      BY <1>11, <2>1, <2>4
    <3> QED BY <1>1, <2>2, <2>4, <3>1 DEF SharedOnlyWithinGroup
  <2>5. CASE x # s /\ y = s
    <3>1. Range(block_tables[s]) \cap Range(block_tables[x]) # {}
      BY <1>11, <2>1, <2>5
    <3> QED BY <1>1, <2>2, <2>5, <3>1 DEF SharedOnlyWithinGroup
  <2>6. CASE x # s /\ y # s
    <3>1. Range(block_tables[x]) \cap Range(block_tables[y]) # {}
      BY <1>11, <2>6
    <3> QED BY <2>2, <3>1 DEF SharedOnlyWithinGroup
  <2> QED BY <2>3, <2>4, <2>5, <2>6
<1>19. Range(t) \subseteq GpuBlocks
  BY <1>1, <1>5, <1>12
<1>20. AppendFits'
  <2>1. appending' = appending \ {s} /\ FreeGpu' = FreeGpu \ {b}
    BY <1>4, <1>8 DEF SlotReady, FreeGpu
  <2>2. /\ Cardinality(appending') = Cardinality(appending) - 1
        /\ Cardinality(FreeGpu') = Cardinality(FreeGpu) - 1
        /\ Cardinality(appending) \in Nat /\ Cardinality(FreeGpu) \in Nat
    <3>1. /\ IsFiniteSet(appending) /\ Cardinality(appending) \in Nat
          /\ IsFiniteSet(FreeGpu) /\ Cardinality(FreeGpu) \in Nat
      BY FiniteOwners, FiniteGpu DEF IndInv, TypeOK, FreeGpu
    <3> QED BY <2>1, <3>1, FS_RemoveElement
  <2>3. Cardinality(appending') <= Cardinality(FreeGpu')
    BY <2>2 DEF IndInv, AppendFits
  <2>4. \A x \in appending' : status'[x] = "Running" /\ slot'[x] = "none"
    BY <1>4, <1>9, <1>10, <1>13, <1>19, SlotReadyStep
  <2> QED BY <2>3, <2>4 DEF AppendFits
<1>21. \A x \in SeqIds : x # s /\ slot'[x] = "decode" =>
            /\ block_tables'[x] = block_tables[x]
            /\ Len(block_tables[x]) >= 1
            /\ Len(block_tables[x]) = logical'[x]
            /\ Owners(block_tables[x][Len(block_tables[x])]) = {x}
  <2>1. SlotReady(s)
    BY <1>4
  <2>2. t \in Seq(Blocks) /\ Len(t) = logical[s]
    BY <1>9
  <2> QED BY <1>10, <1>13, <1>19, <2>1, <2>2, SlotReadyStep, ZenonT(30)
<1>22. ExclusiveWriteSlot'
  <2> SUFFICES ASSUME NEW x \in SeqIds, slot'[x] = "decode"
               PROVE  /\ Len(block_tables'[x]) = logical'[x]
                      /\ Owners(block_tables[x][Len(block_tables[x])])' = {x}
    BY DEF ExclusiveWriteSlot
  <2>1. CASE x = s
    BY <1>4, <1>9, <1>11, <1>14, <2>1 DEF SlotReady
  <2>2. CASE x # s
    <3>1. /\ block_tables'[x] = block_tables[x]
          /\ Len(block_tables[x]) >= 1
          /\ Len(block_tables[x]) = logical'[x]
          /\ Owners(block_tables[x][Len(block_tables[x])]) = {x}
      BY <1>21, <2>2
    <3>2. block_tables[x][Len(block_tables[x])] # b
      BY <1>6, <3>1, LastBlock DEF IndInv, TypeOK, Owners
    <3>3. block_tables[x][Len(block_tables[x])] # last
      BY <1>2, <2>2, <3>1
    <3> QED BY <1>14, <3>1, <3>2, <3>3
  <2> QED BY <2>1, <2>2
<1> QED
  BY <1>4, <1>9, <1>10, <1>13, <1>15, <1>16, <1>17, <1>18, <1>19, <1>20, <1>22, SlotReadyStep
  DEF IndInv

LEMMA AppendSlotsStep ==
    ASSUME BlockSlidingWindow = 0, IndInv, NEW s \in SeqIds, AppendSlots(s)
    PROVE  IndInv'
<1>1. s \in appending
  BY DEF AppendSlots
<1>a. PICK t : t = block_tables[s]
  OBVIOUS
<1>2. /\ t \in Seq(Blocks) /\ logical[s] \in Nat
      /\ Len(t) \in Nat /\ Len(t) >= 1 /\ Len(t) <= logical[s] /\ Len(t) >= logical[s] - 1
      /\ FreeGpu # {}
  BY <1>1, <1>a, AppendingFacts
<1>3. CASE Len(t) < logical[s]
  <2>1. Len(t) = logical[s] - 1
    BY <1>2, <1>3
  <2>2. PushBlock(s)
    BY <1>a, <1>2, <1>3, <2>1 DEF AppendSlots, IsShared
  <2> QED BY <1>1, <1>a, <2>1, <2>2, PushBlockStep
<1>4. CASE Len(t) = logical[s] /\ ref_count[t[Len(t)]] # 1
  <2>1. CopyOnWrite(s, t)
    BY <1>a, <1>2, <1>4 DEF AppendSlots, IsShared
  <2> QED BY <1>1, <1>a, <1>4, <2>1, CopyOnWriteStep
<1>5. CASE Len(t) = logical[s] /\ ref_count[t[Len(t)]] = 1
  <2>1. /\ block_tables' = [block_tables EXCEPT ![s] = t]
        /\ SlotReady(s)
        /\ UNCHANGED <<ref_count, free_blocks>>
    BY <1>a, <1>2, <1>5 DEF AppendSlots, IsShared
  <2>2. UNCHANGED <<block_tables, ref_count, free_blocks>>
    BY <1>a, <2>1 DEF IndInv, TypeOK
  <2>3. IsInjective(t) /\ Range(t) \subseteq GpuBlocks
    BY <1>1, <1>a, AppendingFacts DEF IndInv, TablesDistinct, TablesOnDevice
  <2>4. TypeOK'
    BY <1>2, <2>1, <2>2 DEF IndInv, TypeOK, SlotReady, Slots
  <2>5. AppendFits'
    <3>1. \A x \in appending' : status'[x] = "Running" /\ slot'[x] = "none"
      BY <1>1, <1>2, <1>5, <2>1, <2>3, SlotReadyStep
    <3>2. appending' = appending \ {s} /\ FreeGpu' = FreeGpu
      BY <2>1, <2>2 DEF SlotReady, FreeGpu
    <3>3. /\ Cardinality(appending') = Cardinality(appending) - 1
          /\ Cardinality(appending) \in Nat /\ Cardinality(FreeGpu) \in Nat
      <4>1. /\ IsFiniteSet(appending) /\ Cardinality(appending) \in Nat
            /\ Cardinality(FreeGpu) \in Nat
        BY FiniteOwners, FiniteGpu DEF IndInv, TypeOK, FreeGpu
      <4> QED BY <1>1, <3>2, <4>1, FS_RemoveElement
    <3>4. Cardinality(appending') <= Cardinality(FreeGpu')
      BY <3>2, <3>3 DEF IndInv, AppendFits
    <3> QED BY <3>1, <3>4 DEF AppendFits
  <2>6. ExclusiveWriteSlot'
    <3>1. Owners(t[Len(t)]) = {s}
      <4>1. s \in Owners(t[Len(t)]) /\ t[Len(t)] \in Blocks
        BY <1>a, <1>2, LastBlock
      <4>2. IsFiniteSet(Owners(t[Len(t)])) /\ Cardinality(Owners(t[Len(t)])) = 1
        BY <1>5, <4>1, FiniteOwners DEF IndInv, RefCountsMatchTables, Owners
      <4> QED BY <4>1, <4>2, FS_Singleton
    <3>2. \A b : Owners(b)' = Owners(b)
      BY <2>2 DEF Owners
    <3>3. \A x \in SeqIds : x # s /\ slot'[x] = "decode" =>
                /\ block_tables'[x] = block_tables[x]
                /\ Len(block_tables[x]) = logical'[x]
                /\ Owners(block_tables[x][Len(block_tables[x])]) = {x}
      BY <1>1, <1>2, <1>5, <2>1, <2>3, SlotReadyStep
    <3>4. block_tables'[s] = t /\ Len(t) = logical'[s]
      BY <1>5, <1>a, <2>1, <2>2 DEF SlotReady
    <3> QED BY <3>1, <3>2, <3>3, <3>4 DEF ExclusiveWriteSlot
  <2>7. TablesOnDevice' /\ LengthsAgree' /\ NoOperationFails'
    BY <1>1, <1>2, <1>5, <2>1, <2>3, SlotReadyStep
  <2> QED BY <2>2, <2>4, <2>5, <2>6, <2>7, Frame DEF IndInv
<1> QED BY <1>2, <1>3, <1>4, <1>5

-----------------------------------------------------------------------------
(* fork *)

LEMMA ForkStep ==
    ASSUME IndInv, NEW p \in SeqIds, NEW c \in SeqIds, Fork(p, c)
    PROVE  IndInv'
<1>1. /\ appending = {} /\ err = "none" /\ status[p] = "Running" /\ slot[p] = "none"
      /\ status[c] = "Unborn" /\ GroupOf[c] = GroupOf[p] /\ c # p
      /\ UNCHANGED <<free_blocks, appending, slot, err>>
  BY DEF Fork, Idle
<1>2. /\ status' = [status EXCEPT ![c] = "Running"]
      /\ logical' = [logical EXCEPT ![c] = logical[p]]
      /\ last_fill' = [last_fill EXCEPT ![c] = last_fill[p]]
      /\ block_tables' = [block_tables EXCEPT ![c] = block_tables[p]]
      /\ ref_count' = [b \in Blocks |->
            IF b \in Range(block_tables[p]) THEN ref_count[b] + 1 ELSE ref_count[b]]
  BY <1>1 DEF Fork
<1>3. /\ block_tables[c] = <<>> /\ Range(block_tables[c]) = {} /\ slot[c] = "none"
  BY <1>1 DEF IndInv, TablesOnDevice, LengthsAgree, LengthOK, Range
<1>4. /\ status'[c] = "Running" /\ logical'[c] = logical[p] /\ block_tables'[c] = block_tables[p]
      /\ \A x \in SeqIds : x # c => /\ status'[x] = status[x]
                                    /\ logical'[x] = logical[x]
                                    /\ block_tables'[x] = block_tables[x]
  BY <1>2 DEF IndInv, TypeOK
<1>5. \A b : Owners(b)' = IF b \in Range(block_tables[p]) THEN Owners(b) \cup {c} ELSE Owners(b)
  BY <1>3, <1>4 DEF Owners
<1>6. TypeOK'
  BY <1>1, <1>2 DEF IndInv, TypeOK, Statuses
<1>7. RefCountsMatchTables'
  <2> SUFFICES ASSUME NEW b \in Blocks PROVE ref_count'[b] = Cardinality(Owners(b)')
    BY DEF RefCountsMatchTables
  <2>1. IsFiniteSet(Owners(b)) /\ c \notin Owners(b) /\ ref_count[b] = Cardinality(Owners(b))
    BY <1>3, FiniteOwners DEF Owners, IndInv, RefCountsMatchTables
  <2> QED BY <1>2, <1>5, <2>1, FS_AddElement
<1>8. FreeListExact'
  <2>1. \A b \in Range(block_tables[p]) : p \in Owners(b)
    BY DEF Owners
  <2> QED BY <1>1, <1>5, <2>1 DEF IndInv, FreeListExact
<1>9. SharedOnlyWithinGroup'
  BY <1>1, <1>4 DEF IndInv, SharedOnlyWithinGroup
<1>10. TablesDistinct' /\ TablesOnDevice' /\ NoOperationFails'
  BY <1>1, <1>4 DEF IndInv, TablesDistinct, TablesOnDevice, NoOperationFails
<1>11. LengthsAgree'
  <2>1. LengthOK(c)'
    BY <1>1, <1>3, <1>4 DEF IndInv, LengthsAgree, LengthOK
  <2>2. \A x \in SeqIds : x # c => LengthOK(x)'
    BY <1>1, <1>4 DEF IndInv, LengthsAgree, LengthOK
  <2> QED BY <1>4, <2>1, <2>2 DEF IndInv, LengthsAgree
<1>12. AppendFits'
  BY <1>1 DEF IndInv, AppendFits, FreeGpu
<1>13. ExclusiveWriteSlot'
  <2> SUFFICES ASSUME NEW x \in SeqIds, slot'[x] = "decode"
               PROVE  /\ Len(block_tables'[x]) = logical'[x]
                      /\ Owners(block_tables[x][Len(block_tables[x])])' = {x}
    BY DEF ExclusiveWriteSlot
  <2>1. x # c /\ x # p /\ slot[x] = "decode"
    BY <1>1, <1>3
  <2>2. /\ Len(block_tables[x]) = logical[x]
        /\ Owners(block_tables[x][Len(block_tables[x])]) = {x}
    BY <2>1 DEF IndInv, ExclusiveWriteSlot
  <2>3. block_tables[x][Len(block_tables[x])] \notin Range(block_tables[p])
    BY <2>1, <2>2 DEF Owners
  <2> QED BY <1>4, <1>5, <2>1, <2>2, <2>3
<1> QED
  BY <1>6, <1>7, <1>8, <1>9, <1>10, <1>11, <1>12, <1>13 DEF IndInv

-----------------------------------------------------------------------------
(* free and reset *)

(* Taking the sequences of S away from the owners of a block. *)
LEMMA OwnersLeft ==
    ASSUME IndInv, NEW b \in Blocks, NEW S \in SUBSET SeqIds
    PROVE  /\ Cardinality(Owners(b) \cap S) \in Nat
           /\ Cardinality(Owners(b) \ S) \in Nat
           /\ ref_count[b] \in Nat
           /\ Cardinality(Owners(b) \ S) = ref_count[b] - Cardinality(Owners(b) \cap S)
           /\ Cardinality(Owners(b) \ S) = 0 <=> Owners(b) \ S = {}
           /\ Cardinality(Owners(b) \cap S) = 0 <=> Owners(b) \cap S = {}
<1>1. Owners(b) \in SUBSET SeqIds
  BY DEF Owners
<1>2. /\ IsFiniteSet(Owners(b)) /\ IsFiniteSet(S)
      /\ IsFiniteSet(Owners(b) \cap S) /\ IsFiniteSet(Owners(b) \ S)
      /\ Cardinality(Owners(b) \cap S) \in Nat /\ Cardinality(Owners(b) \ S) \in Nat
  BY <1>1, FiniteOwners
<1>3. ref_count[b] = Cardinality(Owners(b)) /\ ref_count[b] \in Nat
  BY DEF IndInv, RefCountsMatchTables, TypeOK
<1>4. Cardinality(Owners(b) \ S) = Cardinality(Owners(b)) - Cardinality(Owners(b) \cap S)
  BY <1>2, FS_Difference
<1> QED BY <1>2, <1>3, <1>4, FS_EmptySet

(* free_block_table frees a block once per sequence of S that holds it. *)
LEMMA FreesAreOwners ==
    ASSUME BlockSlidingWindow = 0, NEW S \in SUBSET SeqIds, NEW b
    PROVE  NumFrees(S, b) = Cardinality(Owners(b) \cap S)
<1>1. {s \in S : b \in BlocksToFree(block_tables[s])} = Owners(b) \cap S
  BY DEF BlocksToFree, Owners
<1> QED BY <1>1 DEF NumFrees

LEMMA FreeNeverFails ==
    ASSUME BlockSlidingWindow = 0, IndInv, NEW S \in SUBSET SeqIds
    PROVE  ~ SlicePanics(S) /\ ~ FreeFails(S)
<1>1. ~ SlicePanics(S)
  BY DEF SlicePanics, IndInv, TypeOK
<1>2. ASSUME NEW b \in Blocks
      PROVE  ~ (ref_count[b] < NumFrees(S, b))
  <2>1. NumFrees(S, b) = Cardinality(Owners(b) \cap S)
    BY FreesAreOwners
  <2>2. /\ Cardinality(Owners(b) \cap S) \in Nat
        /\ Cardinality(Owners(b) \ S) \in Nat
        /\ ref_count[b] \in Nat
        /\ Cardinality(Owners(b) \ S) = ref_count[b] - Cardinality(Owners(b) \cap S)
    BY OwnersLeft
  <2> QED BY <2>1, <2>2
<1> QED BY <1>1, <1>2 DEF FreeFails

LEMMA FreeTablesStep ==
    ASSUME BlockSlidingWindow = 0, IndInv, NEW S \in SUBSET SeqIds, FreeTables(S)
    PROVE  /\ ref_count' \in [Blocks -> Nat]
           /\ free_blocks' \in SUBSET Blocks
           /\ block_tables' \in [SeqIds -> Seq(Blocks)]
           /\ \A s \in S : block_tables'[s] = <<>>
           /\ \A s \in SeqIds : s \notin S => block_tables'[s] = block_tables[s]
           /\ \A b : Owners(b)' = Owners(b) \ S
           /\ TablesDistinct' /\ RefCountsMatchTables' /\ FreeListExact'
           /\ SharedOnlyWithinGroup'
           /\ Cardinality({}) <= Cardinality(FreeGpu')
<1>1. /\ ref_count' = [b \in Blocks |-> ref_count[b] - NumFrees(S, b)]
      /\ free_blocks' = free_blocks \cup
            {b \in Blocks : NumFrees(S, b) > 0 /\ ref_count[b] = NumFrees(S, b)}
      /\ block_tables' = [s \in SeqIds |-> IF s \in S THEN <<>> ELSE block_tables[s]]
  BY DEF FreeTables
<1>2. /\ \A s \in S : block_tables'[s] = <<>> /\ Range(block_tables'[s]) = {}
      /\ \A s \in SeqIds : s \notin S => block_tables'[s] = block_tables[s]
      /\ block_tables' \in [SeqIds -> Seq(Blocks)]
  BY <1>1 DEF IndInv, TypeOK, Range
<1>3. \A b : Owners(b)' = Owners(b) \ S
  BY <1>2 DEF Owners
<1>4. \A b \in Blocks :
        /\ ref_count'[b] = Cardinality(Owners(b) \ S)
        /\ ref_count'[b] \in Nat
        /\ b \in free_blocks' <=> Owners(b) \ S = {}
  <2> SUFFICES ASSUME NEW b \in Blocks
               PROVE  /\ ref_count'[b] = Cardinality(Owners(b) \ S)
                      /\ ref_count'[b] \in Nat
                      /\ b \in free_blocks' <=> Owners(b) \ S = {}
    OBVIOUS
  <2>1. NumFrees(S, b) = Cardinality(Owners(b) \cap S)
    BY FreesAreOwners
  <2>a. /\ Cardinality(Owners(b) \cap S) \in Nat
        /\ Cardinality(Owners(b) \ S) \in Nat
        /\ ref_count[b] \in Nat
        /\ Cardinality(Owners(b) \ S) = ref_count[b] - Cardinality(Owners(b) \cap S)
        /\ Cardinality(Owners(b) \ S) = 0 <=> Owners(b) \ S = {}
        /\ Cardinality(Owners(b) \cap S) = 0 <=> Owners(b) \cap S = {}
    BY OwnersLeft
  <2>2. ref_count'[b] = Cardinality(Owners(b) \ S) /\ ref_count'[b] \in Nat
    BY <1>1, <2>1, <2>a
  <2>3. CASE Owners(b) \cap S = {}
    <3>1. NumFrees(S, b) = 0
      BY <2>1, <2>3, <2>a
    <3>2. Owners(b) \ S = Owners(b)
      BY <2>3
    <3> QED BY <1>1, <2>2, <3>1, <3>2 DEF IndInv, FreeListExact
  <2>4. CASE Owners(b) \cap S # {}
    <3>1. NumFrees(S, b) > 0
      BY <2>1, <2>4, <2>a
    <3>2. b \notin free_blocks
      BY <2>4 DEF IndInv, FreeListExact
    <3>3. Owners(b) \ S = {} <=> ref_count[b] = NumFrees(S, b)
      BY <2>1, <2>a
    <3> QED BY <1>1, <2>2, <3>1, <3>2, <3>3
  <2> QED BY <2>3, <2>4
<1>5. TablesDistinct'
  BY <1>2 DEF IndInv, TablesDistinct, IsInjective
<1>6. RefCountsMatchTables' /\ FreeListExact'
  BY <1>3, <1>4 DEF RefCountsMatchTables, FreeListExact
<1>7. SharedOnlyWithinGroup'
  BY <1>2 DEF IndInv, SharedOnlyWithinGroup
<1>8. ref_count' \in [Blocks -> Nat] /\ free_blocks' \in SUBSET Blocks
  BY <1>1, <1>4 DEF IndInv, TypeOK
<1>9. Cardinality({}) <= Cardinality(FreeGpu')
  BY FiniteGpu, FS_EmptySet DEF FreeGpu
<1> QED BY <1>2, <1>3, <1>5, <1>6, <1>7, <1>8, <1>9

LEMMA FreeSequenceStep ==
    ASSUME BlockSlidingWindow = 0, IndInv, appending = {}, NEW s \in SeqIds,
           NEW st \in {"Waiting", "Finished"}, FreeSequence(s, st),
           status[s] # "Unborn",
           st = "Waiting" => Unfinished(GroupOf[s]) = {s}
    PROVE  IndInv'
<1>1. /\ FreeTables({s})
      /\ status' = [status EXCEPT ![s] = st]
      /\ slot' = [slot EXCEPT ![s] = "none"]
      /\ UNCHANGED <<logical, last_fill, appending, err>>
  BY FreeNeverFails DEF FreeSequence
<1>2. /\ status'[s] = st /\ slot'[s] = "none" /\ block_tables'[s] = <<>>
      /\ \A x \in SeqIds : x # s => /\ status'[x] = status[x]
                                    /\ slot'[x] = slot[x]
                                    /\ block_tables'[x] = block_tables[x]
  <2>1. \A x \in {s} : block_tables'[x] = <<>>
    BY <1>1, FreeTablesStep
  <2>2. \A x \in SeqIds : x \notin {s} => block_tables'[x] = block_tables[x]
    BY <1>1, FreeTablesStep
  <2> QED BY <1>1, <2>1, <2>2 DEF IndInv, TypeOK
<1>3. TypeOK'
  <2>1. /\ ref_count' \in [Blocks -> Nat]
        /\ free_blocks' \in SUBSET Blocks
        /\ block_tables' \in [SeqIds -> Seq(Blocks)]
    BY <1>1, FreeTablesStep
  <2> QED BY <1>1, <2>1 DEF IndInv, TypeOK, Statuses, Slots
<1>4. TablesOnDevice'
  BY <1>2 DEF IndInv, TablesOnDevice
<1>5. LengthsAgree'
  <2>1. LengthOK(s)'
    BY <1>1, <1>2 DEF IndInv, LengthsAgree, LengthOK
  <2>2. \A x \in SeqIds : x # s => LengthOK(x)'
    BY <1>1, <1>2 DEF IndInv, LengthsAgree, LengthOK
  <2>3. \A x \in SeqIds : st = "Waiting" /\ x # s /\ GroupOf[x] = GroupOf[s] => status[x] # "Waiting"
    BY DEF Unfinished, Members
  <2> QED BY <1>1, <1>2, <2>1, <2>2, <2>3 DEF IndInv, LengthsAgree
<1>6. AppendFits'
  BY <1>1, FreeTablesStep DEF AppendFits
<1>7. ExclusiveWriteSlot'
  <2> SUFFICES ASSUME NEW x \in SeqIds, slot'[x] = "decode"
               PROVE  /\ Len(block_tables'[x]) = logical'[x]
                      /\ Owners(block_tables[x][Len(block_tables[x])])' = {x}
    BY DEF ExclusiveWriteSlot
  <2>1. x # s /\ slot[x] = "decode" /\ block_tables'[x] = block_tables[x]
    BY <1>2
  <2>2. /\ Len(block_tables[x]) = logical[x]
        /\ Owners(block_tables[x][Len(block_tables[x])]) = {x}
    BY <2>1 DEF IndInv, ExclusiveWriteSlot
  <2>3. \A b : Owners(b)' = Owners(b) \ {s}
    BY <1>1, FreeTablesStep
  <2> QED BY <1>1, <2>1, <2>2, <2>3
<1>8. TablesDistinct' /\ RefCountsMatchTables' /\ FreeListExact' /\ SharedOnlyWithinGroup'
  BY <1>1, FreeTablesStep
<1> QED BY <1>1, <1>3, <1>4, <1>5, <1>6, <1>7, <1>8 DEF IndInv, NoOperationFails

LEMMA ResetStep ==
    ASSUME BlockSlidingWindow = 0, IndInv, Reset
    PROVE  IndInv'
<1>1. /\ FreeTables(SeqIds)
      /\ status' = [s \in SeqIds |-> "Unborn"]
      /\ logical' = [s \in SeqIds |-> 0]
      /\ last_fill' = [s \in SeqIds |-> 0]
      /\ slot' = [s \in SeqIds |-> "none"]
      /\ UNCHANGED <<appending, err>>
      /\ appending = {} /\ err = "none"
  BY FreeNeverFails DEF Reset, Idle
<1>2. /\ ref_count' \in [Blocks -> Nat]
      /\ free_blocks' \in SUBSET Blocks
      /\ block_tables' \in [SeqIds -> Seq(Blocks)]
      /\ \A s \in SeqIds : block_tables'[s] = <<>>
      /\ TablesDistinct' /\ RefCountsMatchTables' /\ FreeListExact' /\ SharedOnlyWithinGroup'
      /\ Cardinality({}) <= Cardinality(FreeGpu')
  BY <1>1, FreeTablesStep
<1>3. TypeOK'
  BY <1>1, <1>2, SizesAssumption DEF IndInv, TypeOK, Statuses, Slots
<1>4. TablesOnDevice' /\ LengthsAgree' /\ AppendFits' /\ ExclusiveWriteSlot' /\ NoOperationFails'
  BY <1>1, <1>2
  DEF TablesOnDevice, LengthsAgree, LengthOK, AppendFits, ExclusiveWriteSlot, NoOperationFails
<1> QED BY <1>2, <1>3, <1>4 DEF IndInv

-----------------------------------------------------------------------------
(* swap_out and swap_in *)

(* The swap loop over S frees a block once per owner in S, so never more
   often than it is referenced. *)
LEMMA SwapUses ==
    ASSUME IndInv, NEW S \in SUBSET SeqIds, NEW b \in Blocks
    PROVE  /\ NumUses(block_tables, S, b) = Cardinality(Owners(b) \cap S)
           /\ ~ (ref_count[b] < NumUses(block_tables, S, b))
<1>1. \A s \in S : block_tables[s] \in Seq(Blocks) /\ IsInjective(block_tables[s])
  BY DEF IndInv, TypeOK, TablesDistinct
<1>2. {s \in S : b \in Range(block_tables[s])} = Owners(b) \cap S
  BY DEF Owners
<1>3. NumUses(block_tables, S, b) = Cardinality(Owners(b) \cap S)
  BY <1>1, <1>2, UsesAreOwners
<1>4. /\ Cardinality(Owners(b) \cap S) \in Nat
      /\ Cardinality(Owners(b) \ S) \in Nat
      /\ ref_count[b] \in Nat
      /\ Cardinality(Owners(b) \ S) = ref_count[b] - Cardinality(Owners(b) \cap S)
  BY OwnersLeft
<1> QED BY <1>3, <1>4

LEMMA SwapNeverFails ==
    ASSUME IndInv, NEW S \in SUBSET SeqIds
    PROVE  ~ DoubleFrees(S)
<1>1. HeldBy(S) \subseteq Blocks
  BY DEF IndInv, TypeOK, Range, HeldBy
<1> QED BY <1>1, SwapUses DEF DoubleFrees

(* A step takes at most n blocks, all from target, off the free lists. *)
Takes(n, target) ==
    \E R \in SUBSET target : Cardinality(R) = n /\ free_blocks \ R \subseteq free_blocks'

LEMMA SwapStep ==
    ASSUME IndInv, NEW S \in SUBSET SeqIds, NEW g \in Groups,
           \A s \in S : GroupOf[s] = g /\ slot[s] = "none",
           NEW target \in SUBSET free_blocks, NEW st \in Statuses,
           Swap(S, target, st)
    PROVE  /\ TablesDistinct' /\ RefCountsMatchTables' /\ FreeListExact'
           /\ SharedOnlyWithinGroup' /\ ExclusiveWriteSlot'
           /\ block_tables' \in [SeqIds -> Seq(Blocks)]
           /\ ref_count' \in [Blocks -> Nat]
           /\ free_blocks' \in SUBSET Blocks
           /\ \A s \in S : /\ status'[s] = st
                           /\ Len(block_tables'[s]) = Len(block_tables[s])
                           /\ Range(block_tables'[s]) \subseteq target
           /\ \A s \in SeqIds : s \notin S => /\ status'[s] = status[s]
                                              /\ block_tables'[s] = block_tables[s]
           /\ status' \in [SeqIds -> Statuses]
           /\ UNCHANGED <<logical, last_fill, slot, err>>
           /\ Takes(Cardinality(HeldBy(S)), target)
<1> DEFINE Mapped(X) ==
        \E m \in Injection(X, target) :
            /\ block_tables' = Moved(S, m)
            /\ ref_count' = [b \in Blocks |->
                    CASE b \in X -> ref_count[b] - NumUses(block_tables, S, b)
                      [] b \in Range(m) -> NumUses(Moved(S, m), S, b)
                      [] OTHER -> ref_count[b]]
            /\ free_blocks' = (free_blocks \ Range(m))
                    \cup {b \in X : ref_count[b] = NumUses(block_tables, S, b)}
            /\ status' = [s \in SeqIds |-> IF s \in S THEN st ELSE status[s]]
            /\ UNCHANGED <<logical, last_fill, slot, err>>
<1>a. PICK D : D = HeldBy(S)
  OBVIOUS
<1>b. Mapped(HeldBy(S))
  BY DEF Swap, SetStatus
<1>c. Mapped(D)
  <2> HIDE DEF Mapped
  <2> QED BY <1>a, <1>b
<1>1. PICK m \in Injection(D, target) :
        /\ block_tables' = Moved(S, m)
        /\ ref_count' = [b \in Blocks |->
                CASE b \in D -> ref_count[b] - NumUses(block_tables, S, b)
                  [] b \in Range(m) -> NumUses(Moved(S, m), S, b)
                  [] OTHER -> ref_count[b]]
        /\ free_blocks' = (free_blocks \ Range(m))
                \cup {b \in D : ref_count[b] = NumUses(block_tables, S, b)}
        /\ status' = [s \in SeqIds |-> IF s \in S THEN st ELSE status[s]]
        /\ UNCHANGED <<logical, last_fill, slot, err>>
  BY <1>c
<1>2. /\ m \in [D -> target] /\ IsInjective(m) /\ DOMAIN m = D
      /\ Range(m) \subseteq target
  BY DEF Injection, Range
<1>3. /\ \A s \in SeqIds : block_tables[s] \in Seq(Blocks) /\ IsInjective(block_tables[s])
      /\ target \subseteq Blocks /\ free_blocks \subseteq Blocks
      /\ \A s \in S : \A i \in DOMAIN block_tables[s] : block_tables[s][i] \in D
      /\ D \subseteq Blocks
  <2>1. \A s \in SeqIds : block_tables[s] \in Seq(Blocks) /\ IsInjective(block_tables[s])
    BY DEF IndInv, TypeOK, TablesDistinct
  <2>2. target \subseteq Blocks /\ free_blocks \subseteq Blocks
    BY DEF IndInv, TypeOK
  <2>3. \A s \in S : \A i \in DOMAIN block_tables[s] : block_tables[s][i] \in D
    BY <1>a DEF Range, HeldBy
  <2>4. D \subseteq Blocks
    BY <1>a, <2>1 DEF Range, HeldBy
  <2> QED BY <2>1, <2>2, <2>3, <2>4
<1>4. \A b \in target : b \in Blocks /\ b \notin D /\ Owners(b) = {}
                        /\ \A s \in SeqIds : b \notin Range(block_tables[s])
  <2> SUFFICES ASSUME NEW b \in target
               PROVE  b \in Blocks /\ b \notin D /\ Owners(b) = {}
                      /\ \A s \in SeqIds : b \notin Range(block_tables[s])
    OBVIOUS
  <2>1. b \in Blocks /\ b \in free_blocks
    BY <1>3
  <2>2. \A s \in SeqIds : b \notin Range(block_tables[s])
    BY <2>1, FreeMeansUnreferenced
  <2> QED BY <1>a, <2>1, <2>2 DEF Owners, HeldBy
<1>5. /\ \A s \in S : block_tables'[s] = [i \in DOMAIN block_tables[s] |-> m[block_tables[s][i]]]
      /\ \A s \in SeqIds : s \notin S => block_tables'[s] = block_tables[s]
      /\ DOMAIN block_tables' = SeqIds
      /\ block_tables' = [s \in SeqIds |-> block_tables'[s]]
  BY <1>1 DEF Moved
<1>6. \A s \in S : /\ block_tables'[s] \in Seq(Blocks)
                   /\ Len(block_tables'[s]) = Len(block_tables[s])
                   /\ IsInjective(block_tables'[s])
                   /\ Range(block_tables'[s]) = {m[b] : b \in Range(block_tables[s])}
                   /\ Range(block_tables'[s]) \subseteq Range(m)
  <2> SUFFICES ASSUME NEW s \in S
               PROVE  /\ block_tables'[s] \in Seq(Blocks)
                      /\ Len(block_tables'[s]) = Len(block_tables[s])
                      /\ IsInjective(block_tables'[s])
                      /\ Range(block_tables'[s]) = {m[b] : b \in Range(block_tables[s])}
                      /\ Range(block_tables'[s]) \subseteq Range(m)
    OBVIOUS
  <2>a. PICK t : t = block_tables[s]
    OBVIOUS
  <2>b. PICK u : u = block_tables'[s]
    OBVIOUS
  <2>1. /\ u = [i \in DOMAIN t |-> m[t[i]]] /\ t \in Seq(Blocks) /\ IsInjective(t)
        /\ \A i \in DOMAIN t : t[i] \in D
    BY <1>3, <1>5, <2>a, <2>b
  <2>2. \A i \in DOMAIN t : m[t[i]] \in Blocks
    BY <1>2, <1>3, <2>1
  <2>3. u \in Seq(Blocks) /\ Len(u) = Len(t) /\ DOMAIN u = DOMAIN t
    BY <2>1, <2>2
  <2>4. IsInjective(u)
    BY <1>2, <2>1 DEF IsInjective
  <2>5. Range(u) = {m[b] : b \in Range(t)}
    BY <2>1 DEF Range
  <2>6. Range(u) \subseteq Range(m)
    BY <1>2, <2>1 DEF Range
  <2> QED BY <2>a, <2>b, <2>3, <2>4, <2>5, <2>6
<1>7. block_tables' \in [SeqIds -> Seq(Blocks)]
  BY <1>3, <1>5, <1>6
<1>8. \A b : b \notin Range(m) => Owners(b)' = Owners(b) \ S
  BY <1>5, <1>6 DEF Owners
<1>9. \A b \in Range(m) : Owners(b)' = {s \in S : b \in Range(block_tables'[s])}
  BY <1>2, <1>4, <1>5 DEF Owners
<1>10. \A b : b \notin D => Owners(b) \ S = Owners(b)
  BY <1>a DEF Owners, HeldBy
<1>11. \A b \in Range(m) : Owners(b)' # {}
  <2> SUFFICES ASSUME NEW b \in Range(m) PROVE Owners(b)' # {}
    OBVIOUS
  <2>1. PICK a \in D : b = m[a]
    BY <1>2 DEF Range
  <2>2. PICK s \in S : a \in Range(block_tables[s])
    BY <1>a DEF HeldBy
  <2>3. b \in Range(block_tables'[s])
    BY <1>6, <2>1, <2>2
  <2> QED BY <1>9, <2>2, <2>3
<1>12. \A b \in D : ref_count'[b] = Cardinality(Owners(b)') /\ ref_count'[b] \in Nat
                    /\ (b \in free_blocks' <=> Owners(b)' = {})
  <2> SUFFICES ASSUME NEW b \in D
               PROVE  ref_count'[b] = Cardinality(Owners(b)') /\ ref_count'[b] \in Nat
                      /\ (b \in free_blocks' <=> Owners(b)' = {})
    OBVIOUS
  <2>1. b \in Blocks /\ b \notin Range(m)
    BY <1>2, <1>3, <1>4
  <2>2. /\ Cardinality(Owners(b) \cap S) \in Nat
        /\ Cardinality(Owners(b) \ S) \in Nat
        /\ ref_count[b] \in Nat
        /\ Cardinality(Owners(b) \ S) = ref_count[b] - Cardinality(Owners(b) \cap S)
        /\ Cardinality(Owners(b) \ S) = 0 <=> Owners(b) \ S = {}
    BY <2>1, OwnersLeft
  <2>3. NumUses(block_tables, S, b) = Cardinality(Owners(b) \cap S)
    BY <2>1, SwapUses
  <2>4. ref_count'[b] = ref_count[b] - NumUses(block_tables, S, b)
    BY <1>1, <2>1
  <2>5. Owners(b)' = Owners(b) \ S
    BY <1>8, <2>1
  <2>6. b \notin free_blocks
    <3>1. Owners(b) # {}
      BY <1>a DEF Owners, HeldBy
    <3> QED BY <2>1, <3>1 DEF IndInv, FreeListExact
  <2>7. b \in free_blocks' <=> ref_count[b] = NumUses(block_tables, S, b)
    BY <1>1, <2>6
  <2> QED BY <2>2, <2>3, <2>4, <2>5, <2>7
<1>13. \A b \in Range(m) : ref_count'[b] = Cardinality(Owners(b)') /\ ref_count'[b] \in Nat
                           /\ (b \in free_blocks' <=> Owners(b)' = {})
  <2> SUFFICES ASSUME NEW b \in Range(m)
               PROVE  ref_count'[b] = Cardinality(Owners(b)') /\ ref_count'[b] \in Nat
                      /\ (b \in free_blocks' <=> Owners(b)' = {})
    OBVIOUS
  <2>1. b \in Blocks /\ b \notin D
    BY <1>2, <1>4
  <2>2. ref_count'[b] = NumUses(block_tables', S, b)
    BY <1>1, <2>1
  <2>3. NumUses(block_tables', S, b) = Cardinality({s \in S : b \in Range(block_tables'[s])})
    BY <1>6, UsesAreOwners
  <2>4. Cardinality({s \in S : b \in Range(block_tables'[s])}) \in Nat
    BY FiniteOwners
  <2>5. b \notin free_blocks'
    BY <1>1, <2>1
  <2> QED BY <1>9, <1>11, <2>2, <2>3, <2>4, <2>5
<1>14. \A b \in Blocks : b \notin D /\ b \notin Range(m) =>
            /\ ref_count'[b] = Cardinality(Owners(b)') /\ ref_count'[b] \in Nat
            /\ (b \in free_blocks' <=> Owners(b)' = {})
  <2> SUFFICES ASSUME NEW b \in Blocks, b \notin D, b \notin Range(m)
               PROVE  /\ ref_count'[b] = Cardinality(Owners(b)') /\ ref_count'[b] \in Nat
                      /\ (b \in free_blocks' <=> Owners(b)' = {})
    OBVIOUS
  <2>1. Owners(b)' = Owners(b)
    BY <1>8, <1>10
  <2>2. ref_count'[b] = ref_count[b] /\ (b \in free_blocks' <=> b \in free_blocks)
    BY <1>1
  <2> QED BY <2>1, <2>2 DEF IndInv, TypeOK, RefCountsMatchTables, FreeListExact
<1>15. RefCountsMatchTables' /\ FreeListExact'
  BY <1>12, <1>13, <1>14 DEF RefCountsMatchTables, FreeListExact
<1>16. ref_count' \in [Blocks -> Nat]
  <2>1. \A b \in Blocks : ref_count'[b] \in Nat
    BY <1>12, <1>13, <1>14
  <2>2. /\ ref_count' = [b \in Blocks |-> ref_count'[b]]
    BY <1>1
  <2> QED BY <2>1, <2>2
<1>17. free_blocks' \in SUBSET Blocks
  BY <1>1, <1>3
<1>18. TablesDistinct'
  BY <1>3, <1>5, <1>6 DEF TablesDistinct
<1>19. SharedOnlyWithinGroup'
  <2>1. \A x \in S, y \in SeqIds : y \notin S =>
            Range(block_tables'[x]) \cap Range(block_tables'[y]) = {}
    BY <1>2, <1>4, <1>5, <1>6
  <2> QED BY <1>5, <2>1 DEF IndInv, SharedOnlyWithinGroup
<1>20. ExclusiveWriteSlot'
  <2> SUFFICES ASSUME NEW x \in SeqIds, slot'[x] = "decode"
               PROVE  /\ Len(block_tables'[x]) = logical'[x]
                      /\ Owners(block_tables[x][Len(block_tables[x])])' = {x}
    BY DEF ExclusiveWriteSlot
  <2>1. x \notin S /\ slot[x] = "decode" /\ block_tables'[x] = block_tables[x]
    BY <1>1, <1>5
  <2>2. /\ Len(block_tables[x]) = logical[x] /\ Len(block_tables[x]) >= 1
        /\ Owners(block_tables[x][Len(block_tables[x])]) = {x}
    BY <2>1 DEF IndInv, TypeOK, ExclusiveWriteSlot, LengthsAgree, LengthOK
  <2>3. block_tables[x][Len(block_tables[x])] \in Range(block_tables[x])
    BY <1>3, <2>2, LastBlock DEF Owners
  <2>4. block_tables[x][Len(block_tables[x])] \notin Range(m)
    BY <1>2, <1>4, <2>3
  <2> QED BY <1>1, <1>8, <2>1, <2>2, <2>4
<1>21. Takes(Cardinality(D), target)
  <2>1. m \in Bijection(D, Range(m))
    BY <1>2 DEF Bijection, Injection, Surjection, Range
  <2>2. IsFiniteSet(D)
    BY <1>3, BlocksAssumption, FS_Subset, FS_Union DEF Blocks
  <2>3. Cardinality(Range(m)) = Cardinality(D)
    BY <2>1, <2>2, FS_Bijection DEF ExistsBijection
  <2> QED BY <1>1, <1>2, <2>3 DEF Takes
<1> QED
  BY <1>a, <1>1, <1>2, <1>5, <1>6, <1>7, <1>15, <1>16, <1>17, <1>18, <1>19, <1>20, <1>21
  DEF IndInv, TypeOK

(* What both swaps share, whatever the loop that follows. *)
LEMMA SwapKeepsLengths ==
    ASSUME IndInv, NEW S \in SUBSET SeqIds, NEW g \in Groups,
           \A s \in S : GroupOf[s] = g /\ slot[s] = "none"
                        /\ status[s] \in {"Running", "Swapped"},
           NEW target \in SUBSET free_blocks, NEW st \in {"Running", "Swapped"},
           st = "Running" => target \subseteq GpuBlocks,
           st = "Swapped" => target \subseteq CpuBlocks,
           Swap(S, target, st)
    PROVE  LengthsAgree' /\ TablesOnDevice'
<1>1. /\ \A s \in S : /\ status'[s] = st
                      /\ Len(block_tables'[s]) = Len(block_tables[s])
                      /\ Range(block_tables'[s]) \subseteq target
      /\ \A s \in SeqIds : s \notin S => /\ status'[s] = status[s]
                                         /\ block_tables'[s] = block_tables[s]
      /\ UNCHANGED <<logical, last_fill, slot, err>>
  <2>1. st \in Statuses /\ \A s \in S : GroupOf[s] = g /\ slot[s] = "none"
    BY DEF Statuses
  <2> QED BY <2>1, SwapStep, Zenon
<1>2. \A s \in S : LengthOK(s)'
  BY <1>1 DEF IndInv, LengthsAgree, LengthOK
<1>3. \A s \in SeqIds : s \notin S => LengthOK(s)'
  BY <1>1 DEF IndInv, LengthsAgree, LengthOK
<1>4. LengthsAgree'
  BY <1>1, <1>2, <1>3 DEF IndInv, LengthsAgree
<1>5. TablesOnDevice'
  BY <1>1 DEF IndInv, TablesOnDevice
<1> QED BY <1>4, <1>5

(* The blocks a swap moves are among those can_swap_out and can_swap_in count. *)
LEMMA MovedAreCounted ==
    ASSUME IndInv, NEW g \in Groups, NEW S, S \subseteq Unfinished(g)
    PROVE  /\ Cardinality(HeldBy(S)) <= Cardinality(GetPhysicalBlocks(g))
           /\ Cardinality(HeldBy(S)) \in Nat /\ Cardinality(GetPhysicalBlocks(g)) \in Nat
<1>1. HeldBy(S) \subseteq GetPhysicalBlocks(g) /\ GetPhysicalBlocks(g) \in SUBSET Blocks
  <2>1. Unfinished(g) \subseteq SeqIds
    BY DEF Unfinished, Members
  <2>2. \A s \in SeqIds : Range(block_tables[s]) \subseteq Blocks
    BY DEF IndInv, TypeOK, Range
  <2> QED BY <2>1, <2>2 DEF GetPhysicalBlocks, HeldBy
<1>2. IsFiniteSet(GetPhysicalBlocks(g)) /\ Cardinality(GetPhysicalBlocks(g)) \in Nat
  BY <1>1, BlocksAssumption, FS_Subset, FS_Union, FS_CardinalityType DEF Blocks
<1> QED BY <1>1, <1>2, FS_Subset, FS_CardinalityType

(* What can_swap_out counted is there when swap_out pops it. *)
LEMMA SwapOutFits ==
    ASSUME IndInv, NEW g \in Groups, CanSwapOut(g)
    PROVE  ~OutOfBlocks(Cardinality(HeldBy(WithStatus(g, "Running"))), FreeCpu)
<1>1. WithStatus(g, "Running") \subseteq Unfinished(g)
  BY DEF WithStatus, Unfinished
<1>2. Cardinality(FreeCpu) \in Nat
  BY BlocksAssumption, FS_Subset, FS_CardinalityType DEF FreeCpu
<1> QED BY <1>1, <1>2, MovedAreCounted DEF CanSwapOut, OutOfBlocks

(* What can_swap_in counted is there when swap_in pops it. *)
LEMMA SwapInFits ==
    ASSUME IndInv, NEW g \in Groups, CanSwapIn(g)
    PROVE  ~OutOfBlocks(Cardinality(HeldBy(WithStatus(g, "Swapped"))), FreeGpu)
<1>1. WithStatus(g, "Swapped") \subseteq Unfinished(g)
  BY DEF WithStatus, Unfinished
<1>2. Cardinality(FreeGpu) \in Nat
  BY FiniteGpu DEF FreeGpu
<1>3. Cardinality(WithStatus(g, "Swapped")) \in Nat
  BY FiniteOwners DEF WithStatus, Members
<1> QED BY <1>1, <1>2, <1>3, MovedAreCounted DEF CanSwapIn, OutOfBlocks

LEMMA SwapOutStep ==
    ASSUME IndInv, NEW g \in Groups, SwapOut(g)
    PROVE  IndInv'
<1>a. PICK S : S = WithStatus(g, "Running")
  OBVIOUS
<1>b. PICK target : target = FreeCpu
  OBVIOUS
<1>1. /\ S \in SUBSET SeqIds
      /\ \A s \in S : GroupOf[s] = g /\ status[s] = "Running" /\ slot[s] = "none"
      /\ appending = {} /\ err = "none"
  BY <1>a DEF SwapOut, Idle, WithStatus, Members
<1>2. Swap(S, target, "Swapped") /\ UNCHANGED appending
  BY <1>a, <1>b, <1>1, SwapNeverFails, SwapOutFits DEF SwapOut
<1>3. target \in SUBSET free_blocks /\ target \subseteq CpuBlocks
  BY <1>b DEF FreeCpu
<1>4. "Swapped" \in Statuses
  BY DEF Statuses
<1>5. /\ TablesDistinct' /\ RefCountsMatchTables' /\ FreeListExact'
      /\ SharedOnlyWithinGroup' /\ ExclusiveWriteSlot'
      /\ block_tables' \in [SeqIds -> Seq(Blocks)]
      /\ ref_count' \in [Blocks -> Nat]
      /\ free_blocks' \in SUBSET Blocks
      /\ status' \in [SeqIds -> Statuses]
      /\ UNCHANGED <<logical, last_fill, slot, err>>
  BY <1>1, <1>2, <1>3, <1>4, SwapStep
<1>6. LengthsAgree' /\ TablesOnDevice'
  BY <1>1, <1>2, <1>3, SwapKeepsLengths
<1>7. TypeOK' /\ NoOperationFails'
  BY <1>1, <1>2, <1>5 DEF IndInv, TypeOK, NoOperationFails
<1>8. AppendFits'
  BY <1>1, <1>2, FiniteGpu, FS_EmptySet DEF AppendFits, FreeGpu
<1> QED BY <1>5, <1>6, <1>7, <1>8 DEF IndInv

(* A swap takes as many blocks of the other device as it moves. *)
LEMMA SwapTakes ==
    ASSUME IndInv, NEW S \in SUBSET SeqIds, NEW g \in Groups,
           \A s \in S : GroupOf[s] = g /\ slot[s] = "none",
           NEW target \in SUBSET free_blocks, NEW st \in Statuses,
           Swap(S, target, st)
    PROVE  /\ \A s \in S : status'[s] = st
           /\ Takes(Cardinality(HeldBy(S)), target)
BY SwapStep

LEMMA SwapInStep ==
    ASSUME IndInv, NEW g \in Groups, SwapIn(g)
    PROVE  IndInv'
<1>a. PICK S : S = WithStatus(g, "Swapped")
  OBVIOUS
<1>b. PICK target : target = FreeGpu
  OBVIOUS
<1>1. /\ S \in SUBSET SeqIds
      /\ \A s \in S : GroupOf[s] = g /\ status[s] = "Swapped" /\ slot[s] = "none"
      /\ appending = {} /\ err = "none"
  BY <1>a DEF SwapIn, Idle, WithStatus, Members, IndInv, LengthsAgree, LengthOK
<1>2. Swap(S, target, "Running") /\ appending' = S
  BY <1>a, <1>b, <1>1, SwapNeverFails, SwapInFits DEF SwapIn
<1>3. target \in SUBSET free_blocks /\ target \subseteq GpuBlocks
  BY <1>b DEF FreeGpu
<1>4. "Running" \in Statuses
  BY DEF Statuses
<1>d. \A s \in S : GroupOf[s] = g /\ slot[s] = "none"
  BY <1>1
<1>5. /\ TablesDistinct' /\ RefCountsMatchTables' /\ FreeListExact'
      /\ SharedOnlyWithinGroup' /\ ExclusiveWriteSlot'
      /\ block_tables' \in [SeqIds -> Seq(Blocks)]
      /\ ref_count' \in [Blocks -> Nat]
      /\ free_blocks' \in SUBSET Blocks
      /\ status' \in [SeqIds -> Statuses]
      /\ UNCHANGED <<logical, last_fill, slot, err>>
  BY <1>1, <1>2, <1>3, <1>4, SwapStep
<1>e. /\ \A s \in S : status'[s] = "Running"
      /\ Takes(Cardinality(HeldBy(S)), target)
  BY <1>1, <1>2, <1>3, <1>4, <1>d, SwapTakes
<1>6. LengthsAgree' /\ TablesOnDevice'
  BY <1>1, <1>2, <1>3, SwapKeepsLengths
<1>7. TypeOK' /\ NoOperationFails'
  BY <1>1, <1>2, <1>5 DEF IndInv, TypeOK, NoOperationFails
<1>8. AppendFits'
  <2>a. PICK D : D = HeldBy(S)
    OBVIOUS
  <2>1. PICK R \in SUBSET target : /\ Cardinality(R) = Cardinality(D)
                                   /\ free_blocks \ R \subseteq free_blocks'
    BY <1>e, <2>a DEF Takes
  <2>2. S \subseteq Unfinished(g)
    BY <1>1 DEF Unfinished, Members
  <2>4. /\ Cardinality(D) <= Cardinality(GetPhysicalBlocks(g)) /\ Cardinality(D) \in Nat
        /\ Cardinality(GetPhysicalBlocks(g)) \in Nat
    BY <2>a, <2>2, MovedAreCounted
  <2>5. Cardinality(GetPhysicalBlocks(g)) + Cardinality(S) <= Cardinality(target)
    BY <1>a, <1>b DEF SwapIn, CanSwapIn
  <2>6. /\ IsFiniteSet(target) /\ Cardinality(target) \in Nat /\ Cardinality(S) \in Nat
        /\ IsFiniteSet(R)
    BY <1>1, <1>3, FiniteGpu, FiniteOwners
  <2>7. Cardinality(target \ R) = Cardinality(target) - Cardinality(R)
    <3>1. target \cap R = R
      OBVIOUS
    <3> QED BY <2>6, <3>1, FS_Difference
  <2>8. target \ R \in SUBSET FreeGpu' /\ IsFiniteSet(FreeGpu') /\ Cardinality(FreeGpu') \in Nat
    BY <1>3, <2>1, FiniteGpu DEF FreeGpu
  <2>9. Cardinality(target \ R) <= Cardinality(FreeGpu') /\ Cardinality(target \ R) \in Nat
    BY <2>8, FS_Subset, FS_CardinalityType
  <2>10. Cardinality(S) <= Cardinality(FreeGpu')
    BY <2>1, <2>4, <2>5, <2>6, <2>7, <2>8, <2>9
  <2> QED BY <1>1, <1>2, <1>5, <1>e, <2>10 DEF AppendFits
<1> QED BY <1>5, <1>6, <1>7, <1>8 DEF IndInv

-----------------------------------------------------------------------------
(* The inductive invariant is kept by every step. *)

LEMMA NextIndInv ==
    ASSUME BlockSlidingWindow = 0, IndInv, [Next]_vars
    PROVE  IndInv'
<1>1. CASE \E g \in Groups : GroupStep(g)
  <2>1. PICK g \in Groups : GroupStep(g)
    BY <1>1
  <2> QED
    BY <2>1, NewGroupStep, AllocateStep, StartAppendStep, SwapOutStep, SwapInStep DEF GroupStep
<1>2. CASE \E s \in SeqIds : SequenceStep(s)
  <2>1. PICK s \in SeqIds : SequenceStep(s)
    BY <1>2
  <2>2. CASE AppendSlots(s)
    BY <2>2, AppendSlotsStep
  <2>3. CASE AddTokenId(s)
    BY <2>3, AddTokenIdStep
  <2>4. CASE Abort(s)
    BY <2>4, FreeSequenceStep DEF Abort, Idle
  <2>5. CASE PreemptByRecompute(s)
    BY <2>5, FreeSequenceStep DEF PreemptByRecompute, Idle
  <2>6. CASE Finish(s)
    BY <2>6, FinishStep
  <2> QED BY <2>1, <2>2, <2>3, <2>4, <2>5, <2>6 DEF SequenceStep
<1>3. CASE \E p, c \in SeqIds : Fork(p, c)
  BY <1>3, ForkStep
<1>4. CASE Reset
  BY <1>4, ResetStep
<1>5. CASE UNCHANGED vars
  BY <1>5
  DEF vars, IndInv, TypeOK, TablesDistinct, RefCountsMatchTables, FreeListExact,
      SharedOnlyWithinGroup, TablesOnDevice, LengthsAgree, LengthOK, AppendFits,
      ExclusiveWriteSlot, NoOperationFails, Owners, FreeGpu
<1> QED BY <1>1, <1>2, <1>3, <1>4, <1>5 DEF Next

(* Without a sliding window, the inductive invariant holds in every state the
   scheduler's calls can bring the block manager to. *)
THEOREM Invariance ==
    ASSUME BlockSlidingWindow = 0
    PROVE  Spec => []IndInv
<1>1. Init => IndInv
  BY InitIndInv
<1>2. IndInv /\ [Next]_vars => IndInv'
  BY NextIndInv
<1> QED BY <1>1, <1>2, PTL DEF Spec

(* Every variable keeps its type; no reference count becomes negative. *)
THEOREM TypeCorrect ==
    ASSUME BlockSlidingWindow = 0
    PROVE  Spec => []TypeOK
<1>1. IndInv => TypeOK
  BY DEF IndInv
<1> QED BY <1>1, Invariance, PTL

(* A block's reference count is the number of tables that hold it. *)
THEOREM RefCountsCorrect ==
    ASSUME BlockSlidingWindow = 0
    PROVE  Spec => []RefCountsMatchTables
<1>1. IndInv => RefCountsMatchTables
  BY DEF IndInv
<1> QED BY <1>1, Invariance, PTL

(* A block is on the free list exactly when no table holds it: no block is
   handed out twice, freed twice or lost. *)
THEOREM FreeListCorrect ==
    ASSUME BlockSlidingWindow = 0
    PROVE  Spec => []FreeListExact
<1>1. IndInv => FreeListExact
  BY DEF IndInv
<1> QED BY <1>1, Invariance, PTL

(* can_allocate, can_append_slots, can_swap_in and can_swap_out are sufficient: no
   operation they admit runs out of blocks or frees a block twice. *)
THEOREM CapacityChecksSuffice ==
    ASSUME BlockSlidingWindow = 0
    PROVE  Spec => []NoOperationFails
<1>1. IndInv => NoOperationFails
  BY DEF IndInv
<1> QED BY <1>1, Invariance, PTL

(* Copy on write isolates: the block a decode step writes belongs to its
   sequence alone. *)
THEOREM WritesAreExclusive ==
    ASSUME BlockSlidingWindow = 0
    PROVE  Spec => []ExclusiveWriteSlot
<1>1. IndInv => ExclusiveWriteSlot
  BY DEF IndInv
<1> QED BY <1>1, Invariance, PTL

(* The assumption of get_physical_blocks: blocks are shared only within a
   group; and tables lie on the device their status says. *)
THEOREM SharingAndDevices ==
    ASSUME BlockSlidingWindow = 0
    PROVE  Spec => [](SharedOnlyWithinGroup /\ TablesOnDevice)
<1>1. IndInv => SharedOnlyWithinGroup /\ TablesOnDevice
  BY DEF IndInv
<1> QED BY <1>1, Invariance, PTL

(* What a swap does to the tables of S: one injective map moves every block *)
MovedBy(m, S, target) ==
    /\ m \in [HeldBy(S) -> target] /\ IsInjective(m)
    /\ \A s \in S : /\ Len(block_tables'[s]) = Len(block_tables[s])
                     /\ DOMAIN block_tables'[s] = DOMAIN block_tables[s]
                     /\ \A i \in DOMAIN block_tables[s] :
                            /\ block_tables[s][i] \in HeldBy(S)
                            /\ block_tables'[s][i] = m[block_tables[s][i]]

LEMMA SwapMoves ==
    ASSUME TypeOK, NEW S \in SUBSET SeqIds, NEW target \in SUBSET Blocks, NEW st, Swap(S, target, st)
    PROVE  \E m : MovedBy(m, S, target)
<1>1. PICK m \in Injection(HeldBy(S), target) : block_tables' = Moved(S, m)
  BY DEF Swap
<1>2. m \in [HeldBy(S) -> target] /\ IsInjective(m)
  BY <1>1 DEF Injection
<1>3. ASSUME NEW s \in S
      PROVE  /\ Len(block_tables'[s]) = Len(block_tables[s])
             /\ DOMAIN block_tables'[s] = DOMAIN block_tables[s]
             /\ \A i \in DOMAIN block_tables[s] : /\ block_tables[s][i] \in HeldBy(S)
                                                  /\ block_tables'[s][i] = m[block_tables[s][i]]
  <2>1. block_tables'[s] = [i \in DOMAIN block_tables[s] |-> m[block_tables[s][i]]]
    BY <1>1 DEF Moved
  <2>2. \A i \in DOMAIN block_tables[s] : block_tables[s][i] \in HeldBy(S)
    BY DEF HeldBy, Range
  <2>3. block_tables[s] \in Seq(Blocks)
    BY DEF TypeOK
  <2>4. DOMAIN block_tables[s] = 1..Len(block_tables[s]) /\ Len(block_tables[s]) \in Nat
    BY <2>3
  <2>5. block_tables'[s] \in [1..Len(block_tables[s]) -> target]
    BY <1>2, <2>1, <2>2, <2>4
  <2>6. Len(block_tables'[s]) = Len(block_tables[s])
    BY <2>4, <2>5
  <2> QED BY <2>1, <2>2, <2>6
<1> QED BY <1>2, <1>3 DEF MovedBy

(* A sequence goes from one device to the other by swap_out or swap_in only. *)
LEMMA OnlySwapsMove ==
    ASSUME IndInv, [Next]_vars, NEW s \in SeqIds, {status[s], status'[s]} = {"Running", "Swapped"}
    PROVE  \/ \E g \in Groups : SwapOut(g) /\ status[s] = "Running"
           \/ \E g \in Groups : SwapIn(g) /\ status[s] = "Swapped"
<1>1. \/ status[s] = "Running" /\ status'[s] = "Swapped"
      \/ status[s] = "Swapped" /\ status'[s] = "Running"
  OBVIOUS
<1>0. status \in [SeqIds -> Statuses]
  BY DEF IndInv, TypeOK
<1>2. ASSUME NEW g \in Groups, GroupStep(g)
      PROVE  \/ SwapOut(g) /\ status[s] = "Running"
             \/ SwapIn(g) /\ status[s] = "Swapped"
  <2>1. CASE NewGroup(g)
    BY <1>1, <2>1 DEF NewGroup
  <2>2. CASE Allocate(g)
    BY <1>1, <2>2, AllocateSucceeds DEF SetStatus, WithStatus
  <2>3. CASE StartAppend(g)
    BY <1>1, <2>3 DEF StartAppend
  <2>4. CASE SwapOut(g)
    BY <1>1, <2>4, SwapNeverFails DEF SwapOut, Swap, SetStatus, Fail
  <2>5. CASE SwapIn(g)
    BY <1>1, <2>5, SwapNeverFails DEF SwapIn, Swap, SetStatus, Fail
  <2> QED BY <1>2, <2>1, <2>2, <2>3, <2>4, <2>5 DEF GroupStep
<1>3. ASSUME NEW q \in SeqIds, SequenceStep(q) PROVE FALSE
  <2>1. CASE AppendSlots(q)
    <3>1. UNCHANGED status
      BY <2>1 DEF AppendSlots, Fail, PushBlock, CopyOnWrite, SlotReady
    <3> QED BY <1>1, <3>1
  <2>2. CASE AddTokenId(q) \/ Finish(q)
    BY <1>0, <1>1, <2>2 DEF AddTokenId, Finish
  <2>3. CASE Abort(q) \/ PreemptByRecompute(q)
    BY <1>0, <1>1, <2>3 DEF Abort, PreemptByRecompute, FreeSequence, Fail
  <2> QED BY <1>3, <2>1, <2>2, <2>3 DEF SequenceStep
<1>4. ASSUME NEW p \in SeqIds, NEW c \in SeqIds, Fork(p, c) PROVE FALSE
  BY <1>0, <1>1, <1>4 DEF Fork
<1>5. ASSUME Reset PROVE FALSE
  BY <1>1, <1>5 DEF Reset, Fail
<1>6. ASSUME UNCHANGED vars PROVE FALSE
  BY <1>1, <1>6 DEF vars
<1> QED BY <1>2, <1>3, <1>4, <1>5, <1>6 DEF Next

KeptSharing(s, t) ==
    /\ Len(block_tables'[s]) = Len(block_tables[s])
    /\ \A i \in DOMAIN block_tables[s], j \in DOMAIN block_tables[t] :
         (block_tables[s][i] = block_tables[t][j]) <=> (block_tables'[s][i] = block_tables'[t][j])

LEMMA MovedKeepsSharing ==
    ASSUME NEW m, NEW S, NEW target, MovedBy(m, S, target), NEW s \in S, NEW t \in S
    PROVE  KeptSharing(s, t)
BY DEF MovedBy, KeptSharing, IsInjective

(* Between two states of a swap: whoever moves, moves with the same map. *)
LEMMA SwapSharingStep ==
    ASSUME IndInv, [Next]_vars, NEW s \in SeqIds, NEW t \in SeqIds,
           {status[s], status'[s]} = {"Running", "Swapped"},
           {status[t], status'[t]} = {"Running", "Swapped"}
    PROVE  KeptSharing(s, t)
<1>0. TypeOK
  BY DEF IndInv
<1>1. ASSUME NEW g \in Groups, SwapOut(g), status[s] = "Running" PROVE KeptSharing(s, t)
  <2>1. PICK S : S = WithStatus(g, "Running")
    OBVIOUS
  <2>2. S \in SUBSET SeqIds /\ FreeCpu \in SUBSET Blocks
    BY <2>1 DEF WithStatus, Members, FreeCpu, Blocks
  <2>3. Swap(S, FreeCpu, "Swapped")
    BY <1>1, <2>1, <2>2, SwapNeverFails, SwapOutFits DEF SwapOut
  <2>4. s \in S /\ t \in S
    BY <2>3 DEF Swap, SetStatus
  <2>5. PICK m : MovedBy(m, S, FreeCpu)
    BY <1>0, <2>2, <2>3, SwapMoves
  <2> QED BY <2>4, <2>5, MovedKeepsSharing
<1>2. ASSUME NEW g \in Groups, SwapIn(g), status[s] = "Swapped" PROVE KeptSharing(s, t)
  <2>1. PICK S : S = WithStatus(g, "Swapped")
    OBVIOUS
  <2>2. S \in SUBSET SeqIds /\ FreeGpu \in SUBSET Blocks
    BY <2>1 DEF WithStatus, Members, FreeGpu, Blocks
  <2>3. Swap(S, FreeGpu, "Running")
    BY <1>2, <2>1, <2>2, SwapNeverFails, SwapInFits DEF SwapIn
  <2>4. s \in S /\ t \in S
    BY <2>3 DEF Swap, SetStatus
  <2>5. PICK m : MovedBy(m, S, FreeGpu)
    BY <1>0, <2>2, <2>3, SwapMoves
  <2> QED BY <2>4, <2>5, MovedKeepsSharing
<1> QED BY <1>1, <1>2, OnlySwapsMove

(* swap_out and swap_in keep the length of every table and which positions of
   which tables share a block: the map they build on the way gives a block met
   again the block it got first. *)
THEOREM SwapsKeepSharing ==
    ASSUME BlockSlidingWindow = 0
    PROVE  Spec => SwapKeepsSharing
<1>1. IndInv /\ [Next]_vars =>
        \A s, t \in SeqIds :
          /\ {status[s], status'[s]} = {"Running", "Swapped"}
          /\ {status[t], status'[t]} = {"Running", "Swapped"}
          => /\ Len(block_tables'[s]) = Len(block_tables[s])
             /\ \A i \in DOMAIN block_tables[s], j \in DOMAIN block_tables[t] :
                  (block_tables[s][i] = block_tables[t][j])
                    <=> (block_tables'[s][i] = block_tables'[t][j])
  BY SwapSharingStep DEF KeptSharing
<1> QED BY <1>1, Invariance, PTL DEF Spec, SwapKeepsSharing

(* A block with one owner has one reference. *)
LEMMA SoleOwner ==
    ASSUME IndInv, NEW b \in Blocks, NEW s, Owners(b) = {s}
    PROVE  ref_count[b] = 1
<1>1. ref_count[b] = Cardinality(Owners(b))
  BY DEF IndInv, RefCountsMatchTables
<1>2. Cardinality({s}) = 1
  BY FS_Singleton
<1> QED BY <1>1, <1>2

=============================================================================
