SPECIFICATION Spec
CONSTANTS
  g1 = g1
  g2 = g2
  g3 = g3
  g4 = g4
  c1 = c1
  c2 = c2
  c3 = c3
  s1 = s1
  s2 = s2
  s3 = s3
  A = A
  B = B
  GpuBlocks <- MCGpuBlocks
  CpuBlocks <- MCCpuBlocks
  SeqIds <- MCSeqIds
  Groups <- MCGroups
  GroupOf <- MCGroupOf
  BlockSize = 2
  MaxLogicalBlocks = 3
  BlockSlidingWindow = 0
SYMMETRY MCSymmetry
INVARIANTS
  RefCountsMatchTables
  FreeListExact
  SharedOnlyWithinGroup
  ExclusiveWriteSlot
  NoOperationFails
  IndInv
PROPERTIES
  SwapKeepsSharing
