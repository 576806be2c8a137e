SPECIFICATION PagedSpec
CONSTANTS
  g1 = g1
  g2 = g2
  g3 = g3
  g4 = g4
  c1 = c1
  c2 = c2
  s1 = s1
  s2 = s2
  s3 = s3
  A = A
  B = B
  GpuBlocks <- MCGpuBlocks
  CpuBlocks <- MCCpuBlocks
  SeqIds <- MCSeqIds
  Groups <- MCGroups
  GroupOf <- MCGroupOf
  BlockSize = 2
  MaxLogicalBlocks = 2
  BlockSlidingWindow = 0
  PageMultiple = 2
  NumHeads = 2
  NumKvHeads = 1
  KeyBlock = 1
  NumSms = 12
  MinPromptTokens = 2
  Repaired = {}
VIEW MCView
SYMMETRY MCSymmetry
INVARIANT ReadsBack
CHECK_DEADLOCK FALSE
