----------------------- MODULE MCBlockSpaceManager -----------------------
(* A small instance of BlockSpaceManager: a group of up to two sequences and
   a group of one. *)
EXTENDS BlockSpaceManager, TLC

CONSTANTS g1, g2, g3, g4, c1, c2, c3, s1, s2, s3, A, B

MCGpuBlocks == {g1, g2, g3, g4}
MCCpuBlocks == {c1, c2, c3}
MCSeqIds == {s1, s2, s3}
MCGroups == {A, B}
MCGroupOf == (s1 :> A) @@ (s2 :> A) @@ (s3 :> B)

MCSymmetry ==
    Permutations(MCGpuBlocks) \cup Permutations(MCCpuBlocks) \cup Permutations({s1, s2})
=============================================================================
