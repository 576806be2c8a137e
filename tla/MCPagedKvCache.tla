--------------------------- MODULE MCPagedKvCache ---------------------------
(* A small instance of PagedKvCache: a group of up to two sequences and a
   group of one. *)
EXTENDS PagedKvCache, TLC

CONSTANTS g1, g2, g3, g4, c1, c2, s1, s2, s3, A, B

MCGpuBlocks == {g1, g2, g3, g4}
MCCpuBlocks == {c1, c2}
MCSeqIds == {s1, s2, s3}
MCGroups == {A, B}
MCGroupOf == (s1 :> A) @@ (s2 :> A) @@ (s3 :> B)

(* How long a finished sequence was is never read again. *)
MCView ==
    <<[s \in SeqIds |-> IF status[s] = "Finished" THEN 0 ELSE Length(s)],
      status, block_tables, ref_count, free_blocks, appending, slot, err, worker_vars>>

MCSymmetry ==
    Permutations(MCGpuBlocks) \cup Permutations(MCCpuBlocks) \cup Permutations({s1, s2})
=============================================================================
