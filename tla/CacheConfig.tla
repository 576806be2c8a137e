---------------------------- MODULE CacheConfig ----------------------------
(* The field of `CacheConfig` that the block manager and the kernels share. *)

CONSTANT BlockSize  \* tokens per block

=============================================================================
