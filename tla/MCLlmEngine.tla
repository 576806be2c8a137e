---------------------------- MODULE MCLlmEngine ----------------------------
(* Small instances of LlmEngine. *)
EXTENDS LlmEngine

CONSTANTS N, LastBestOf, NumStreaming

MCRequests == 1..N

MCBestOf == [r \in 1..N |-> IF r > N - LastBestOf THEN 2 ELSE 1]

MCSequenceId == [r \in 1..N |-> r]

(* The first requests stream their answers *)
MCStreaming == 1..NumStreaming

=============================================================================
