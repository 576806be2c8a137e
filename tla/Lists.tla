------------------------------- MODULE Lists -------------------------------
(***************************************************************************)
(* The filter of the queues and batches of requests, as a recursive        *)
(* function: the prover has no definition of SelectSeq, and takes no       *)
(* operator as the argument of a lemma.                                    *)
(***************************************************************************)
EXTENDS Naturals, Sequences

(* The members of q that are in S, in their order: `iter().filter(..)`,
   `retain` *)
Keep(q, S) ==
    LET kept[n \in 0..Len(q)] ==
            IF n = 0 THEN <<>>
            ELSE IF q[n] \in S THEN Append(kept[n - 1], q[n]) ELSE kept[n - 1]
    IN  kept[Len(q)]

=============================================================================
