------------------------------- MODULE KvCache -------------------------------
(***************************************************************************)
(* What a KV cache promises, whatever its blocks, devices and batches:     *)
(* each sequence reads back the keys and values of its own tokens, and the *)
(* model's answer for it depends on its own text alone.                    *)
(***************************************************************************)
EXTENDS Naturals, Sequences

CONSTANT SeqIds

VARIABLES
    text,   \* the tokens of each sequence
    known,  \* the tokens whose keys and values each sequence reads back
    answer  \* the text the model answered, <<>> when none is pending

kv_vars == <<text, known, answer>>

Nothing == [s \in SeqIds |-> <<>>]

Init ==
    /\ text = Nothing
    /\ known = Nothing
    /\ answer = Nothing

(* New sequences get their prompts. *)
Arrive ==
    /\ \A s \in SeqIds : text[s] # <<>> => text'[s] = text[s]
    /\ UNCHANGED <<known, answer>>

(* The model computes the rest of the text of some sequences. *)
Compute ==
    \E S \in SUBSET SeqIds :
        /\ \A s \in S : Len(known[s]) < Len(text[s])
        /\ known' = [s \in SeqIds |-> IF s \in S THEN text[s] ELSE known[s]]
        /\ answer' = [s \in SeqIds |-> IF s \in S THEN text[s] ELSE answer[s]]
        /\ UNCHANGED text

(* The answer for s is processed, and may add a token. *)
Process(s) ==
    /\ answer[s] # <<>>
    /\ answer' = [answer EXCEPT ![s] = <<>>]
    /\ \/ \E t \in SeqIds : text' = [text EXCEPT ![s] = Append(@, t)]
       \/ UNCHANGED text
    /\ UNCHANGED known

(* c continues the text of p. *)
Branch(p, c) ==
    /\ text' = [text EXCEPT ![c] = text[p]]
    /\ known' = [known EXCEPT ![c] = known[p]]
    /\ UNCHANGED answer

(* The cache of s is given up; its text may be computed again. *)
Forget(s) ==
    /\ known' = [known EXCEPT ![s] = <<>>]
    /\ UNCHANGED <<text, answer>>

(* s ended. *)
End(s) ==
    /\ known' = [known EXCEPT ![s] = <<>>]
    /\ text' = [text EXCEPT ![s] = <<>>]
    /\ UNCHANGED answer

ForgetAll ==
    /\ known' = Nothing
    /\ text' = Nothing
    /\ UNCHANGED answer

Next ==
    \/ Arrive \/ Compute \/ ForgetAll
    \/ \E s \in SeqIds : Process(s) \/ Forget(s) \/ End(s)
    \/ \E p, c \in SeqIds : Branch(p, c)

Spec == Init /\ [][Next]_kv_vars

=============================================================================
