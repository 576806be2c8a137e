---------------------------- MODULE MCLlmService ----------------------------
(* Small instances of LlmService. *)
EXTENDS LlmService

CONSTANTS R, LeavingRequests, FailingRanks, Limit

MCRequests == 1..R

MCLeaving == {r \in 1..R : r <= LeavingRequests}

MCFailing == {i \in 0..(NumRanks - 1) : i < FailingRanks}

Plain == [stream |-> FALSE, prompt |-> <<"p">>, temperature |-> NoValue,
          presence_penalty |-> NoValue, frequency_penalty |-> NoValue, top_p |-> NoValue,
          max_completion_tokens |-> Limit, stop |-> <<>>]

Stream == [Plain EXCEPT !.stream = TRUE, !.max_completion_tokens = 2]

(* The first request is a stream of two tokens, or is rejected for its empty
   prompt; the others are completions, streams that take all the room their
   prompt leaves and have a stop sequence, streams that ask for too much,
   completions whose prompt leaves no room, or ones that ask for so much that
   the sum wraps *)
MCBodies == [r \in 1..R |->
    IF r = 1 THEN {Stream, [Plain EXCEPT !.prompt = <<>>]}
    ELSE {Plain,
          [Stream EXCEPT !.prompt = <<"p", "p">>, !.max_completion_tokens = NoValue,
                         !.stop = <<<<"token">>>>],
          [Stream EXCEPT !.max_completion_tokens = MaxTotalTokens],
          [Plain EXCEPT !.prompt = <<"p", "p", "p">>, !.max_completion_tokens = NoValue],
          [Plain EXCEPT !.prompt = <<"p", "p", "p">>, !.max_completion_tokens = U32 - 1]}]

=============================================================================
