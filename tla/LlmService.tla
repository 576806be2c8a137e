----------------------------- MODULE LlmService -----------------------------
(***************************************************************************)
(* The program around the engine: the HTTP handlers and the Streamer, the  *)
(* service task with its validation and tokenizer, the start-up over the   *)
(* model threads, and the shutdown.  Each client, each task and each       *)
(* thread takes its own steps; they share only channels.                   *)
(*                                                                         *)
(* The engine appears with its response channels and what update_sequence  *)
(* sends on them; its scheduler is reduced to the default policy with a    *)
(* KV cache that holds every request (LlmEngine has the rest).             *)
(*                                                                         *)
(* A text is a sequence of pieces, one for each token.                     *)
(***************************************************************************)
EXTENDS ModelThreads, Integers, Functions, Lists

CONSTANTS
    Requests,        \* the HTTP requests
    Bodies,          \* the request bodies the client of each request may send
    Workers,         \* num_tokenizer_workers
    MaxInputLength, MaxTotalTokens, MaxStopSequences,   \* ValidationConfig
    MaxModelLen,     \* SchedulerConfig
    U32,             \* 2^32, or a small stand-in: tokens are summed modulo it
    MayLeave,        \* clients that may close their connection
    NoValue          \* a parameter left out, and nobody

ASSUME ServiceAssumption ==
    /\ Workers \in Nat \ {0}
    /\ MaxStopSequences \in Nat /\ U32 \in Nat
    /\ {MaxInputLength, MaxTotalTokens, MaxModelLen} \subseteq 1..(U32 - 1)
    /\ MayLeave \subseteq Requests
    /\ IsFiniteSet(Requests) /\ NoValue \notin Requests

(* The prompt as the pieces of its tokens, and a u32 *)
ASSUME BodiesAssumption ==
    \A r \in Requests : \A b \in Bodies[r] :
        /\ b.stream \in BOOLEAN
        /\ b.prompt \in Seq(STRING)
        /\ b.max_completion_tokens \in 0..(U32 - 1) \cup {NoValue}

VARIABLES
    conn,       \* the connection of each request, as its client sees it
    body,       \* the body it sent
    id,         \* the request id: the value request_counter had
    counter,    \* request_counter of AppState
    server,     \* run_server
    shutdown,   \* the shutdown channel holds a signal
    service,    \* the service task
    inbox,      \* the channel of ServiceRequests
    current,    \* the request handle_request works on
    encode,     \* where the EncodeTokenizerRequest of current is
    turn,       \* the worker round_robin_task sends to next
    tokenizers, \* round_robin_task and the workers run
    engine,     \* the engine task
    requests,   \* the channel of EngineRequests
    active,     \* the requests the scheduler holds
    senders,    \* response_senders and response_streaming_senders: id to request
    batch,      \* the requests of the batch in flight
    todo,       \* requests of that batch whose output is still to process
    finished,   \* request_outputs still to send
    tokens,     \* the tokens generated for each request
    text,       \* output_text of its sequence
    stopped,    \* its sequence has finished
    channel,    \* the response channel of each request
    stream,     \* StreamStatus
    wake,       \* what polls the stream again
    got         \* what the client has received

http == <<conn, body, id, counter, server, shutdown>>
serving == <<service, inbox, current, encode, turn, tokenizers>>
engineTask == <<engine, requests, active, senders, batch, todo, finished>>
sequences == <<tokens, text, stopped>>
responses == <<channel, stream, wake, got>>

allVars == <<ranks, http, serving, engineTask, sequences, responses>>

NotEncoding == [at |-> "none", worker |-> 0]

(* service::start has made the channels of the ranks and waits for the first *)
ServiceInit ==
    /\ RanksInit
    /\ conn = [r \in Requests |-> "new"] /\ body = [r \in Requests |-> NoValue]
    /\ id = [r \in Requests |-> 0] /\ counter = 0
    /\ server = "starting" /\ shutdown = FALSE
    /\ service = "starting" /\ inbox = <<>> /\ current = NoValue
    /\ encode = NotEncoding /\ turn = 1 /\ tokenizers = FALSE
    /\ engine = "none" /\ requests = <<>> /\ active = <<>> /\ senders = <<>>
    /\ batch = <<>> /\ todo = <<>> /\ finished = <<>>
    /\ tokens = [r \in Requests |-> <<>>] /\ text = [r \in Requests |-> <<>>]
    /\ stopped = [r \in Requests |-> FALSE]
    /\ channel = [r \in Requests |-> <<>>] /\ got = [r \in Requests |-> <<>>]
    /\ stream = [r \in Requests |-> "NotStarted"]
    /\ wake = [r \in Requests |-> "never"]

(* Somebody still holds the sending half of r's response channel *)
SenderAlive(r) ==
    r \in Range(inbox) \cup {current} \cup Range(requests)
          \cup {senders[k] : k \in DOMAIN senders}

ServiceUp == service \in {"select", "tokenizing"}

-----------------------------------------------------------------------------
(* LlmService::start: steps 5 to 7 and the tasks it spawns *)

LoadedAll == \A i \in Ranks : rank[i] = "loaded"

Start ==
    /\ service = "starting" /\ LoadedAll
    /\ config' = "sent"
    /\ service' = "select" /\ server' = "serving" /\ engine' = "up"
    /\ tokenizers' = TRUE
    /\ UNCHANGED <<rank, commands, position, sent, reply, conn, body, id, counter, shutdown,
                   inbox, current, encode, turn, requests, active, senders, batch, todo,
                   finished, sequences, responses>>

(* start returns an error or panics, and main ends with it; the dispatcher is
   dropped with what start had made *)
NotStarted ==
    /\ service' = "not_started" /\ server' = "done"
    /\ UNCHANGED <<rank, commands, position, sent, reply, conn, body, id, counter, shutdown,
                   inbox, current, encode, turn, tokenizers, engineTask, sequences, responses>>

(* The signals of the loading threads are awaited in the order of the ranks:
   expect panics on the first that was dropped *)
StartPanics ==
    /\ service = "starting"
    /\ \E i \in Ranks :
        rank[i] = "not_loaded" /\ \A j \in Ranks : j < i => rank[j] = "loaded"
    /\ config' = "closed"
    /\ NotStarted

(* The cache's or the scheduler's configuration is refused before they are sent
   to the threads, or Scheduler::new fails after that *)
StartFails ==
    /\ service = "starting" /\ LoadedAll
    /\ config' \in {"closed", "sent"}
    /\ NotStarted

-----------------------------------------------------------------------------
(* completion_handler *)

RequestId_Read == counter' = counter

RequestId == counter' = counter + 1

(* fetch_add on the counter, the channel for the response, and the send to the
   service.  A send to a service that has ended is an internal server error. *)
CompletionHandler(r) ==
    /\ server = "serving" /\ conn[r] = "new"
    /\ \E b \in Bodies[r] : body' = [body EXCEPT ![r] = b]
    /\ id' = [id EXCEPT ![r] = counter]
    /\ RequestId
    /\ conn' = [conn EXCEPT ![r] = IF ServiceUp THEN "open" ELSE "error"]
    /\ inbox' = IF ServiceUp THEN Append(inbox, r) ELSE inbox
    /\ wake' = [wake EXCEPT ![r] = IF body'[r].stream THEN "now" ELSE "never"]
    /\ UNCHANGED <<ranks, server, shutdown, service, current, encode, turn, tokenizers,
                   engineTask, sequences, channel, stream, got>>

(* The receiver is dropped with what its channel holds, and nothing polls it *)
DropReceiver(r) ==
    /\ channel' = [channel EXCEPT ![r] = <<>>]
    /\ wake' = [wake EXCEPT ![r] = "never"]

(* handle_generate_request: the awaited one-shot yields the output, or an error
   when its sender is gone *)
HandleResponse(r) ==
    /\ conn[r] = "open" /\ ~body[r].stream
    /\ \/ /\ channel[r] # <<>>
          /\ got' = [got EXCEPT ![r] = channel[r]]
          /\ conn' = [conn EXCEPT ![r] = "ok"]
          /\ DropReceiver(r)
       \/ /\ channel[r] = <<>> /\ ~SenderAlive(r)
          /\ conn' = [conn EXCEPT ![r] = "error"]
          /\ UNCHANGED <<got, channel, wake>>
    /\ UNCHANGED <<ranks, body, id, counter, server, shutdown, serving, engineTask,
                   sequences, stream>>

(* The client closes the connection: the handler, its receiver or the Streamer
   is dropped *)
ClientLeaves(r) ==
    /\ r \in MayLeave /\ conn[r] = "open"
    /\ conn' = [conn EXCEPT ![r] = "left"]
    /\ DropReceiver(r)
    /\ UNCHANGED <<ranks, body, id, counter, server, shutdown, serving, engineTask,
                   sequences, stream, got>>

-----------------------------------------------------------------------------
(* Streamer::poll_next.  It ignores its context, so after Pending only the
   timer of the keep-alive polls the stream again; after an event the
   connection polls at once. *)

AfterPending_NoKeepAlive == "never"

AfterPending == "timer"

Event(r) ==
    /\ channel[r] # <<>>
    /\ channel' = [channel EXCEPT ![r] = Tail(@)]
    /\ got' = [got EXCEPT ![r] = Append(@, Head(channel[r]))]
    /\ stream' = [stream EXCEPT ![r] =
                     IF Head(channel[r]).kind = "Finished" THEN "Completed" ELSE "Started"]
    /\ wake' = [wake EXCEPT ![r] = "now"]
    /\ UNCHANGED conn

Interrupted(r) == stream[r] = "Started" /\ ~SenderAlive(r)

PollNext(r) ==
    /\ conn[r] = "open" /\ body[r].stream /\ wake[r] # "never"
    /\ IF stream[r] = "Completed"
       THEN /\ conn' = [conn EXCEPT ![r] = "ok"]
            /\ DropReceiver(r) /\ UNCHANGED <<got, stream>>
       ELSE \/ Event(r)
            \/ /\ channel[r] = <<>>
               /\ IF Interrupted(r)
                  THEN /\ stream' = [stream EXCEPT ![r] = "Interrupted"]
                       /\ conn' = [conn EXCEPT ![r] = "interrupted"]
                       /\ DropReceiver(r)
                  ELSE /\ wake' = [wake EXCEPT ![r] = AfterPending]
                       /\ UNCHANGED <<stream, conn, channel>>
               /\ UNCHANGED got
    /\ UNCHANGED <<ranks, body, id, counter, server, shutdown, serving, engineTask, sequences>>

-----------------------------------------------------------------------------
(* The service task *)

(* Validation::validate, before the tokenizer is asked.  Of the parameters that
   to_generate_request always leaves out (best_of, top_k, typical_p, truncate,
   top_n_tokens) none can fail; numbers are in tenths. *)
Or(v, default) == IF v = NoValue THEN default ELSE v

ParametersRejected(b) ==
    \/ Or(b.temperature, 10) <= 0
    \/ Or(b.presence_penalty, 10) <= 0
    \/ Or(b.frequency_penalty, 0) \notin -20..20
    \/ b.top_p # NoValue /\ (b.top_p <= 0 \/ b.top_p >= 10)
    \/ b.max_completion_tokens = 0
    \/ Len(b.stop) > MaxStopSequences
    \/ b.prompt = <<>>

(* Tokenizer::encode adds the begin-of-sequence token *)
Encode(b) == <<"bos">> \o b.prompt

(* Validation::validate_input *)
MaxNewTokens(b) ==
    LET room == IF Len(Encode(b)) > MaxTotalTokens THEN 0 ELSE MaxTotalTokens - Len(Encode(b))
    IN  Or(b.max_completion_tokens, room)

InputRejected_InputOnly(b) == Len(Encode(b)) > MaxInputLength

InputRejected(b) ==
    \/ (Len(Encode(b)) + MaxNewTokens(b)) % U32 > MaxTotalTokens
    \/ Len(Encode(b)) > MaxInputLength

(* A request is received; unless it is rejected at once its text goes to the
   tokenizer.  A rejected request is dropped with its response sender. *)
ReceiveRequest ==
    /\ service = "select" /\ inbox # <<>>
    /\ inbox' = Tail(inbox)
    /\ IF ParametersRejected(body[Head(inbox)])
       THEN UNCHANGED <<service, current, encode>>
       ELSE /\ service' = "tokenizing"
            /\ current' = Head(inbox)
            /\ encode' = [at |-> "queue", worker |-> 0]
    /\ UNCHANGED <<ranks, http, turn, tokenizers, engineTask, sequences, responses>>

(* The workers take turns *)
NextWorker_Once == turn + 1

NextWorker == (turn % Workers) + 1

(* round_robin_task hands the request to the worker whose turn it is *)
RoundRobin ==
    /\ tokenizers /\ encode.at = "queue"
    /\ encode' = [at |-> "worker", worker |-> turn]
    /\ turn' = NextWorker
    /\ UNCHANGED <<ranks, http, service, inbox, current, tokenizers, engineTask,
                   sequences, responses>>

(* start_tokenizer_task encodes the text and answers *)
TokenizerWorker(w) ==
    /\ tokenizers /\ encode = [at |-> "worker", worker |-> w]
    /\ encode' = [encode EXCEPT !.at = "done"]
    /\ UNCHANGED <<ranks, http, service, inbox, current, turn, tokenizers, engineTask,
                   sequences, responses>>

(* Dropping the service drops what its channels hold *)
ServiceEnds(how) ==
    /\ service' = how
    /\ inbox' = <<>> /\ current' = NoValue /\ encode' = NotEncoding

(* The encoding arrives: the request is rejected, or a sequence group is made
   and sent to the engine.  The service ends when the engine has ended. *)
Forward ==
    /\ service = "tokenizing" /\ encode.at = "done"
    /\ IF InputRejected(body[current]) \/ engine = "up"
       THEN service' = "select" /\ current' = NoValue /\ encode' = NotEncoding /\ UNCHANGED inbox
       ELSE ServiceEnds("failed")
    /\ requests' = IF InputRejected(body[current]) \/ engine # "up" THEN requests
                   ELSE Append(requests, current)
    /\ UNCHANGED <<ranks, http, turn, tokenizers, engine, active, senders, batch, todo,
                   finished, sequences, responses>>

-----------------------------------------------------------------------------
(* The engine task *)

(* The engine waits in select!; it cannot be aborted elsewhere *)
AtSelect ==
    /\ engine = "up" /\ todo = <<>> /\ finished = <<>>
    /\ batch = <<>> \/ reply # "none"

EngineEnds(how) ==
    /\ engine' = how
    /\ requests' = <<>> /\ active' = <<>> /\ senders' = <<>>
    /\ batch' = <<>> /\ todo' = <<>> /\ finished' = <<>>

(* What the default policy schedules: the prompts that have not been computed,
   otherwise every running request *)
Scheduled(rs) ==
    LET prompts == Keep(rs, {r \in Requests : tokens[r] = <<>>})
    IN  IF prompts # <<>> THEN prompts ELSE rs

Register(r) == [k \in DOMAIN senders \cup {id[r]} |-> IF k = id[r] THEN r ELSE senders[k]]

(* A request arrives; it is scheduled at once when no batch is in flight *)
StepsAtOnce_Always == TRUE

StepsAtOnce == batch = <<>>

EngineReceives ==
    /\ AtSelect /\ requests # <<>>
    /\ requests' = Tail(requests)
    /\ active' = Append(active, Head(requests))
    /\ senders' = Register(Head(requests))
    /\ IF StepsAtOnce /\ sent < MaxBatches
       THEN batch' = Scheduled(active') /\ Send
       ELSE UNCHANGED <<batch, ranks>>
    /\ UNCHANGED <<http, serving, engine, todo, finished, sequences, responses>>

(* The reply of rank 0 arrives *)
ReceiveOutputs ==
    /\ AtSelect /\ reply = "outputs"
    /\ reply' = "none"
    /\ todo' = batch
    /\ UNCHANGED <<rank, commands, position, config, sent, http, serving, engine, requests,
                   active, senders, batch, finished, sequences, responses>>

(* The requests that came after the batch in flight was scheduled *)
Arrived ==
    Keep(active, {r \in Requests :
        \A i, j \in DOMAIN active :
            active[i] = r /\ active[j] \in Range(batch) => i > j})

(* The reply channel was closed: the engine schedules again.  The scheduler
   takes the prompts that have arrived; without any it finds the running
   groups, and returns an error when the prompt of one was never computed. *)
ReceiveClosed ==
    /\ AtSelect /\ reply = "closed"
    /\ IF Arrived = <<>> /\ \E r \in Range(active) : tokens[r] = <<>>
       THEN /\ EngineEnds("failed") /\ reply' = "none"
            /\ UNCHANGED <<rank, commands, position, config, sent>>
       ELSE /\ sent < MaxBatches /\ Send
            /\ batch' = IF Arrived # <<>> THEN Arrived ELSE batch
            /\ UNCHANGED <<engine, requests, active, senders, todo, finished>>
    /\ UNCHANGED <<http, serving, sequences, responses>>

(* update_sequence: the new text is what the whole decoded text has beyond the
   prompt, for the first token, and beyond output_text for the others *)
Decode(ids) == SelectSeq(ids, LAMBDA t : t # "bos" /\ t # "eos")

Beyond(s, n) == SubSeq(s, n + 1, Len(s))

GeneratedText(r, ids) ==
    IF tokens[r] # <<>> THEN Beyond(Decode(ids), Len(text[r]))
    ELSE Beyond(Decode(ids), Len(body[r].prompt))

(* The reasons to finish, each of which sends one Finished to a stream *)
FinishReasons(r, t, ids) ==
    {reason \in {"stop", "eos", "model_len", "max_new_tokens"} :
        \/ reason = "stop" /\ GeneratedText(r, ids) \in Range(body[r].stop)
        \/ reason = "eos" /\ t = "eos"
        \/ reason = "model_len" /\ Len(ids) > MaxModelLen
        \/ reason = "max_new_tokens" /\ Len(tokens[r]) + 1 >= MaxNewTokens(body[r])}

(* What one output sends to a streaming client: the text so far, then the ends *)
Messages(r, ids, reasons) ==
    <<[kind |-> "Chunk", text |-> Decode(ids)]>>
        \o [k \in 1..Cardinality(reasons) |-> [kind |-> "Finished"]]

(* A send fails when the receiver is gone: the client has left, or the stream
   completed with a first Finished before a second was sent *)
MayFailToSend(r, reasons) ==
    conn[r] # "open" \/ Cardinality(reasons) > 1

UpdateSequence ==
    /\ engine = "up" /\ todo # <<>>
    /\ \E t \in {"token", "eos"} :
        LET r == Head(todo)
            ids == Encode(body[r]) \o tokens[r] \o <<t>>
            reasons == FinishReasons(r, t, ids)
        IN  \/ /\ body[r].stream => conn[r] = "open"
               /\ tokens' = [tokens EXCEPT ![r] = Append(@, t)]
               /\ text' = [text EXCEPT ![r] = @ \o GeneratedText(r, ids)]
               /\ stopped' = [stopped EXCEPT ![r] = reasons # {}]
               /\ channel' = IF body[r].stream
                             THEN [channel EXCEPT ![r] = @ \o Messages(r, ids, reasons)]
                             ELSE channel
               /\ todo' = Tail(todo)
               /\ UNCHANGED <<engine, requests, active, senders, batch, finished>>
            \/ /\ body[r].stream /\ MayFailToSend(r, reasons)
               /\ channel' = IF conn[r] = "open"
                             THEN [channel EXCEPT ![r] = @ \o Messages(r, ids, {"first"})]
                             ELSE channel
               /\ tokens' = [tokens EXCEPT ![r] = Append(@, t)]
               /\ stopped' = [stopped EXCEPT ![r] = conn[r] = "open"]
               /\ EngineEnds("failed")
               /\ UNCHANGED text
    /\ UNCHANGED <<ranks, http, serving, stream, wake, got>>

(* remove_finished_sequences, the list of outputs, and the next step: the next
   batch is sent before the outputs are *)
Remaining_All(rs) == rs

Remaining(rs) == Keep(rs, {r \in Requests : ~stopped[r]})

Step ==
    /\ engine = "up" /\ batch # <<>> /\ reply = "none"
    /\ todo = <<>> /\ finished = <<>>
    /\ active' = Remaining(active)
    /\ finished' = Keep(batch, {r \in Requests : stopped[r]})
    /\ IF active' # <<>> /\ sent < MaxBatches
       THEN batch' = Scheduled(active') /\ Send
       ELSE batch' = <<>> /\ UNCHANGED ranks
    /\ UNCHANGED <<http, serving, engine, requests, senders, todo, sequences, responses>>

(* from_sequence_group, and the one-shot send.  The sender of a stream stays in
   its map. *)
Output(r) == [ids |-> Encode(body[r]) \o tokens[r], text |-> text[r], id |-> id[r]]

SendOutput ==
    /\ engine = "up" /\ finished # <<>>
    /\ LET r == Head(finished)
           to == IF id[r] \in DOMAIN senders THEN senders[id[r]] ELSE NoValue
           answers == to # NoValue /\ ~body[to].stream
       IN  IF answers /\ conn[to] # "open"
           THEN EngineEnds("failed") /\ UNCHANGED channel
           ELSE /\ channel' = IF answers THEN [channel EXCEPT ![to] = <<Output(r)>>] ELSE channel
                /\ senders' = IF answers THEN [k \in DOMAIN senders \ {id[r]} |-> senders[k]]
                              ELSE senders
                /\ finished' = Tail(finished)
                /\ UNCHANGED <<engine, requests, active, batch, todo>>
    /\ UNCHANGED <<ranks, http, serving, sequences, stream, wake, got>>

-----------------------------------------------------------------------------
(* Shutdown *)

CtrlC ==
    /\ server = "serving"
    /\ server' = "draining"
    /\ UNCHANGED <<ranks, conn, body, id, counter, shutdown, serving, engineTask, sequences,
                   responses>>

(* axum::serve returns when no connection is open; then the signal is sent, and
   without a service to receive it run_server returns its error *)
Drained_AtOnce == TRUE

Drained == \A r \in Requests : conn[r] # "open"

SendShutdown ==
    /\ server = "draining" /\ Drained
    /\ IF ServiceUp THEN server' = "joining" /\ shutdown' = TRUE
                    ELSE server' = "done" /\ UNCHANGED shutdown
    /\ UNCHANGED <<ranks, conn, body, id, counter, serving, engineTask, sequences, responses>>

(* LlmService::stop: the engine is aborted at its next await and awaited, then
   everything the service owns is dropped *)
Stop ==
    /\ service = "select" /\ shutdown
    /\ shutdown' = FALSE
    /\ engine = "up" => AtSelect
    /\ ServiceEnds("stopped")
    /\ IF engine = "up" THEN EngineEnds("aborted") ELSE UNCHANGED engineTask
    /\ UNCHANGED <<ranks, conn, body, id, counter, server, turn, tokenizers, sequences, responses>>

(* The join handle is ready, or 30 seconds have passed *)
Join ==
    /\ server = "joining"
    /\ server' = "done"
    /\ UNCHANGED <<ranks, conn, body, id, counter, shutdown, serving, engineTask, sequences,
                   responses>>

(* main returns: the runtime drops the tasks that still run *)
DropRuntime ==
    /\ server = "done"
    /\ ServiceUp \/ engine = "up"
    /\ engine = "up" => AtSelect
    /\ IF ServiceUp THEN ServiceEnds("cancelled")
                    ELSE UNCHANGED <<service, inbox, current, encode>>
    /\ IF engine = "up" THEN EngineEnds("aborted") ELSE UNCHANGED engineTask
    /\ UNCHANGED <<ranks, http, turn, tokenizers, sequences, responses>>

(* The tokenizer's channel is closed with the service: the round robin ends and
   drops the channels of the workers, which end *)
TokenizersEnd ==
    /\ tokenizers /\ ~ServiceUp
    /\ tokenizers' = FALSE
    /\ UNCHANGED <<ranks, http, service, inbox, current, encode, turn, engineTask, sequences,
                   responses>>

-----------------------------------------------------------------------------

DispatcherDropped_IfFailed == engine = "failed" \/ service = "not_started"

DispatcherDropped == engine \in {"failed", "aborted"} \/ service = "not_started"

Alone == UNCHANGED <<http, serving, engineTask, sequences, responses>>

Thread(i) == RankStep(i, DispatcherDropped) /\ Alone

Failure(i) == RankFails(i) /\ Alone

Together == (JoinCommunicator \/ AllReduce) /\ Alone

Service == Start \/ StartPanics \/ StartFails \/ ReceiveRequest \/ Forward \/ Stop

Engine ==
    EngineReceives \/ ReceiveOutputs \/ ReceiveClosed \/ UpdateSequence \/ Step \/ SendOutput

Server == SendShutdown \/ Join \/ DropRuntime

Handler(r) == HandleResponse(r) \/ PollNext(r)

Tokenizer == RoundRobin \/ (\E w \in 1..Workers : TokenizerWorker(w))
             \/ TokenizersEnd

ServiceNext ==
    \/ \E r \in Requests : CompletionHandler(r) \/ ClientLeaves(r) \/ Handler(r)
    \/ \E i \in Ranks : Thread(i) \/ Failure(i)
    \/ Service \/ Tokenizer \/ Engine \/ Together \/ CtrlC \/ Server

(* The runtime polls every task, the threads run, and the keep-alive timer
   fires; clients need not send, leave or press Ctrl-C, and no rank need fail *)
ServiceSpec ==
    /\ ServiceInit /\ [][ServiceNext]_allVars
    /\ \A r \in Requests : WF_allVars(Handler(r))
    /\ WF_allVars(Service) /\ WF_allVars(Tokenizer) /\ WF_allVars(Engine)
    /\ WF_allVars(Server) /\ WF_allVars(Together)
    /\ \A i \in Ranks : WF_allVars(Thread(i))

-----------------------------------------------------------------------------
(* Properties *)

(* Every variable has its type; the tokenizer works for the current request
   only, and a batch is processed by an engine that runs. *)
ServiceTypeOK ==
    /\ RanksTypeOK
    /\ conn \in [Requests -> {"new", "open", "ok", "error", "interrupted", "left"}]
    /\ \A r \in Requests : body[r] \in Bodies[r] \cup {NoValue}
    /\ id \in [Requests -> 0..Cardinality(Requests)]
    /\ server \in {"starting", "serving", "draining", "joining", "done"}
    /\ service \in {"starting", "select", "tokenizing", "not_started", "failed", "stopped",
                    "cancelled"}
    /\ encode \in [at : {"none", "queue", "worker", "done"}, worker : 0..Workers]
    /\ turn \in 1..Workers
    /\ (service = "tokenizing") = (current \in Requests)
    /\ engine \in {"none", "up", "failed", "aborted"}
    /\ todo # <<>> => engine = "up"
    /\ stream \in [Requests -> {"NotStarted", "Started", "Completed", "Interrupted"}]
    /\ \A r \in Requests : conn[r] = "interrupted" => body[r].stream

(* A client that gets a completion gets the whole of its own: every token that
   was generated for its request, and nothing of another request whose response
   goes through the same map. *)
OwnAnswer ==
    \A r \in Requests : conn[r] = "ok" /\ ~body[r].stream =>
        /\ stopped[r]
        /\ Len(got[r]) = 1 /\ got[r][1].ids = Output(r).ids

(* What a streaming client has received: the text after each token, in order
   and without a gap; the stream ends with [DONE] after the last of them. *)
StreamInOrder ==
    \A r \in Requests : conn[r] # "new" /\ body[r].stream =>
        LET texts == Keep(got[r], {m \in Range(got[r]) : m.kind = "Chunk"})
        IN  /\ Len(texts) <= Len(tokens[r])
            /\ \A k \in DOMAIN texts :
                   texts[k].text = Decode(Encode(body[r]) \o SubSeq(tokens[r], 1, k))
            /\ conn[r] = "ok" => stopped[r] /\ Len(texts) = Len(tokens[r])

(* The tokens a request may get: at least one is generated before the limits
   are looked at, by the request's count and by the model's length *)
Granted(b) == IF MaxNewTokens(b) = 0 THEN 1 ELSE MaxNewTokens(b)

Longest(b) == 1 + (IF Len(Encode(b)) > MaxModelLen THEN Len(Encode(b)) ELSE MaxModelLen)

(* A prompt that leaves no room, without max_completion_tokens *)
FillsTheLimit(b) ==
    b.max_completion_tokens = NoValue /\ Len(Encode(b)) = MaxTotalTokens

(* The sum in u32 that validate_input compares is not the sum *)
SumWraps(b) == Len(Encode(b)) + MaxNewTokens(b) >= U32

(* The prompt keeps to its limit, and nobody gets more tokens than were granted
   or, but for one, than the model takes.  Prompt and answer together keep to
   max_total_tokens, with two exceptions the validation admits: a prompt that
   fills the limit gets one token more, and a sum that wraps is not limited. *)
WithinTokenLimits ==
    \A r \in Requests : tokens[r] # <<>> =>
        LET b == body[r]
            total == Len(Encode(b)) + Len(tokens[r])
        IN  /\ Len(Encode(b)) <= MaxInputLength
            /\ Len(tokens[r]) <= Granted(b)
            /\ total <= Longest(b)
            /\ \/ total <= MaxTotalTokens
               \/ FillsTheLimit(b) /\ total = MaxTotalTokens + 1
               \/ SumWraps(b)

(* A shutdown cuts nobody off: the service stops, and the runtime is dropped,
   when no connection is open any more. *)
NobodyCutOff ==
    service \in {"stopped", "cancelled"} => \A r \in Requests : conn[r] # "open"

(* InferenceOutput: "The generated output text". *)
OutputTextIsGenerated ==
    \A r \in Requests : conn[r] = "ok" /\ ~body[r].stream => got[r][1].text = Decode(tokens[r])

(* StreamChoice: "The delta (incremental update) for this choice": a chunk holds
   the text of the token it was sent for. *)
ChunksAreDeltas ==
    \A r \in Requests : conn[r] # "new" /\ body[r].stream =>
        \A k \in DOMAIN got[r] :
            got[r][k].kind = "Chunk" => got[r][k].text = Decode(<<tokens[r][k]>>)

(* The stream of a request that was dropped before its first token: poll_next
   treats the closed channel like an empty one *)
NeverEnds(r) ==
    conn[r] = "open" /\ body[r].stream /\ stream[r] = "NotStarted"
        /\ channel[r] = <<>> /\ ~SenderAlive(r)

(* Every completion is answered, with its output or with an error, whatever
   happens to the service, the engine and the other clients; a lost rank may
   leave the others in an AllReduce for ever. *)
EveryCompletionAnswered ==
    \A r \in Requests :
        conn[r] = "open" /\ ~body[r].stream ~> conn[r] # "open" \/ RankLost

(* Every stream ends although nobody wakes its task: the keep-alive finds what
   arrived after a Pending. *)
EveryStreamEnds ==
    \A r \in Requests :
        conn[r] = "open" /\ body[r].stream ~> conn[r] # "open" \/ NeverEnds(r) \/ RankLost

(* After Ctrl-C, and after a failed start, the process exits: every task and
   every thread ends, the threads that nobody joins included, which a runtime
   waits for when it is dropped. *)
Exited ==
    /\ server = "done" /\ ~ServiceUp /\ engine # "up"
    /\ ~tokenizers /\ \A i \in Ranks : ~Alive(i)

ProcessExits ==
    server \in {"draining", "done"} ~> Exited \/ RankLost \/ \E r \in Requests : NeverEnds(r)

=============================================================================
