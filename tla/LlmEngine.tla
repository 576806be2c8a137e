------------------------------ MODULE LlmEngine ------------------------------
(***************************************************************************)
(* The engine task around the Scheduler: the request channel, the          *)
(* `select!` loop of `run`, `step`, `handle_outputs`, the model thread and *)
(* its one-shot reply, and the clients behind the response channels.       *)
(*                                                                         *)
(* The engine, the model thread and the clients run concurrently.  The     *)
(* engine takes a request or a reply only in `select!`; while it schedules, *)
(* sleeps or responds, the others go on.                                   *)
(***************************************************************************)
EXTENDS Scheduler

CONSTANTS
    Streaming,  \* the requests that ask for a streamed answer
    MayLeave,   \* clients may close their connection
    MayFail     \* the model thread may fail

ASSUME EngineAssumption ==
    /\ Streaming \subseteq Requests
    /\ MayLeave \in BOOLEAN
    /\ MayFail \in BOOLEAN

VARIABLES
    client,        \* what each client has seen
    inbox,         \* the channel of EngineRequests
    senders,       \* keys of response_senders
    stream_senders,\* keys of response_streaming_senders
    at,            \* where the engine task is: select, step, pass, respond
    finished,      \* request_outputs still to send
    model_alive,   \* the model thread runs
    reply          \* the reply channel of the batch in flight

engine_vars == <<client, inbox, senders, stream_senders, at, finished, model_alive, reply>>

allVars == <<vars, engine_vars>>

EngineErrors == {"FlumeSendError", "SendResponseError"}

EngineInit ==
    /\ Init
    /\ client = [r \in Requests |-> "new"]
    /\ inbox = <<>>
    /\ senders = {} /\ stream_senders = {}
    /\ at = "select"
    /\ finished = <<>>
    /\ model_alive = TRUE
    /\ reply = "none"

-----------------------------------------------------------------------------
(* Clients; the service forwards validated requests in order *)

ClientSends(r) ==
    /\ client[r] = "new"
    /\ \A q \in Requests : q < r => client[q] # "new"
    /\ client' = [client EXCEPT ![r] = "waiting"]
    /\ inbox' = Append(inbox, r)
    /\ UNCHANGED <<vars, senders, stream_senders, at, finished, model_alive, reply>>

ClientLeaves(r) ==
    /\ MayLeave
    /\ client[r] = "waiting"
    /\ client' = [client EXCEPT ![r] = "left"]
    /\ UNCHANGED <<vars, inbox, senders, stream_senders, at, finished, model_alive, reply>>

-----------------------------------------------------------------------------
(* The engine loop *)

(* A request is taken from the channel; when the last pass scheduled nothing
   the engine sleeps for SCHEDULE_WAIT_PERIOD and steps *)
AfterRequest_AlwaysStep == "step"

AfterRequest == IF OutputsEmpty(outputs) THEN "step" ELSE "select"

(* The response sender goes to the map for its kind of request *)
RegisterSender_OneMap(r) == senders' = senders \cup {r} /\ UNCHANGED stream_senders

RegisterSender(r) ==
    IF r \in Streaming
    THEN stream_senders' = stream_senders \cup {r} /\ UNCHANGED senders
    ELSE senders' = senders \cup {r} /\ UNCHANGED stream_senders

ReceiveRequest ==
    /\ at = "select" /\ inbox # <<>>
    /\ AddSequenceGroup(Head(inbox))
    /\ inbox' = Tail(inbox)
    /\ RegisterSender(Head(inbox))
    /\ at' = AfterRequest
    /\ UNCHANGED <<client, finished, model_alive, reply>>

(* step calls schedule, and sends the batch unless the outputs are empty *)
Step ==
    /\ err = "none" /\ at = "step"
    /\ StartPass
    /\ at' = "pass"
    /\ UNCHANGED <<queues, seqs, blocks, batch, err, client, inbox, senders,
                   stream_senders, finished, model_alive, reply>>

StepGoesOn ==
    /\ at = "pass"
    /\ PassStep
    /\ at' = IF phase' # "idle" THEN "pass"
             ELSE IF finished = <<>> THEN "select" ELSE "respond"
    /\ UNCHANGED <<client, inbox, senders, stream_senders, finished, model_alive, reply>>

(* update_sequence streams every sampled token, and then one Finished for each
   of the reasons that end the sequence: a stop sequence, the EOS token, the
   model's length, the request's length.  A send fails when the receiver is
   gone: the client left, or it saw the first of several Finished.  `stopped`
   joins the first two reasons, so a sequence in it may have had both. *)
BothLengthCaps(r, n) == n > MaxModelLen /\ n - prompt_len[r] >= MaxNewTokens

StreamFails(stopped, done) ==
    \/ \E r \in Sampled \cap stream_senders : client[r] = "left"
    \/ \E r \in done : r \in stopped \/ BothLengthCaps(r, length[r] + 1)

(* Processed outputs are always followed by a step *)
AfterOutputs_IfFinished(f) == IF f = <<>> THEN "select" ELSE "step"

AfterOutputs(f) == "step"

HandleOutputs ==
    /\ err = "none" /\ at = "select" /\ reply = "outputs"
    /\ reply' = "none"
    /\ \E stopped \in SUBSET Sampled, done \in SUBSET (Sampled \cap stream_senders) :
        IF StreamFails(stopped, done)
        THEN /\ err' = "FlumeSendError"
             /\ in_flight' = FALSE
             /\ UNCHANGED <<queues, seqs, blocks, phase, pass, outputs, client, at, finished>>
        ELSE /\ ProcessOutputs(stopped)
             /\ finished' = Keep(RequestsOf(outputs.scheduled),
                                 {r \in Requests : status'[r] \notin Live})
             /\ client' = [r \in Requests |->
                    IF r \in stream_senders /\ r \in Range(finished') THEN "answered"
                    ELSE client[r]]
             /\ at' = AfterOutputs(finished')
    /\ UNCHANGED <<inbox, senders, stream_senders, model_alive>>

(* The reply channel was closed: the error is logged and the engine steps *)
HandleFailure ==
    /\ err = "none" /\ at = "select" /\ reply = "closed"
    /\ reply' = "none"
    /\ in_flight' = FALSE
    /\ at' = "step"
    /\ UNCHANGED <<queues, seqs, blocks, phase, pass, outputs, err, client, inbox,
                   senders, stream_senders, finished, model_alive>>

(* After the step the finished outputs are sent, one one-shot channel each *)
AfterSend_FirstOnly(f) == <<>>

AfterSend(f) == Tail(f)

SendResponse ==
    /\ err = "none" /\ at = "respond"
    /\ LET r == Head(finished)
       IN  /\ finished' = AfterSend(finished)
           /\ senders' = senders \ {r}
           /\ err' = IF r \in senders /\ client[r] = "left" THEN "SendResponseError" ELSE err
           /\ client' = IF r \in senders /\ client[r] = "waiting"
                        THEN [client EXCEPT ![r] = "answered"] ELSE client
    /\ at' = IF finished' = <<>> THEN "select" ELSE "respond"
    /\ UNCHANGED <<queues, seqs, blocks, phase, pass, batch, inbox, stream_senders,
                   model_alive, reply>>

-----------------------------------------------------------------------------
(* The model thread: it answers the batch, or fails and ends; the reply of a
   batch sent to an ended thread is closed at once *)

ModelAnswers ==
    /\ in_flight /\ reply = "none" /\ model_alive
    /\ reply' = "outputs"
    /\ UNCHANGED <<vars, client, inbox, senders, stream_senders, at, finished, model_alive>>

ModelFails ==
    /\ in_flight /\ reply = "none"
    /\ MayFail \/ ~model_alive
    /\ model_alive' = FALSE
    /\ reply' = "closed"
    /\ UNCHANGED <<vars, client, inbox, senders, stream_senders, at, finished>>

Engine ==
    ReceiveRequest \/ Step \/ StepGoesOn \/ HandleOutputs \/ HandleFailure \/ SendResponse

EngineNext ==
    \/ \E r \in Requests : ClientSends(r) \/ ClientLeaves(r)
    \/ Engine
    \/ ModelAnswers \/ ModelFails

EngineSpec == EngineInit /\ [][EngineNext]_allVars

(* The runtime keeps polling the engine task, and the model thread answers or
   drops every batch it is given *)
FairEngineSpec ==
    /\ EngineSpec
    /\ WF_allVars(Engine)
    /\ WF_allVars(ModelAnswers \/ ModelFails)

-----------------------------------------------------------------------------
(* Properties *)

(* Every variable of the engine and of its scheduler has its type: no count of
   free blocks leaves its pool, and the two maps of senders never mix. *)
EngineTypeOK ==
    /\ SchedulerTypeOK
    /\ client \in [Requests -> {"new", "waiting", "answered", "left"}]
    /\ inbox \in Seq(Requests) /\ finished \in Seq(Requests)
    /\ senders \subseteq Requests \ Streaming
    /\ stream_senders \subseteq Streaming
    /\ at \in {"select", "step", "pass", "respond"}
    /\ model_alive \in BOOLEAN
    /\ reply \in {"none", "outputs", "closed"}
    /\ err \in Errors \cup EngineErrors \cup {"none"}

(* One batch at a time: the engine never schedules while the model computes, so
   the outputs it zips with scheduler_outputs are those of that batch.  Nothing
   but the emptiness of the last outputs keeps a new request from breaking it. *)
NoPassWhileInFlight == in_flight => at \in {"select", "respond"}

(* A finished request whose client still waits is answered: its output is in
   the list being sent and its channel has not been dropped. *)
FinishedIsAnswered ==
    \A r \in Requests :
        status[r] = "Finished" /\ client[r] = "waiting" /\ err = "none"
            => r \in Range(finished) /\ r \in senders

(* An answer is final: nothing is generated for a request after its client got
   the whole answer, and the scheduler has dropped it. *)
AnsweredIsOver ==
    \A r \in Requests : client[r] = "answered" =>
        /\ status[r] = "Finished"
        /\ r \notin Range(waiting) \cup Range(running) \cup Range(swapped)
        /\ in_flight => r \notin Sampled

(* The last pass scheduled nothing for want of blocks: it preempted all it had,
   or the first group that waits or is swapped out does not fit.  Nothing is
   in flight and only a new request makes the engine step again. *)
Preempted(r) == status[r] = "Waiting" /\ length[r] > prompt_len[r]

AsleepWithoutBlocks ==
    /\ at = "select" /\ inbox = <<>> /\ OutputsEmpty(outputs)
    /\ \/ \E r \in Requests : Preempted(r)
       \/ waiting # <<>> /\ CanAllocate(Head(waiting)) = "Later"
       \/ swapped # <<>> /\ CanSwapIn(Head(swapped)) = "Later"

(* Every request is answered while the engine and the model thread run and its
   client waits, whoever else leaves: the engine steps after every reply and
   every request that finds it idle.  Excepted are the requests a pass ignores,
   and an engine that is asleep for want of blocks. *)
EveryRequestAnswered ==
    \A r \in Requests :
        client[r] = "waiting" ~>
            \/ client[r] # "waiting"
            \/ err # "none" \/ ~model_alive
            \/ status[r] = "FinishedIgnored"
            \/ AsleepWithoutBlocks

=============================================================================
