-------------------------- MODULE LlmServiceProofs --------------------------
(***************************************************************************)
(* The service keeps its promises to its clients, and the ranks stay in    *)
(* step, for every number of requests, ranks, workers and collectives.     *)
(***************************************************************************)
EXTENDS LlmService, ModelThreadsProofs, ListsProofs, FiniteSetTheorems

-----------------------------------------------------------------------------
(* The inductive invariant *)

Conns == {"new", "open", "ok", "error", "interrupted", "left"}

Servers == {"starting", "serving", "draining", "joining", "done"}

Services == {"starting", "select", "tokenizing", "not_started", "failed", "stopped", "cancelled"}

HttpTypes ==
    /\ conn \in [Requests -> Conns]
    /\ DOMAIN body = Requests
    /\ \A r \in Requests : body[r] \in Bodies[r] \cup {NoValue}
    /\ id \in [Requests -> Nat] /\ counter \in Nat
    /\ server \in Servers /\ shutdown \in BOOLEAN

ServingTypes ==
    /\ service \in Services
    /\ inbox \in Seq(Requests) /\ current \in Requests \cup {NoValue}
    /\ encode \in [at : {"none", "queue", "worker", "done"}, worker : 0..Workers]
    /\ turn \in 1..Workers /\ tokenizers \in BOOLEAN
    /\ service = "tokenizing" <=> current \in Requests

EngineTypes ==
    /\ engine \in {"none", "up", "failed", "aborted"}
    /\ requests \in Seq(Requests) /\ active \in Seq(Requests) /\ batch \in Seq(Requests)
    /\ todo \in Seq(Requests) /\ finished \in Seq(Requests)
    /\ \A k \in DOMAIN senders : senders[k] \in Requests
    /\ engine # "up" => /\ requests = <<>> /\ active = <<>> /\ batch = <<>>
                        /\ todo = <<>> /\ finished = <<>> /\ DOMAIN senders = {}

ClientTypes ==
    /\ tokens \in [Requests -> Seq({"token", "eos"})]
    /\ stopped \in [Requests -> BOOLEAN]
    /\ DOMAIN channel = Requests /\ DOMAIN got = Requests
    /\ stream \in [Requests -> {"NotStarted", "Started", "Completed", "Interrupted"}]
    /\ \A r \in Requests : conn[r] = "interrupted" => body[r].stream

(* How far the server, the service task, the engine and the ranks have come.
   While the engine is up, the reply of the last batch is taken only together
   with that batch. *)
Lifecycle ==
    /\ server = "starting" <=> service = "starting"
    /\ service \in {"starting", "not_started"} => engine = "none"
    /\ server = "starting" => \A r \in Requests : conn[r] = "new"
    /\ server \in {"joining", "done"} => \A r \in Requests : conn[r] # "open"
    /\ shutdown => server \in {"joining", "done"}
    /\ service \in {"stopped", "cancelled"} => server \in {"joining", "done"}
    /\ \A i \in Ranks : rank[i] = "ended" => DispatcherDropped
    /\ engine \in {"none", "up"} /\ batch = <<>> => reply = "none"
    /\ todo # <<>> => reply = "none" /\ batch # <<>>

(* Every request that was sent has an id of its own *)
Identities ==
    /\ \A r \in Requests : conn[r] # "new" => id[r] < counter /\ body[r] \in Bodies[r]
    /\ \A r, q \in Requests :
           conn[r] # "new" /\ conn[q] # "new" /\ id[r] = id[q] => r = q
    /\ counter = Cardinality({r \in Requests : conn[r] # "new"})
    /\ \A r \in Requests : id[r] <= counter

(* On its way to the engine *)
Arriving(r) == r \in Range(inbox) \/ r = current \/ r \in Range(requests)

(* A request is in one place at a time, and is there once *)
Places ==
    /\ IsInjective(inbox) /\ IsInjective(requests) /\ IsInjective(active)
    /\ Range(inbox) \cap Range(requests) = {}
    /\ current \notin Range(inbox) \cup Range(requests)
    /\ \A r \in Requests : Arriving(r) => conn[r] # "new" /\ r \notin Range(active)
    /\ \A r \in Range(active) \cup Range(finished) : conn[r] # "new"
    /\ \A k \in DOMAIN senders : id[senders[k]] = k /\ conn[senders[k]] # "new"

(* The batch in flight: its outputs are processed once each, and the sequences
   that end stay in the scheduler until the step that follows *)
Batches ==
    /\ IsInjective(batch) /\ IsInjective(todo)
    /\ Range(batch) \subseteq Range(active) /\ Range(todo) \subseteq Range(batch)
    /\ \A r \in Range(active) : stopped[r] =>
           reply = "none" /\ r \in Range(batch) /\ r \notin Range(todo)
    /\ \A r \in Range(finished) : stopped[r] /\ ~Arriving(r) /\ r \notin Range(active)
    /\ \A r \in Requests : Arriving(r) \/ conn[r] = "new" => tokens[r] = <<>> /\ ~stopped[r]

Over(r) == stopped[r] /\ ~Arriving(r) /\ r \notin Range(active)

(* c holds the whole answer to r, and r is over *)
IsAnswer(c, r) ==
    Over(r) /\ Len(c) = 1 /\ c[1].ids = Encode(body[r]) \o tokens[r]

Answers ==
    /\ \A r \in Requests : conn[r] # "new" /\ ~body[r].stream =>
           /\ channel[r] # <<>> => IsAnswer(channel[r], r)
           /\ conn[r] = "ok" => IsAnswer(got[r], r)
    /\ \A r \in Requests : conn[r] = "new" => channel[r] = <<>> /\ got[r] = <<>>

(* n tokens keep to what the request was granted and to the model's length *)
MayHave(b, n) == n <= Granted(b) /\ Len(Encode(b)) + n <= Longest(b)

(* What the validation has accepted bounds what is generated *)
Limits ==
    /\ current \in Requests => ~ParametersRejected(body[current])
    /\ \A r \in Requests :
           r \in Range(requests) \/ r \in Range(active) \/ tokens[r] # <<>> =>
               /\ ~ParametersRejected(body[r]) /\ ~InputRejected(body[r])
               /\ MayHave(body[r], Len(tokens[r]))
    /\ \A r \in Range(active) : ~stopped[r] => MayHave(body[r], Len(tokens[r]) + 1)

(* The k-th message of a stream whose request has the body b and whose answer is
   ts: the text after k tokens, and Finished when there are no more *)
Chunk(b, ts, k) == [kind |-> "Chunk", text |-> Decode(Encode(b) \o SubSeq(ts, 1, k))]

Message(b, ts, k) == IF k <= Len(ts) THEN Chunk(b, ts, k) ELSE [kind |-> "Finished"]

(* What a token stands for *)
Pieces == STRING \cup {"bos", "token", "eos"}

StreamMessages ==
    [kind : {"Finished"}]
        \cup [kind : {"Chunk"}, text : {Decode(ids) : ids \in Seq(Pieces)}]

InOrder(r) ==
    /\ got[r] \in Seq(StreamMessages) /\ channel[r] \in Seq(StreamMessages)
    /\ \A k \in DOMAIN got[r] : got[r][k] = Message(body[r], tokens[r], k)
    /\ \A k \in DOMAIN channel[r] :
           channel[r][k] = Message(body[r], tokens[r], Len(got[r]) + k)
    /\ Len(got[r]) + Len(channel[r]) > Len(tokens[r]) => stopped[r]
    /\ conn[r] = "open" => Len(got[r]) + Len(channel[r]) >= Len(tokens[r])
    /\ stream[r] = "Completed" \/ conn[r] = "ok" => Len(got[r]) > Len(tokens[r])

Streams ==
    \A r \in Requests :
        /\ conn[r] # "new" /\ body[r].stream => InOrder(r)
        /\ conn[r] = "new" => stream[r] = "NotStarted"

ServiceInv ==
    /\ RanksInv
    /\ HttpTypes /\ ServingTypes /\ EngineTypes /\ ClientTypes
    /\ Lifecycle /\ Identities /\ Places /\ Batches /\ Answers /\ Limits /\ Streams

-----------------------------------------------------------------------------
(* What each part depends on *)

LEMMA HttpFrame == HttpTypes /\ UNCHANGED http => HttpTypes'
BY DEF HttpTypes, http, Conns, Servers

LEMMA ServingFrame == ServingTypes /\ UNCHANGED serving => ServingTypes'
BY DEF ServingTypes, serving, Services

LEMMA EngineFrame == EngineTypes /\ UNCHANGED engineTask => EngineTypes'
BY DEF EngineTypes, engineTask

LEMMA ClientFrame ==
    ClientTypes /\ UNCHANGED <<tokens, stopped, responses, conn, body>> => ClientTypes'
BY DEF ClientTypes, responses

LEMMA LifecycleFrame ==
    Lifecycle /\ UNCHANGED <<server, service, shutdown, conn, engine, batch, todo, rank, reply>>
        => Lifecycle'
BY DEF Lifecycle, DispatcherDropped, Ranks

LEMMA IdentitiesFrame == Identities /\ UNCHANGED <<conn, id, counter, body>> => Identities'
BY DEF Identities

LEMMA PlacesFrame ==
    Places /\ UNCHANGED <<inbox, current, requests, active, finished, senders, conn, id>>
        => Places'
BY DEF Places, Arriving

LEMMA BatchesFrame ==
    Batches /\ UNCHANGED <<inbox, current, requests, active, batch, todo, finished, stopped,
                           tokens, conn, reply>>
        => Batches'
BY DEF Batches, Arriving

LEMMA AnswersFrame ==
    Answers /\ UNCHANGED <<conn, body, channel, got, stopped, tokens, inbox, current, requests,
                           active>>
        => Answers'
BY DEF Answers, IsAnswer, Over, Arriving, Encode

\* What the validation rejects and what a body may be granted depends on no variable.
LEMMA LimitsAreConstant ==
    \A b : /\ ParametersRejected(b)' = ParametersRejected(b)
           /\ InputRejected(b)' = InputRejected(b)
           /\ \A n : MayHave(b, n)' = MayHave(b, n)
BY DEF ParametersRejected, InputRejected, MayHave, Granted, Longest, MaxNewTokens, Encode, Or

LEMMA LimitsFrame ==
    Limits /\ UNCHANGED <<body, current, requests, active, tokens, stopped>> => Limits'
BY LimitsAreConstant DEF Limits

LEMMA StreamsFrame ==
    Streams /\ UNCHANGED <<conn, body, got, channel, tokens, stopped, stream>> => Streams'
BY DEF Streams, InOrder

(* The initial state: nothing has been sent. *)
LEMMA InitServiceInv == ServiceInit => ServiceInv
<1> SUFFICES ASSUME ServiceInit PROVE ServiceInv
  OBVIOUS
<1> USE DEF ServiceInit
<1>1. RanksInv
  BY RanksInitInv
<1>2. HttpTypes
  BY DEF HttpTypes, Conns, Servers
<1>3. ServingTypes
  <2>1. 1 \in 1..Workers /\ 0 \in 0..Workers /\ NoValue \notin Requests
    BY ServiceAssumption
  <2>2. encode \in [at : {"none", "queue", "worker", "done"}, worker : 0..Workers]
    BY <2>1 DEF NotEncoding
  <2>3. inbox \in Seq(Requests) /\ service = "starting" /\ current = NoValue
    OBVIOUS
  <2>4. turn \in 1..Workers /\ tokenizers \in BOOLEAN
    BY <2>1
  <2> HIDE DEF ServiceInit
  <2> QED BY <2>1, <2>2, <2>3, <2>4 DEF ServingTypes, Services
<1>4. EngineTypes
  BY DEF EngineTypes
<1>5. ClientTypes
  BY DEF ClientTypes
<1>6. Lifecycle
  BY DEF Lifecycle, RanksInit
<1>7. Identities
  <2>1. {r \in Requests : conn[r] # "new"} = {}
    OBVIOUS
  <2>2. Cardinality({r \in Requests : conn[r] # "new"}) = 0
    BY <2>1, FS_EmptySet, Zenon
  <2> QED BY <2>2 DEF Identities
<1>8. Places
  BY ServiceAssumption DEF Places, Arriving, IsInjective, Range
<1>9. Batches
  BY ServiceAssumption DEF Batches, Arriving, IsInjective, Range
<1>10. Answers
  BY DEF Answers
<1>11. Limits
  BY ServiceAssumption DEF Limits, Range
<1>12. Streams
  BY DEF Streams
<1> QED BY <1>1, <1>2, <1>3, <1>4, <1>5, <1>6, <1>7, <1>8, <1>9, <1>10, <1>11, <1>12
        DEF ServiceInv

-----------------------------------------------------------------------------
(* The steps of the ranks, of start-up and of the tokenizer *)

(* A step of the threads alone *)
LEMMA AloneStep ==
    ASSUME ServiceInv, Alone, RanksInv',
           reply = "none" => reply' = "none",
           \A i \in Ranks : rank'[i] = "ended" => rank[i] = "ended" \/ DispatcherDropped
    PROVE  ServiceInv'
<1> USE DEF ServiceInv, Alone, http, serving, engineTask, sequences, responses
<1>1. HttpTypes' /\ ServingTypes' /\ EngineTypes' /\ ClientTypes'
  BY HttpFrame, ServingFrame, EngineFrame, ClientFrame
<1>2. Lifecycle'
  BY DEF Lifecycle, DispatcherDropped
<1>3. Identities' /\ Places' /\ Answers' /\ Limits' /\ Streams'
  BY IdentitiesFrame, PlacesFrame, AnswersFrame, LimitsFrame, StreamsFrame
<1>4. Batches'
  BY DEF Batches, Arriving
<1> QED BY <1>1, <1>2, <1>3, <1>4

LEMMA ThreadStep == ASSUME ServiceInv, NEW i \in Ranks, Thread(i) PROVE ServiceInv'
<1>1. RanksInv'
  BY RankStepInv DEF Thread, ServiceInv
<1>2. rank \in [Ranks -> RankStates]
  BY DEF ServiceInv, RanksInv, RanksTypeOK
<1>3. reply = "none" => reply' = "none"
  BY DEF Thread, RankStep, Load, ReceiveConfig, ConfigClosed, Receive, FinishBatch, ChannelClosed
<1>4. \A j \in Ranks : rank'[j] = "ended" => rank[j] = "ended" \/ DispatcherDropped
  BY <1>2 DEF Thread, RankStep, Load, ReceiveConfig, ConfigClosed, Receive, FinishBatch,
              ChannelClosed
<1> QED BY <1>1, <1>3, <1>4, AloneStep DEF Thread

LEMMA FailureStep == ASSUME ServiceInv, NEW i \in Ranks, Failure(i) PROVE ServiceInv'
<1>1. RanksInv'
  BY RankFailsInv DEF Failure, ServiceInv
<1>2. rank \in [Ranks -> RankStates]
  BY DEF ServiceInv, RanksInv, RanksTypeOK
<1>3. reply = "none" => reply' = "none"
  BY DEF Failure, RankFails, LoadFails, WorkerFails, ExecuteFails, DropReply
<1>4. \A j \in Ranks : rank'[j] = "ended" => rank[j] = "ended"
  BY <1>2 DEF Failure, RankFails, LoadFails, WorkerFails, ExecuteFails, AfterError
<1> QED BY <1>1, <1>3, <1>4, AloneStep DEF Failure

LEMMA TogetherStep == ServiceInv /\ Together => ServiceInv'
<1> SUFFICES ASSUME ServiceInv, Together PROVE ServiceInv'
  OBVIOUS
<1>1. RanksInv'
  BY JoinStep, AllReduceStep DEF Together, ServiceInv
<1>2. UNCHANGED reply /\ \A j \in Ranks : rank'[j] = "ended" => rank[j] = "ended"
  BY DEF Together, JoinCommunicator, AllReduce
<1> QED BY <1>1, <1>2, AloneStep DEF Together

LEMMA StartStep == ServiceInv /\ Start => ServiceInv'
<1> SUFFICES ASSUME ServiceInv, Start PROVE ServiceInv'
  OBVIOUS
<1> USE DEF ServiceInv, Start, sequences, responses
<1>1. RanksInv'
  BY ConfigStep
<1>2. HttpTypes' /\ ServingTypes'
  BY DEF HttpTypes, Conns, Servers, ServingTypes, Services
<1>3. EngineTypes'
  BY DEF EngineTypes, Lifecycle
<1>4. Lifecycle'
  BY DEF Lifecycle, DispatcherDropped, LoadedAll, HttpTypes
<1>5. ClientTypes' /\ Identities' /\ Places' /\ Batches' /\ Answers' /\ Limits' /\ Streams'
  BY ClientFrame, IdentitiesFrame, PlacesFrame, BatchesFrame, AnswersFrame, LimitsFrame,
     StreamsFrame
<1> QED BY <1>1, <1>2, <1>3, <1>4, <1>5

LEMMA NotStartedStep == ServiceInv /\ (StartPanics \/ StartFails) => ServiceInv'
<1> SUFFICES ASSUME ServiceInv, service = "starting", config' \in {"sent", "closed"}, NotStarted
             PROVE  ServiceInv'
  BY DEF StartPanics, StartFails
<1> USE DEF ServiceInv, NotStarted, engineTask, sequences, responses
<1>1. RanksInv'
  BY ConfigStep
<1>2. HttpTypes' /\ ServingTypes'
  BY DEF HttpTypes, Conns, Servers, ServingTypes, Services
<1>3. Lifecycle'
  BY DEF Lifecycle, DispatcherDropped
<1>4. /\ EngineTypes' /\ ClientTypes' /\ Identities' /\ Places' /\ Batches' /\ Answers'
      /\ Limits' /\ Streams'
  BY EngineFrame, ClientFrame, IdentitiesFrame, PlacesFrame, BatchesFrame, AnswersFrame,
     LimitsFrame, StreamsFrame
<1> QED BY <1>1, <1>2, <1>3, <1>4

LEMMA TokenizerStep == ServiceInv /\ Tokenizer => ServiceInv'
<1> SUFFICES ASSUME ServiceInv, Tokenizer PROVE ServiceInv'
  OBVIOUS
<1>1. /\ UNCHANGED <<ranks, http, service, inbox, current, engineTask, sequences, responses>>
      /\ encode' \in [at : {"none", "queue", "worker", "done"}, worker : 0..Workers]
      /\ turn' \in 1..Workers /\ tokenizers' \in BOOLEAN
  <2>1. /\ encode \in [at : {"none", "queue", "worker", "done"}, worker : 0..Workers]
        /\ turn \in 1..Workers /\ Workers \in Nat \ {0} /\ tokenizers \in BOOLEAN
    BY ServiceAssumption DEF ServiceInv, ServingTypes
  <2>2. CASE RoundRobin
    <3>1. turn % Workers \in 0..(Workers - 1) /\ turn \in 0..Workers
      BY <2>1
    <3> QED BY <2>1, <2>2, <3>1 DEF RoundRobin, NextWorker
  <2>3. CASE \E w \in 1..Workers : TokenizerWorker(w)
    BY <2>1, <2>3 DEF TokenizerWorker
  <2>4. CASE TokenizersEnd
    BY <2>1, <2>4 DEF TokenizersEnd
  <2> QED BY <2>2, <2>3, <2>4 DEF Tokenizer
<1> USE <1>1 DEF ServiceInv, ranks, http, engineTask, sequences, responses
<1>2. ServingTypes'
  BY DEF ServingTypes
<1>3. RanksInv' /\ HttpTypes' /\ EngineTypes' /\ ClientTypes' /\ Lifecycle'
  BY RanksFrame, HttpFrame, EngineFrame, ClientFrame, LifecycleFrame
<1>4. Identities' /\ Places' /\ Batches' /\ Answers' /\ Limits' /\ Streams'
  BY IdentitiesFrame, PlacesFrame, BatchesFrame, AnswersFrame, LimitsFrame, StreamsFrame
<1> QED BY <1>2, <1>3, <1>4

-----------------------------------------------------------------------------
(* The ends of the service and of the engine, and the shutdown *)

(* What the service or the engine holds is dropped with it: nothing arrives any
   more that had not, and what is over stays over. *)
LEMMA EndsStep ==
    ASSUME ServiceInv,
           \/ UNCHANGED <<service, inbox, current, encode>>
           \/ \E how \in {"failed", "stopped", "cancelled"} : ServiceEnds(how),
           \/ UNCHANGED engineTask /\ UNCHANGED reply
           \/ \E how \in {"failed", "aborted"} : EngineEnds(how),
           UNCHANGED <<conn, body, id, counter, turn, tokenizers, sequences, responses>>
    PROVE  /\ ServingTypes' /\ EngineTypes' /\ ClientTypes' /\ Identities'
           /\ Places' /\ Batches' /\ Answers' /\ Limits' /\ Streams'
<1> USE DEF ServiceInv, sequences, responses
<1>1. ClientTypes' /\ Identities' /\ Streams'
  BY ClientFrame, IdentitiesFrame, StreamsFrame
<1>2. /\ \/ UNCHANGED <<inbox, current>>
         \/ inbox' = <<>> /\ current' = NoValue /\ NoValue \notin Requests
      /\ \/ UNCHANGED engineTask /\ UNCHANGED reply
         \/ /\ requests' = <<>> /\ active' = <<>> /\ senders' = <<>>
            /\ batch' = <<>> /\ todo' = <<>> /\ finished' = <<>>
  BY ServiceAssumption DEF ServiceEnds, EngineEnds
<1>3. ServingTypes'
  <2>1. CASE UNCHANGED <<service, inbox, current, encode>>
    BY <2>1, ServingFrame DEF serving
  <2>2. CASE \E how \in {"failed", "stopped", "cancelled"} : ServiceEnds(how)
    <3>1. 0 \in 0..Workers
      BY ServiceAssumption
    <3>2. NotEncoding \in [at : {"none", "queue", "worker", "done"}, worker : 0..Workers]
      BY <3>1 DEF NotEncoding
    <3> QED BY <2>2, <3>2, ServiceAssumption DEF ServiceEnds, ServingTypes, Services
  <2> QED BY <2>1, <2>2
<1>4. EngineTypes'
  <2>1. CASE UNCHANGED engineTask
    BY <2>1, EngineFrame
  <2>2. CASE \E how \in {"failed", "aborted"} : EngineEnds(how)
    BY <2>2 DEF EngineEnds, EngineTypes
  <2> QED BY <2>1, <2>2
<1>5. /\ Range(inbox') \subseteq Range(inbox) /\ (current' = current \/ current' = NoValue)
      /\ Range(requests') \subseteq Range(requests) /\ Range(active') \subseteq Range(active)
      /\ Range(finished') \subseteq Range(finished)
      /\ \A r \in Requests : Arriving(r)' => Arriving(r)
  BY <1>2, EmptyList DEF engineTask, Arriving
<1>6. Places'
  <2>1. IsInjective(inbox') /\ IsInjective(requests') /\ IsInjective(active')
    BY <1>2, EmptyList DEF Places, engineTask
  <2>2. /\ Range(inbox') \cap Range(requests') = {}
        /\ current' \notin Range(inbox') \cup Range(requests')
    <3>1. Range(inbox') \subseteq Requests /\ Range(requests') \subseteq Requests
      BY <1>3, <1>4, RangeOfList DEF ServingTypes, EngineTypes
    <3> QED BY <1>5, <3>1, ServiceAssumption DEF Places
  <2>3. \A k \in DOMAIN senders' : id[senders'[k]] = k /\ conn[senders'[k]] # "new"
    BY <1>2 DEF Places, engineTask
  <2> QED BY <2>1, <2>2, <2>3, <1>5 DEF Places
<1>7. Batches'
  <2>1. CASE UNCHANGED engineTask /\ UNCHANGED reply
    <3>1. Range(finished) \subseteq Requests
      BY RangeOfList DEF EngineTypes
    <3> QED BY <2>1, <3>1, <1>5 DEF Batches, engineTask
  <2>2. CASE /\ requests' = <<>> /\ active' = <<>> /\ senders' = <<>>
             /\ batch' = <<>> /\ todo' = <<>> /\ finished' = <<>>
    BY <2>2, <1>5, EmptyList DEF Batches
  <2> QED BY <2>1, <2>2, <1>2
<1>8. \A r \in Requests : Over(r) => Over(r)'
  BY <1>5 DEF Over
<1>9. Answers'
  BY <1>8 DEF Answers, IsAnswer, Encode
<1>10. Limits'
  BY <1>5, LimitsAreConstant, ServiceAssumption DEF Limits
<1> QED BY <1>1, <1>3, <1>4, <1>6, <1>7, <1>9, <1>10

LEMMA StopStep == ServiceInv /\ Stop => ServiceInv'
<1> SUFFICES ASSUME ServiceInv, Stop PROVE ServiceInv'
  OBVIOUS
<1>1. RanksInv' /\ UNCHANGED reply
  BY RanksFrame DEF Stop, ServiceInv, ranks
<1>2. /\ ServingTypes' /\ EngineTypes' /\ ClientTypes' /\ Identities' /\ Places' /\ Batches'
      /\ Answers' /\ Limits' /\ Streams'
  BY <1>1, EndsStep DEF Stop
<1>3. HttpTypes'
  BY DEF ServiceInv, HttpTypes, Stop
<1>4. Lifecycle'
  <2>1. /\ service' = "stopped" /\ shutdown /\ ~shutdown' /\ service = "select"
        /\ UNCHANGED <<server, conn, rank, reply>>
        /\ \/ engine = "up" /\ engine' = "aborted" /\ batch' = <<>> /\ todo' = <<>>
           \/ engine # "up" /\ UNCHANGED <<engine, batch, todo>>
    BY DEF Stop, ServiceEnds, EngineEnds, engineTask, ranks
  <2> QED BY <2>1 DEF ServiceInv, Lifecycle, DispatcherDropped
<1> QED BY <1>1, <1>2, <1>3, <1>4 DEF ServiceInv

LEMMA DropRuntimeStep == ServiceInv /\ DropRuntime => ServiceInv'
<1> SUFFICES ASSUME ServiceInv, DropRuntime PROVE ServiceInv'
  OBVIOUS
<1>1. RanksInv' /\ UNCHANGED reply
  BY RanksFrame DEF DropRuntime, ServiceInv, ranks
<1>2. /\ ServingTypes' /\ EngineTypes' /\ ClientTypes' /\ Identities' /\ Places' /\ Batches'
      /\ Answers' /\ Limits' /\ Streams'
  BY <1>1, EndsStep DEF DropRuntime, http
<1>3. HttpTypes'
  BY HttpFrame DEF ServiceInv, DropRuntime
<1>4. Lifecycle'
  <2>1. /\ server = "done" /\ UNCHANGED <<server, shutdown, conn, rank, reply>>
        /\ \/ service' = "cancelled" /\ service \in {"select", "tokenizing"}
           \/ UNCHANGED service
        /\ \/ engine = "up" /\ engine' = "aborted" /\ batch' = <<>> /\ todo' = <<>>
           \/ engine # "up" /\ UNCHANGED <<engine, batch, todo>>
    BY DEF DropRuntime, ServiceEnds, EngineEnds, engineTask, ranks, http, ServiceUp
  <2> QED BY <2>1 DEF ServiceInv, Lifecycle, DispatcherDropped
<1> QED BY <1>1, <1>2, <1>3, <1>4 DEF ServiceInv

(* The server alone *)
LEMMA ServerStep ==
    ServiceInv /\ (CtrlC \/ SendShutdown \/ Join) => ServiceInv'
<1> SUFFICES ASSUME ServiceInv, CtrlC \/ SendShutdown \/ Join PROVE ServiceInv'
  OBVIOUS
<1>1. UNCHANGED <<ranks, conn, body, id, counter, serving, engineTask, sequences, responses>>
  BY DEF CtrlC, SendShutdown, Join
<1> USE <1>1 DEF ServiceInv, ranks, serving, engineTask, sequences, responses
<1>2. /\ server' \in {"draining", "joining", "done"} /\ shutdown' \in BOOLEAN
      /\ server # "starting"
      /\ server \in {"joining", "done"} => server' = "done"
      /\ server' # "draining" => \A r \in Requests : conn[r] # "open"
      /\ shutdown' => (shutdown /\ server' = server) \/ server' \in {"joining", "done"}
  <2>1. /\ shutdown \in BOOLEAN /\ (shutdown => server \in {"joining", "done"})
        /\ server \in {"joining", "done"} => \A r \in Requests : conn[r] # "open"
    BY DEF HttpTypes, Lifecycle
  <2>2. CASE CtrlC
    BY <2>1, <2>2 DEF CtrlC
  <2>3. CASE SendShutdown
    BY <2>1, <2>3 DEF SendShutdown, Drained
  <2>4. CASE Join
    BY <2>1, <2>4 DEF Join
  <2> QED BY <2>2, <2>3, <2>4
<1>5. HttpTypes'
  BY <1>2 DEF HttpTypes, Conns, Servers
<1>6. Lifecycle'
  BY <1>2 DEF Lifecycle, DispatcherDropped
<1>3. RanksInv' /\ ServingTypes' /\ EngineTypes' /\ ClientTypes'
  BY RanksFrame, ServingFrame, EngineFrame, ClientFrame
<1>4. Identities' /\ Places' /\ Batches' /\ Answers' /\ Limits' /\ Streams'
  BY IdentitiesFrame, PlacesFrame, BatchesFrame, AnswersFrame, LimitsFrame, StreamsFrame
<1> QED BY <1>3, <1>4, <1>5, <1>6

-----------------------------------------------------------------------------
(* The service task *)

(* The first token is granted to every request. *)
LEMMA NewTokens ==
    ASSUME NEW r \in Requests, NEW b \in Bodies[r]
    PROVE  /\ MaxNewTokens(b) \in Nat /\ Len(Encode(b)) \in Nat
           /\ MayHave(b, 0) /\ MayHave(b, 1)
<1> DEFINE n == Len(Encode(b))
           v == b.max_completion_tokens
<1>1. n \in Nat
  BY BodiesAssumption DEF Encode
<1>2. /\ MaxTotalTokens \in Nat /\ MaxModelLen \in Nat
      /\ v \in Nat \cup {NoValue}
  BY ServiceAssumption, BodiesAssumption
<1>3. MaxNewTokens(b) = IF v = NoValue
                        THEN IF n > MaxTotalTokens THEN 0 ELSE MaxTotalTokens - n
                        ELSE v
  BY DEF MaxNewTokens, Or
<1>4. Longest(b) = 1 + (IF n > MaxModelLen THEN n ELSE MaxModelLen)
  BY DEF Longest
<1> HIDE DEF n, v
<1>5. MaxNewTokens(b) \in Nat
  BY <1>1, <1>2, <1>3
<1>6. MayHave(b, 0) /\ MayHave(b, 1)
  BY <1>1, <1>2, <1>4, <1>5 DEF MayHave, Granted, n
<1> QED BY <1>1, <1>5, <1>6 DEF n

LEMMA ReceiveRequestStep == ServiceInv /\ ReceiveRequest => ServiceInv'
<1> SUFFICES ASSUME ServiceInv, ReceiveRequest PROVE ServiceInv'
  OBVIOUS
<1> DEFINE r == Head(inbox)
<1>1. /\ service = "select" /\ inbox # <<>> /\ inbox' = Tail(inbox)
      /\ UNCHANGED <<ranks, http, turn, tokenizers, engineTask, sequences, responses>>
      /\ \/ UNCHANGED <<service, current, encode>>
         \/ /\ ~ParametersRejected(body[r])
            /\ service' = "tokenizing" /\ current' = r /\ encode' = [at |-> "queue", worker |-> 0]
  BY DEF ReceiveRequest
<1>2. /\ r \in Requests /\ inbox' \in Seq(Requests) /\ Range(inbox) = Range(inbox') \cup {r}
      /\ IsInjective(inbox') /\ r \notin Range(inbox')
  BY <1>1, HeadTail DEF ServiceInv, ServingTypes, Places
<1> HIDE DEF r
<1>3. current \notin Requests
  BY <1>1 DEF ServiceInv, ServingTypes
<1>4. \A q \in Requests : Arriving(q)' => Arriving(q)
  BY <1>1, <1>2 DEF Arriving, engineTask
<1> USE <1>1 DEF ServiceInv, ranks, http, engineTask, sequences, responses
<1>5. RanksInv' /\ HttpTypes' /\ EngineTypes' /\ ClientTypes' /\ Identities' /\ Streams'
  BY RanksFrame, HttpFrame, EngineFrame, ClientFrame, IdentitiesFrame, StreamsFrame
<1>6. ServingTypes'
  <2>1. 0 \in 0..Workers
    BY ServiceAssumption
  <2>2. [at |-> "queue", worker |-> 0]
            \in [at : {"none", "queue", "worker", "done"}, worker : 0..Workers]
    BY <2>1
  <2> QED BY <1>2, <2>2 DEF ServingTypes, Services
<1>7. Lifecycle'
  BY DEF Lifecycle, DispatcherDropped
<1>8. Places'
  <2>1. Range(requests) \subseteq Requests /\ Arriving(r)
    BY <1>2, RangeOfList DEF EngineTypes, Arriving
  <2> QED BY <1>2, <1>3, <1>4, <2>1 DEF Places
<1>9. Batches'
  <2>1. Range(finished) \subseteq Requests
    BY RangeOfList DEF EngineTypes
  <2> QED BY <1>4, <2>1 DEF Batches
<1>10. \A q \in Requests : Over(q) => Over(q)'
  BY <1>4 DEF Over
<1>11. Answers'
  BY <1>10 DEF Answers, IsAnswer, Encode
<1>12. Limits'
  BY <1>2, <1>3, LimitsAreConstant DEF Limits
<1> QED BY <1>5, <1>6, <1>7, <1>8, <1>9, <1>11, <1>12

LEMMA ForwardStep == ServiceInv /\ Forward => ServiceInv'
<1> SUFFICES ASSUME ServiceInv, Forward PROVE ServiceInv'
  OBVIOUS
<1> DEFINE rejected == InputRejected(body[current])
<1>1. /\ service = "tokenizing"
      /\ current' = NoValue /\ encode' = NotEncoding /\ (inbox' = inbox \/ inbox' = <<>>)
      /\ service' \in {"select", "failed"}
      /\ \/ requests' = requests
         \/ engine = "up" /\ ~rejected /\ requests' = Append(requests, current)
      /\ UNCHANGED <<ranks, http, turn, tokenizers, engine, active, senders, batch, todo,
                     finished, sequences, responses>>
  BY DEF Forward, ServiceEnds
<1>2. /\ current \in Requests /\ NoValue \notin Requests
      /\ requests \in Seq(Requests) /\ inbox \in Seq(Requests)
      /\ IsInjective(inbox) /\ IsInjective(requests) /\ current \notin Range(requests)
  BY <1>1, ServiceAssumption DEF ServiceInv, ServingTypes, EngineTypes, Places
<1> HIDE DEF rejected
<1>3. /\ inbox' \in Seq(Requests) /\ Range(inbox') \subseteq Range(inbox) /\ IsInjective(inbox')
  <2>1. CASE inbox' = inbox
    BY <1>2, <2>1
  <2>2. CASE inbox' = <<>>
    BY <2>2, EmptyList
  <2> QED BY <1>1, <2>1, <2>2
<1>4. /\ requests' \in Seq(Requests) /\ Range(requests') \subseteq Range(requests) \cup {current}
      /\ IsInjective(requests')
      /\ Range(requests') # Range(requests) => ~rejected
  <2>1. /\ Append(requests, current) \in Seq(Requests)
        /\ Range(Append(requests, current)) = Range(requests) \cup {current}
        /\ IsInjective(Append(requests, current))
    BY <1>2, AppendList
  <2> QED BY <1>1, <1>2, <2>1
<1>5. \A q \in Requests : Arriving(q)' => Arriving(q)
  BY <1>1, <1>2, <1>3, <1>4 DEF Arriving
<1> USE <1>1 DEF ServiceInv, ranks, http, sequences, responses
<1>6. RanksInv' /\ HttpTypes' /\ ClientTypes' /\ Identities' /\ Streams' /\ Lifecycle'
  BY RanksFrame, HttpFrame, ClientFrame, IdentitiesFrame, StreamsFrame
     DEF Lifecycle, DispatcherDropped
<1>7. ServingTypes'
  <2>1. 0 \in 0..Workers
    BY ServiceAssumption
  <2>2. NotEncoding \in [at : {"none", "queue", "worker", "done"}, worker : 0..Workers]
    BY <2>1 DEF NotEncoding
  <2> QED BY <1>2, <1>3, <2>2 DEF ServingTypes, Services
<1>8. EngineTypes'
  BY <1>4 DEF EngineTypes
<1>9. Places'
  <2>1. Range(requests') \subseteq Requests /\ Range(inbox') \subseteq Requests
    BY <1>3, <1>4, RangeOfList
  <2>2. /\ Range(inbox') \cap Range(requests') = {}
        /\ current' \notin Range(inbox') \cup Range(requests')
    BY <1>2, <1>3, <1>4, <2>1 DEF Places
  <2> QED BY <1>3, <1>4, <1>5, <2>2 DEF Places
<1>10. Batches'
  <2>1. Range(finished) \subseteq Requests
    BY RangeOfList DEF EngineTypes
  <2> QED BY <1>5, <2>1 DEF Batches
<1>11. \A q \in Requests : Over(q) => Over(q)'
  BY <1>5 DEF Over
<1>12. Answers'
  BY <1>11 DEF Answers, IsAnswer, Encode
<1>13. Limits'
  <2>1. \A b : /\ ParametersRejected(b)' = ParametersRejected(b)
               /\ InputRejected(b)' = InputRejected(b) /\ \A n : MayHave(b, n)' = MayHave(b, n)
    BY LimitsAreConstant
  <2>2. /\ Arriving(current) /\ body[current] \in Bodies[current]
        /\ Len(tokens[current]) = 0 /\ MayHave(body[current], 0)
    <3>1. Arriving(current) /\ body[current] \in Bodies[current]
      BY <1>2 DEF Arriving, Places, Identities
    <3>2. tokens[current] = <<>>
      BY <1>2, <3>1 DEF Batches
    <3>3. MayHave(body[current], 0)
      BY <1>2, <3>1, NewTokens
    <3> QED BY <3>1, <3>2, <3>3, EmptyList
  <2>3. ASSUME NEW q \in Requests,
               q \in Range(requests') \/ q \in Range(active) \/ tokens[q] # <<>>
        PROVE  /\ ~ParametersRejected(body[q]) /\ ~InputRejected(body[q])
               /\ MayHave(body[q], Len(tokens[q]))
    BY <1>2, <1>4, <2>2, <2>3 DEF Limits, rejected
  <2> QED BY <1>2, <2>1, <2>3 DEF Limits
<1> QED BY <1>6, <1>7, <1>8, <1>9, <1>10, <1>12, <1>13

-----------------------------------------------------------------------------
(* The handlers and the clients *)

(* An event moves the first message of the channel to the client. *)
LEMMA EventInOrder ==
    ASSUME NEW r \in Requests, InOrder(r), channel[r] # <<>>, tokens[r] \in Seq({"token", "eos"}),
           channel'[r] = Tail(channel[r]), got'[r] = Append(got[r], Head(channel[r])),
           stream'[r] = IF Head(channel[r]).kind = "Finished" THEN "Completed" ELSE "Started",
           conn[r] = "open", conn'[r] = "open",
           body'[r] = body[r], tokens'[r] = tokens[r], stopped'[r] = stopped[r]
    PROVE  InOrder(r)'
<1> DEFINE g == got[r]
           c == channel[r]
           n == Len(g)
           m == Len(c)
           t == Len(tokens[r])
           msg(k) == Message(body[r], tokens[r], k)
<1>1. g \in Seq(StreamMessages) /\ c \in Seq(StreamMessages) /\ n \in Nat /\ m \in Nat /\ t \in Nat
  BY DEF InOrder
<1>2. /\ m >= 1 /\ Head(c) = c[1] /\ Head(c) \in StreamMessages
      /\ Tail(c) \in Seq(StreamMessages) /\ Len(Tail(c)) = m - 1 /\ DOMAIN c = 1..m
      /\ DOMAIN Tail(c) = 1..(m - 1)
      /\ \A k \in 1..(m - 1) : Tail(c)[k] = c[k + 1] /\ k + 1 \in 1..m
  BY <1>1
<1>3. /\ Append(g, Head(c)) \in Seq(StreamMessages) /\ Len(Append(g, Head(c))) = n + 1
      /\ DOMAIN Append(g, Head(c)) = 1..(n + 1) /\ DOMAIN g = 1..n
      /\ \A k \in 1..n : Append(g, Head(c))[k] = g[k]
      /\ Append(g, Head(c))[n + 1] = c[1]
  BY <1>1, <1>2
<1>4. /\ \A k \in 1..n : g[k] = msg(k)
      /\ \A k \in 1..m : c[k] = msg(n + k)
      /\ n + m > t => stopped[r]
      /\ n + m >= t
  BY <1>2, <1>3 DEF InOrder
<1>5. c[1].kind = "Finished" => n + 1 > t
  <2>1. c[1] = msg(n + 1)
    BY <1>1, <1>2, <1>4
  <2>2. n + 1 <= t => c[1].kind = "Chunk"
    BY <2>1 DEF Message, Chunk
  <2> QED BY <1>1, <2>2
<1>6. /\ got'[r] = Append(g, Head(c)) /\ channel'[r] = Tail(c)
      /\ Len(got'[r]) = n + 1 /\ Len(channel'[r]) = m - 1
      /\ (stream'[r] = "Completed" => c[1].kind = "Finished") /\ Len(tokens'[r]) = t
  BY <1>2, <1>3
<1> HIDE DEF g, c, n, m, t, msg
<1>7. \A k \in DOMAIN got'[r] : got'[r][k] = msg(k)
  <2> TAKE k \in DOMAIN got'[r]
  <2>1. k \in 1..n \/ k = n + 1
    BY <1>1, <1>3, <1>6
  <2>2. CASE k \in 1..n
    BY <1>3, <1>4, <1>6, <2>2
  <2>3. CASE k = n + 1
    <3>1. c[1] = msg(n + 1)
      BY <1>1, <1>2, <1>4
    <3> QED BY <1>3, <1>6, <2>3, <3>1
  <2> QED BY <2>1, <2>2, <2>3
<1>8. \A k \in DOMAIN channel'[r] : channel'[r][k] = msg(Len(got'[r]) + k)
  <2> TAKE k \in DOMAIN channel'[r]
  <2>1. k \in 1..(m - 1) /\ channel'[r][k] = c[k + 1] /\ c[k + 1] = msg(n + (k + 1))
    BY <1>2, <1>4, <1>6
  <2>2. \A a \in Nat : a + (k + 1) = (a + 1) + k
    BY <1>1, <2>1
  <2>3. n + (k + 1) = Len(got'[r]) + k
    BY <1>1, <1>6, <2>2
  <2> QED BY <2>1, <2>3
<1>9. /\ Len(got'[r]) + Len(channel'[r]) = n + m
      /\ Len(got'[r]) = n + 1 /\ got'[r] \in Seq(StreamMessages)
      /\ channel'[r] \in Seq(StreamMessages)
  <2>1. \A a, b \in Nat : (a + 1) + (b - 1) = a + b
    OBVIOUS
  <2> QED BY <1>1, <1>2, <1>3, <1>6, <2>1
<1>10. StreamMessages' = StreamMessages
  BY DEF StreamMessages
<1>11. /\ Len(got'[r]) + Len(channel'[r]) > Len(tokens'[r]) => stopped'[r]
       /\ Len(got'[r]) + Len(channel'[r]) >= Len(tokens'[r])
       /\ stream'[r] = "Completed" => Len(got'[r]) > Len(tokens'[r])
  BY <1>4, <1>5, <1>6, <1>9
<1> QED BY <1>7, <1>8, <1>9, <1>10, <1>11 DEF InOrder, msg

(* Its receiver gone, the stream has ended, or is cut off. *)
LEMMA ClosedInOrder ==
    ASSUME NEW r \in Requests, InOrder(r), tokens[r] \in Seq({"token", "eos"}),
           channel'[r] = <<>>, got'[r] = got[r], conn'[r] \in {"ok", "interrupted", "left"},
           stream'[r] = "Completed" \/ conn'[r] = "ok" => stream[r] = "Completed",
           body'[r] = body[r], tokens'[r] = tokens[r], stopped'[r] = stopped[r]
    PROVE  InOrder(r)'
<1>1. Len(got[r]) \in Nat /\ Len(channel[r]) \in Nat /\ Len(tokens[r]) \in Nat
  BY DEF InOrder
<1>2. Len(channel'[r]) = 0 /\ channel'[r] \in Seq(StreamMessages) /\ DOMAIN channel'[r] = {}
  OBVIOUS
<1>3. \A a, b, c \in Nat : a + 0 > c => a + b > c
  OBVIOUS
<1>4. Len(got[r]) + 0 > Len(tokens[r]) => Len(got[r]) + Len(channel[r]) > Len(tokens[r])
  BY <1>1, <1>3
<1>5. Len(got[r]) + 0 > Len(tokens[r]) => stopped[r]
  BY <1>4 DEF InOrder
<1>6. StreamMessages' = StreamMessages
  BY DEF StreamMessages
<1> QED BY <1>2, <1>5, <1>6 DEF InOrder

(* What a response says is read from its own request only. *)
LEMMA InOrderFrame ==
    ASSUME NEW q, InOrder(q), got'[q] = got[q], channel'[q] = channel[q], body'[q] = body[q],
           tokens'[q] = tokens[q], stopped'[q] = stopped[q], conn'[q] = conn[q],
           stream'[q] = stream[q]
    PROVE  InOrder(q)'
BY DEF InOrder

(* A connection ends, or goes on: everything but what its client receives *)
LEMMA ConnectionStep ==
    ASSUME ServiceInv,
           UNCHANGED <<ranks, body, id, counter, server, shutdown, serving, engineTask, sequences>>,
           conn' \in [Requests -> Conns],
           \A q \in Requests : /\ conn'[q] = "new" <=> conn[q] = "new"
                               /\ conn'[q] = "open" => conn[q] = "open"
    PROVE  /\ RanksInv' /\ HttpTypes' /\ ServingTypes' /\ EngineTypes'
           /\ Lifecycle' /\ Identities' /\ Places' /\ Batches' /\ Limits'
           /\ \A q \in Requests : Over(q) => Over(q)'
<1> USE DEF ServiceInv, ranks, serving, engineTask, sequences
<1>1. RanksInv' /\ ServingTypes' /\ EngineTypes' /\ Limits'
  BY RanksFrame, ServingFrame, EngineFrame, LimitsFrame
<1>2. HttpTypes' /\ Lifecycle'
  BY DEF HttpTypes, Servers, Lifecycle, DispatcherDropped
<1>3. Identities'
  <2>1. {q \in Requests : conn'[q] # "new"} = {q \in Requests : conn[q] # "new"}
    OBVIOUS
  <2> QED BY <2>1 DEF Identities
<1>4. /\ Range(active) \subseteq Requests /\ Range(finished) \subseteq Requests
      /\ \A k \in DOMAIN senders : senders[k] \in Requests
  BY RangeOfList DEF EngineTypes
<1>5. \A q : Arriving(q)' <=> Arriving(q)
  BY DEF Arriving
<1>6. Places'
  BY <1>4, <1>5 DEF Places
<1>7. Batches'
  BY <1>5 DEF Batches
<1>8. \A q \in Requests : Over(q) => Over(q)'
  BY <1>5 DEF Over
<1> QED BY <1>1, <1>2, <1>3, <1>6, <1>7, <1>8

LEMMA HandleResponseStep ==
    ASSUME ServiceInv, NEW r \in Requests, HandleResponse(r) PROVE ServiceInv'
<1>1. /\ conn[r] = "open" /\ ~body[r].stream
      /\ UNCHANGED <<ranks, body, id, counter, server, shutdown, serving, engineTask,
                     sequences, stream>>
      /\ \/ /\ channel[r] # <<>> /\ got' = [got EXCEPT ![r] = channel[r]]
            /\ conn' = [conn EXCEPT ![r] = "ok"] /\ channel' = [channel EXCEPT ![r] = <<>>]
         \/ conn' = [conn EXCEPT ![r] = "error"] /\ UNCHANGED <<got, channel>>
  BY DEF HandleResponse, DropReceiver
<1>2. conn \in [Requests -> Conns]
  BY DEF ServiceInv, HttpTypes
<1>3. /\ conn' \in [Requests -> Conns]
      /\ \A q \in Requests : /\ conn'[q] = "new" <=> conn[q] = "new"
                             /\ conn'[q] = "open" => conn[q] = "open"
                             /\ q # r => conn'[q] = conn[q]
      /\ conn'[r] \in {"ok", "error"}
  BY <1>1, <1>2 DEF Conns
<1>4. /\ RanksInv' /\ HttpTypes' /\ ServingTypes' /\ EngineTypes'
      /\ Lifecycle' /\ Identities' /\ Places' /\ Batches' /\ Limits'
      /\ \A q \in Requests : Over(q) => Over(q)'
  BY <1>1, <1>3, ConnectionStep
<1>5. /\ DOMAIN channel' = Requests /\ DOMAIN got' = Requests
      /\ \A q \in Requests : q # r => channel'[q] = channel[q] /\ got'[q] = got[q]
      /\ \/ channel[r] # <<>> /\ got'[r] = channel[r] /\ channel'[r] = <<>>
         \/ channel'[r] = channel[r] /\ got'[r] = got[r] /\ conn'[r] = "error"
  BY <1>1, <1>2 DEF ServiceInv, ClientTypes
<1>6. ClientTypes'
  BY <1>1, <1>3, <1>5 DEF ServiceInv, ClientTypes, sequences
<1>7. Answers'
  <2>1. ASSUME NEW q \in Requests, conn'[q] # "new", ~body[q].stream
        PROVE  /\ channel'[q] # <<>> => IsAnswer(channel[q], q) /\ channel'[q] = channel[q]
               /\ conn'[q] = "ok" => \E c : IsAnswer(c, q) /\ got'[q] = c
    BY <1>1, <1>3, <1>5, <2>1 DEF ServiceInv, Answers
  <2>2. \A q \in Requests : \A c : IsAnswer(c, q) => IsAnswer(c, q)'
    BY <1>1, <1>4 DEF IsAnswer, Encode, sequences
  <2> QED BY <1>1, <1>3, <1>5, <2>1, <2>2 DEF ServiceInv, Answers
<1>8. Streams'
  <2>1. ASSUME NEW q \in Requests, q # r, InOrder(q) PROVE InOrder(q)'
    <3>1. /\ got'[q] = got[q] /\ channel'[q] = channel[q] /\ body'[q] = body[q]
          /\ tokens'[q] = tokens[q] /\ stopped'[q] = stopped[q] /\ conn'[q] = conn[q]
          /\ stream'[q] = stream[q]
      BY <1>1, <1>3, <1>5, <2>1 DEF sequences
    <3> QED BY <2>1, <3>1, InOrderFrame
  <2> QED BY <1>1, <1>3, <2>1 DEF ServiceInv, Streams
<1> QED BY <1>4, <1>6, <1>7, <1>8 DEF ServiceInv

LEMMA ClientLeavesStep ==
    ASSUME ServiceInv, NEW r \in Requests, ClientLeaves(r) PROVE ServiceInv'
<1>1. /\ conn[r] = "open" /\ conn' = [conn EXCEPT ![r] = "left"]
      /\ channel' = [channel EXCEPT ![r] = <<>>]
      /\ UNCHANGED <<ranks, body, id, counter, server, shutdown, serving, engineTask,
                     sequences, stream, got>>
  BY DEF ClientLeaves, DropReceiver
<1>2. /\ conn' \in [Requests -> Conns]
      /\ \A q \in Requests : /\ conn'[q] = "new" <=> conn[q] = "new"
                             /\ conn'[q] = "open" => conn[q] = "open"
                             /\ q # r => conn'[q] = conn[q] /\ channel'[q] = channel[q]
      /\ conn'[r] = "left" /\ channel'[r] = <<>> /\ DOMAIN channel' = Requests
  BY <1>1 DEF Conns, ServiceInv, HttpTypes, ClientTypes
<1>3. /\ RanksInv' /\ HttpTypes' /\ ServingTypes' /\ EngineTypes'
      /\ Lifecycle' /\ Identities' /\ Places' /\ Batches' /\ Limits'
      /\ \A q \in Requests : Over(q) => Over(q)'
  BY <1>1, <1>2, ConnectionStep
<1>4. ClientTypes'
  BY <1>1, <1>2 DEF ServiceInv, ClientTypes, sequences
<1>5. Answers'
  <2>1. \A q \in Requests : \A c : IsAnswer(c, q) => IsAnswer(c, q)'
    BY <1>1, <1>3 DEF IsAnswer, Encode, sequences
  <2> QED BY <1>1, <1>2, <2>1 DEF ServiceInv, Answers
<1>6. Streams'
  <2>1. ASSUME NEW q \in Requests, InOrder(q) PROVE InOrder(q)'
    <3>1. CASE q # r
      BY <1>1, <1>2, <2>1, <3>1 DEF InOrder, sequences
    <3>2. CASE q = r
      <4>1. tokens[r] \in Seq({"token", "eos"}) /\ UNCHANGED <<body, got, stream, tokens, stopped>>
        BY <1>1 DEF ServiceInv, ClientTypes, sequences
      <4> QED BY <1>2, <2>1, <3>2, <4>1, ClosedInOrder
    <3> QED BY <3>1, <3>2
  <2> QED BY <1>1, <1>2, <2>1 DEF ServiceInv, Streams
<1> QED BY <1>3, <1>4, <1>5, <1>6 DEF ServiceInv

LEMMA PollNextStep ==
    ASSUME ServiceInv, NEW r \in Requests, PollNext(r) PROVE ServiceInv'
<1>1. /\ conn[r] = "open" /\ body[r].stream
      /\ UNCHANGED <<ranks, body, id, counter, server, shutdown, serving, engineTask, sequences>>
  BY DEF PollNext
<1>2. /\ conn \in [Requests -> Conns] /\ DOMAIN channel = Requests /\ DOMAIN got = Requests
      /\ stream \in [Requests -> {"NotStarted", "Started", "Completed", "Interrupted"}]
      /\ tokens[r] \in Seq({"token", "eos"})
  BY DEF ServiceInv, HttpTypes, ClientTypes
<1> DEFINE Closed == /\ channel'[r] = <<>> /\ got'[r] = got[r]
                     /\ conn'[r] \in {"ok", "interrupted"}
                     /\ stream'[r] = "Completed" \/ conn'[r] = "ok" => stream[r] = "Completed"
           Next == /\ channel[r] # <<>> /\ channel'[r] = Tail(channel[r])
                   /\ got'[r] = Append(got[r], Head(channel[r]))
                   /\ stream'[r] = IF Head(channel[r]).kind = "Finished"
                                   THEN "Completed" ELSE "Started"
                   /\ conn'[r] = "open"
           Same == UNCHANGED <<conn, channel, got, stream>>
<1>3. /\ conn' \in [Requests -> Conns] /\ DOMAIN channel' = Requests /\ DOMAIN got' = Requests
      /\ stream' \in [Requests -> {"NotStarted", "Started", "Completed", "Interrupted"}]
      /\ \A q \in Requests : q # r => /\ conn'[q] = conn[q] /\ channel'[q] = channel[q]
                                      /\ got'[q] = got[q] /\ stream'[q] = stream[q]
      /\ Closed \/ Next \/ Same
  <2>1. CASE stream[r] = "Completed"
    BY <1>1, <1>2, <2>1 DEF PollNext, DropReceiver, Conns
  <2>2. CASE stream[r] # "Completed" /\ Event(r)
    BY <1>1, <1>2, <2>2 DEF Event
  <2>3. CASE stream[r] # "Completed" /\ Interrupted(r) /\ ~Event(r)
    BY <1>1, <1>2, <2>3 DEF PollNext, DropReceiver, Conns
  <2>4. CASE stream[r] # "Completed" /\ ~Interrupted(r) /\ ~Event(r)
    BY <1>1, <1>2, <2>4 DEF PollNext
  <2> QED BY <2>1, <2>2, <2>3, <2>4
<1>4. conn'[r] # "new" /\ conn'[r] \in {"open", "ok", "interrupted"}
  BY <1>1, <1>3
<1> HIDE DEF Closed, Next, Same
<1>5. /\ RanksInv' /\ HttpTypes' /\ ServingTypes' /\ EngineTypes'
      /\ Lifecycle' /\ Identities' /\ Places' /\ Batches' /\ Limits'
      /\ \A q \in Requests : Over(q) => Over(q)'
  <2>1. \A q \in Requests : /\ conn'[q] = "new" <=> conn[q] = "new"
                            /\ conn'[q] = "open" => conn[q] = "open"
    BY <1>1, <1>3, <1>4
  <2> QED BY <1>1, <1>3, <2>1, ConnectionStep
<1>6. ClientTypes'
  BY <1>1, <1>3, <1>4 DEF ServiceInv, ClientTypes, sequences
<1>7. Answers'
  <2>1. \A q \in Requests : \A c : IsAnswer(c, q) => IsAnswer(c, q)'
    BY <1>1, <1>5 DEF IsAnswer, Encode, sequences
  <2> QED BY <1>1, <1>3, <1>4, <2>1 DEF ServiceInv, Answers
<1>8. Streams'
  <2>1. tokens' = tokens /\ stopped' = stopped
    BY <1>1 DEF sequences
  <2>2. ASSUME NEW q \in Requests, q # r, InOrder(q) PROVE InOrder(q)'
    BY <1>1, <1>3, <1>5, <2>1, <2>2 DEF InOrder
  <2>3. InOrder(r)'
    <3>1. InOrder(r)
      BY <1>1 DEF ServiceInv, Streams
    <3>2. CASE Closed
      BY <1>1, <1>2, <2>1, <3>1, <3>2, ClosedInOrder DEF Closed
    <3>3. CASE Next
      BY <1>1, <1>2, <2>1, <3>1, <3>3, EventInOrder DEF Next
    <3>4. CASE Same
      BY <1>1, <2>1, <3>1, <3>4 DEF Same, InOrder
    <3> QED BY <1>3, <3>2, <3>3, <3>4
  <2> QED BY <1>1, <1>3, <1>4, <2>2, <2>3 DEF ServiceInv, Streams
<1> QED BY <1>5, <1>6, <1>7, <1>8 DEF ServiceInv

LEMMA CompletionHandlerStep ==
    ASSUME ServiceInv, NEW r \in Requests, CompletionHandler(r) PROVE ServiceInv'
<1>1. /\ server = "serving" /\ conn[r] = "new"
      /\ \E b \in Bodies[r] : body' = [body EXCEPT ![r] = b]
      /\ id' = [id EXCEPT ![r] = counter] /\ counter' = counter + 1
      /\ conn' = [conn EXCEPT ![r] = IF ServiceUp THEN "open" ELSE "error"]
      /\ inbox' = IF ServiceUp THEN Append(inbox, r) ELSE inbox
      /\ UNCHANGED <<ranks, server, shutdown, service, current, encode, turn, tokenizers,
                     engineTask, sequences, channel, stream, got>>
  BY DEF CompletionHandler, RequestId
<1>2. /\ conn \in [Requests -> Conns] /\ DOMAIN body = Requests /\ id \in [Requests -> Nat]
      /\ counter \in Nat /\ inbox \in Seq(Requests)
      /\ \A q \in Requests : body[q] \in Bodies[q] \cup {NoValue}
  BY DEF ServiceInv, HttpTypes, ServingTypes
<1>3. /\ conn' \in [Requests -> Conns] /\ DOMAIN body' = Requests /\ id' \in [Requests -> Nat]
      /\ conn'[r] \in {"open", "error"} /\ body'[r] \in Bodies[r] /\ id'[r] = counter
      /\ \A q \in Requests : q # r => /\ conn'[q] = conn[q] /\ body'[q] = body[q]
                                      /\ id'[q] = id[q]
  BY <1>1, <1>2 DEF Conns
<1>4. /\ r \notin Range(inbox) /\ r # current /\ r \notin Range(requests)
      /\ r \notin Range(active) /\ r \notin Range(finished)
      /\ \A k \in DOMAIN senders : senders[k] # r
      /\ tokens[r] = <<>> /\ ~stopped[r] /\ channel[r] = <<>> /\ got[r] = <<>>
      /\ stream[r] = "NotStarted"
  BY <1>1 DEF ServiceInv, Places, Arriving, Batches, Answers, Streams
<1>5. /\ inbox' \in Seq(Requests) /\ IsInjective(inbox')
      /\ Range(inbox') \subseteq Range(inbox) \cup {r}
  <2>1. IsInjective(inbox)
    BY DEF ServiceInv, Places
  <2>2. /\ Append(inbox, r) \in Seq(Requests) /\ IsInjective(Append(inbox, r))
        /\ Range(Append(inbox, r)) = Range(inbox) \cup {r}
    BY <1>2, <1>4, <2>1, AppendList
  <2> QED BY <1>1, <1>2, <2>1, <2>2
<1>6. /\ Range(active) \subseteq Requests /\ Range(finished) \subseteq Requests
      /\ \A k \in DOMAIN senders : senders[k] \in Requests
  BY RangeOfList DEF ServiceInv, EngineTypes
<1>7. \A q \in Requests : Arriving(q)' => Arriving(q) \/ q = r
  BY <1>1, <1>5 DEF Arriving, engineTask
<1> USE DEF ServiceInv, ranks, engineTask, sequences
<1>8. RanksInv' /\ EngineTypes'
  BY <1>1, RanksFrame, EngineFrame
<1>9. HttpTypes'
  BY <1>1, <1>2, <1>3 DEF HttpTypes
<1>10. ServingTypes'
  BY <1>1, <1>5 DEF ServingTypes
<1>11. ClientTypes'
  BY <1>1, <1>3 DEF ClientTypes
<1>12. Lifecycle'
  BY <1>1, <1>3 DEF Lifecycle, DispatcherDropped
<1>13. Identities'
  <2> DEFINE S == {q \in Requests : conn[q] # "new"}
             T == {q \in Requests : conn'[q] # "new"}
  <2>1. T = S \cup {r} /\ r \notin S
    BY <1>1, <1>3
  <2>2. IsFiniteSet(S)
    BY ServiceAssumption, FS_Subset
  <2>3. Cardinality(S) = counter
    BY DEF Identities
  <2> HIDE DEF S, T
  <2>4. Cardinality(T) = Cardinality(S) + 1
    BY <2>1, <2>2, FS_AddElement
  <2>5. Cardinality(T) = counter'
    BY <1>1, <2>3, <2>4
  <2>6. /\ \A q \in Requests : conn[q] # "new" => id[q] < counter /\ body[q] \in Bodies[q]
        /\ \A p, q \in Requests :
               conn[p] # "new" /\ conn[q] # "new" /\ id[p] = id[q] => p = q
        /\ \A q \in Requests : id[q] <= counter
    BY DEF Identities
  <2>7. /\ \A q \in Requests : id'[q] \in Nat /\ (q # r => id'[q] <= counter)
        /\ \A q \in Requests : conn'[q] # "new" /\ q # r => id'[q] < counter
    BY <1>3, <2>6
  <2>8. \A q \in Requests : id'[q] <= counter'
    BY <1>1, <1>2, <1>3, <2>7
  <2>9. \A q \in Requests : conn'[q] # "new" => id'[q] < counter' /\ body'[q] \in Bodies[q]
    BY <1>1, <1>2, <1>3, <2>6, <2>7
  <2>10. \A p, q \in Requests :
             conn'[p] # "new" /\ conn'[q] # "new" /\ id'[p] = id'[q] => p = q
    BY <1>2, <1>3, <2>6, <2>7
  <2> QED BY <2>5, <2>8, <2>9, <2>10 DEF Identities, T
<1>14. Places'
  <2>1. Range(inbox') \cap Range(requests) = {} /\ current \notin Range(inbox')
    BY <1>4, <1>5 DEF Places
  <2> QED BY <1>1, <1>3, <1>4, <1>5, <1>6, <1>7, <2>1 DEF Places
<1>15. Batches'
  BY <1>1, <1>3, <1>4, <1>6, <1>7 DEF Batches
<1>16. Answers'
  <2>1. \A q \in Requests : q # r /\ Over(q) => Over(q)'
    BY <1>1, <1>7 DEF Over
  <2>2. \A q \in Requests : \A c : q # r /\ IsAnswer(c, q) => IsAnswer(c, q)'
    BY <1>1, <1>3, <2>1 DEF IsAnswer
  <2> QED BY <1>1, <1>3, <1>4, <2>2 DEF Answers
<1>17. Limits'
  <2>1. \A b : /\ ParametersRejected(b)' = ParametersRejected(b)
               /\ InputRejected(b)' = InputRejected(b) /\ \A n : MayHave(b, n)' = MayHave(b, n)
    BY LimitsAreConstant
  <2> QED BY <1>1, <1>3, <1>4, <1>6, <2>1 DEF Limits
<1>18. Streams'
  <2>1. ASSUME NEW q \in Requests, q # r, InOrder(q) PROVE InOrder(q)'
    <3>1. /\ got'[q] = got[q] /\ channel'[q] = channel[q] /\ body'[q] = body[q]
          /\ tokens'[q] = tokens[q] /\ stopped'[q] = stopped[q] /\ conn'[q] = conn[q]
          /\ stream'[q] = stream[q]
      BY <1>1, <1>3, <2>1
    <3> QED BY <2>1, <3>1, InOrderFrame
  <2>2. InOrder(r)'
    BY <1>1, <1>3, <1>4 DEF InOrder
  <2> QED BY <1>1, <1>3, <2>1, <2>2 DEF Streams
<1> QED BY <1>8, <1>9, <1>10, <1>11, <1>12, <1>13, <1>14, <1>15, <1>16, <1>17, <1>18

-----------------------------------------------------------------------------
(* The engine task *)

(* The scheduler selects some of what it holds, each once. *)
LEMMA ScheduledSome ==
    ASSUME ServiceInv, NEW rs \in Seq(Requests), rs # <<>>, IsInjective(rs)
    PROVE  /\ Scheduled(rs) \in Seq(Requests) /\ Scheduled(rs) # <<>>
           /\ IsInjective(Scheduled(rs)) /\ Range(Scheduled(rs)) \subseteq Range(rs)
<1> DEFINE prompts == Keep(rs, {r \in Requests : tokens[r] = <<>>})
<1>1. prompts \in Seq(Requests) /\ Range(prompts) \subseteq Range(rs)
  BY KeepRange
<1>2. IsInjective(prompts)
  BY KeepInjective
<1>3. Scheduled(rs) = IF prompts # <<>> THEN prompts ELSE rs
  BY DEF Scheduled
<1> HIDE DEF prompts
<1> QED BY <1>1, <1>2, <1>3

(* The dispatcher lives as long as the engine. *)
LEMMA NoneEnded ==
    ServiceInv /\ engine = "up" => \A i \in Ranks : rank[i] # "ended"
BY DEF ServiceInv, Lifecycle, DispatcherDropped

LEMMA EngineReceivesStep == ServiceInv /\ EngineReceives => ServiceInv'
<1> SUFFICES ASSUME ServiceInv, EngineReceives PROVE ServiceInv'
  OBVIOUS
<1> DEFINE r == Head(requests)
           sends == batch = <<>> /\ sent < MaxBatches
<1>1. /\ engine = "up" /\ todo = <<>> /\ finished = <<>> /\ (batch = <<>> \/ reply # "none")
      /\ requests # <<>> /\ requests' = Tail(requests) /\ active' = Append(active, r)
      /\ senders' = [k \in DOMAIN senders \cup {id[r]} |-> IF k = id[r] THEN r ELSE senders[k]]
      /\ \/ sends /\ batch' = Scheduled(active') /\ Send
         \/ UNCHANGED <<batch, ranks>>
      /\ UNCHANGED <<http, serving, engine, todo, finished, sequences, responses>>
  BY DEF EngineReceives, AtSelect, Register, StepsAtOnce
<1>2. /\ r \in Requests /\ requests' \in Seq(Requests)
      /\ Range(requests) = Range(requests') \cup {r}
      /\ IsInjective(requests') /\ r \notin Range(requests')
  BY <1>1, HeadTail DEF ServiceInv, EngineTypes, Places
<1>3. Arriving(r) /\ conn[r] # "new" /\ r \notin Range(active) /\ r \notin Range(inbox) /\ r # current
  BY <1>2 DEF ServiceInv, Arriving, Places
<1>4. /\ active' \in Seq(Requests) /\ active' # <<>> /\ IsInjective(active')
      /\ Range(active') = Range(active) \cup {r}
  <2>1. active \in Seq(Requests) /\ IsInjective(active)
    BY DEF ServiceInv, EngineTypes, Places
  <2> QED BY <1>1, <1>2, <1>3, <2>1, AppendList
<1>5. /\ batch \in Seq(Requests) /\ IsInjective(batch) /\ Range(batch) \subseteq Range(active)
      /\ reply \in {"none", "pending", "outputs", "closed"} /\ (batch = <<>> => reply = "none")
  BY <1>1 DEF ServiceInv, EngineTypes, Batches, Lifecycle, RanksInv, RanksTypeOK
<1>6. /\ batch' \in Seq(Requests) /\ IsInjective(batch') /\ Range(batch') \subseteq Range(active')
      /\ (sends /\ Send /\ batch' # <<>>) \/ UNCHANGED <<batch, ranks>>
  BY <1>1, <1>4, <1>5, ScheduledSome
<1>7. tokens[r] = <<>> /\ ~stopped[r] /\ body[r] \in Bodies[r]
  BY <1>2, <1>3 DEF ServiceInv, Batches, Identities
<1>8. \A q \in Requests : Arriving(q)' => Arriving(q) /\ q # r
  BY <1>1, <1>2, <1>3 DEF Arriving, serving
<1> HIDE DEF r, sends
<1>9. RanksInv'
  <2>1. CASE sends /\ Send
    <3>1. \A i \in Ranks : rank[i] # "ended"
      BY <1>1, NoneEnded
    <3> QED BY <1>5, <2>1, <3>1, SendStep DEF sends, ServiceInv
  <2> QED BY <1>6, <2>1, RanksFrame DEF ServiceInv
<1> USE DEF ServiceInv, http, serving, sequences, responses
<1>10. HttpTypes' /\ ServingTypes' /\ ClientTypes' /\ Identities' /\ Streams'
  BY <1>1, HttpFrame, ServingFrame, ClientFrame, IdentitiesFrame, StreamsFrame
<1>11. EngineTypes'
  BY <1>1, <1>2, <1>4, <1>6 DEF EngineTypes
<1>12. Lifecycle'
  <2>1. UNCHANGED rank
    BY <1>6 DEF Send, ranks
  <2>2. batch' # <<>> \/ UNCHANGED <<batch, reply>>
    BY <1>6 DEF ranks
  <2> QED BY <1>1, <2>1, <2>2 DEF Lifecycle, DispatcherDropped
<1>13. Places'
  <2>1. \A k \in DOMAIN senders' : id[senders'[k]] = k /\ conn[senders'[k]] # "new"
    BY <1>1, <1>3 DEF Places
  <2> QED BY <1>1, <1>2, <1>3, <1>4, <1>8, <2>1, EmptyList DEF Places
<1>14. Batches'
  <2>1. \A q \in Range(active) : ~stopped[q]
    BY <1>1, EmptyList DEF Batches
  <2>2. \A q \in Range(active') : ~stopped[q]
    BY <1>4, <1>7, <2>1
  <2> QED BY <1>1, <1>6, <1>8, <2>2, EmptyList DEF Batches
<1>15. \A q \in Requests : Over(q) => Over(q)'
  BY <1>1, <1>3, <1>4, <1>8 DEF Over
<1>16. Answers'
  BY <1>1, <1>15 DEF Answers, IsAnswer, Encode
<1>17. Limits'
  <2>1. \A b : /\ ParametersRejected(b)' = ParametersRejected(b)
               /\ InputRejected(b)' = InputRejected(b) /\ \A n : MayHave(b, n)' = MayHave(b, n)
    BY LimitsAreConstant
  <2>2. /\ ~ParametersRejected(body[r]) /\ ~InputRejected(body[r])
        /\ MayHave(body[r], Len(tokens[r]))
    BY <1>2, <1>7 DEF Limits
  <2>3. MayHave(body[r], Len(tokens[r]) + 1)
    <3>1. Len(tokens[r]) + 1 = 1
      BY <1>7
    <3> QED BY <1>2, <1>7, <3>1, NewTokens
  <2> QED BY <1>1, <1>2, <1>4, <2>1, <2>2, <2>3 DEF Limits
<1> QED BY <1>9, <1>10, <1>11, <1>12, <1>13, <1>14, <1>16, <1>17

LEMMA ReceiveOutputsStep == ServiceInv /\ ReceiveOutputs => ServiceInv'
<1> SUFFICES ASSUME ServiceInv, ReceiveOutputs PROVE ServiceInv'
  OBVIOUS
<1>1. /\ engine = "up" /\ todo = <<>> /\ finished = <<>> /\ reply = "outputs" /\ reply' = "none"
      /\ todo' = batch
      /\ UNCHANGED <<rank, commands, position, config, sent, http, serving, engine, requests,
                     active, senders, batch, finished, sequences, responses>>
  BY DEF ReceiveOutputs, AtSelect
<1> USE <1>1 DEF ServiceInv, http, serving, sequences, responses
<1>2. RanksInv'
  BY TakeReplyStep
<1>3. HttpTypes' /\ ServingTypes' /\ ClientTypes' /\ Identities' /\ Streams'
  BY HttpFrame, ServingFrame, ClientFrame, IdentitiesFrame, StreamsFrame
<1>4. Places' /\ Answers' /\ Limits'
  BY PlacesFrame, AnswersFrame, LimitsFrame
<1>5. EngineTypes' /\ Lifecycle'
  BY DEF EngineTypes, Lifecycle, DispatcherDropped
<1>6. Batches'
  BY DEF Batches, Arriving
<1> QED BY <1>2, <1>3, <1>4, <1>5, <1>6

LEMMA ReceiveClosedStep == ServiceInv /\ ReceiveClosed => ServiceInv'
<1> SUFFICES ASSUME ServiceInv, ReceiveClosed PROVE ServiceInv'
  OBVIOUS
<1>1. /\ engine = "up" /\ todo = <<>> /\ finished = <<>> /\ reply = "closed"
      /\ UNCHANGED <<http, serving, sequences, responses>>
  BY DEF ReceiveClosed, AtSelect
<1>2. CASE EngineEnds("failed") /\ reply' = "none"
           /\ UNCHANGED <<rank, commands, position, config, sent>>
  <2>1. RanksInv'
    BY <1>1, <1>2, TakeReplyStep DEF ServiceInv
  <2>2. /\ ServingTypes' /\ EngineTypes' /\ ClientTypes' /\ Identities' /\ Places' /\ Batches'
        /\ Answers' /\ Limits' /\ Streams'
    BY <1>1, <1>2, EndsStep DEF http, serving
  <2>3. HttpTypes'
    BY <1>1, HttpFrame DEF ServiceInv
  <2>4. Lifecycle'
    BY <1>1, <1>2 DEF ServiceInv, Lifecycle, DispatcherDropped, EngineEnds, http, serving
  <2> QED BY <2>1, <2>2, <2>3, <2>4 DEF ServiceInv
<1>3. CASE /\ sent < MaxBatches /\ Send
           /\ batch' = IF Arrived # <<>> THEN Arrived ELSE batch
           /\ UNCHANGED <<engine, requests, active, senders, todo, finished>>
  <2> USE <1>1, <1>3 DEF ServiceInv, http, serving, sequences, responses
  <2>1. RanksInv'
    BY NoneEnded, SendStep
  <2>2. HttpTypes' /\ ServingTypes' /\ ClientTypes' /\ Identities' /\ Streams'
    BY HttpFrame, ServingFrame, ClientFrame, IdentitiesFrame, StreamsFrame
  <2>3. Places' /\ Answers' /\ Limits'
    BY PlacesFrame, AnswersFrame, LimitsFrame
  <2>4. /\ Arrived \in Seq(Requests) /\ IsInjective(Arrived)
        /\ Range(Arrived) \subseteq Range(active)
    <3>1. active \in Seq(Requests) /\ IsInjective(active)
      BY DEF EngineTypes, Places
    <3> QED BY <3>1, KeepRange, KeepInjective DEF Arrived
  <2>5. batch' \in Seq(Requests) /\ IsInjective(batch') /\ Range(batch') \subseteq Range(active)
    BY <2>4 DEF EngineTypes, Batches
  <2>6. batch # <<>> /\ batch' # <<>>
    BY DEF Lifecycle
  <2>7. EngineTypes'
    BY <2>5 DEF EngineTypes
  <2>8. Lifecycle'
    BY <2>6 DEF Lifecycle, DispatcherDropped, Send
  <2>9. Batches'
    <3>1. \A q \in Range(active) : ~stopped[q]
      BY DEF Batches
    <3> QED BY <2>5, <3>1, EmptyList DEF Batches, Arriving
  <2> QED BY <2>1, <2>2, <2>3, <2>7, <2>8, <2>9
<1> QED BY <1>2, <1>3 DEF ReceiveClosed

LEMMA StepStep == ServiceInv /\ Step => ServiceInv'
<1> SUFFICES ASSUME ServiceInv, Step PROVE ServiceInv'
  OBVIOUS
<1>1. /\ engine = "up" /\ batch # <<>> /\ reply = "none" /\ todo = <<>> /\ finished = <<>>
      /\ active' = Keep(active, {r \in Requests : ~stopped[r]})
      /\ finished' = Keep(batch, {r \in Requests : stopped[r]})
      /\ \/ active' # <<>> /\ sent < MaxBatches /\ batch' = Scheduled(active') /\ Send
         \/ batch' = <<>> /\ UNCHANGED ranks
      /\ UNCHANGED <<http, serving, engine, requests, senders, todo, sequences, responses>>
  BY DEF Step, Remaining
<1>2. /\ active \in Seq(Requests) /\ IsInjective(active)
      /\ batch \in Seq(Requests) /\ Range(batch) \subseteq Range(active)
      /\ Range(active) \subseteq Requests
  BY RangeOfList DEF ServiceInv, EngineTypes, Places, Batches
<1>3. /\ active' \in Seq(Requests) /\ IsInjective(active')
      /\ Range(active') = Range(active) \cap {r \in Requests : ~stopped[r]}
      /\ finished' \in Seq(Requests)
      /\ Range(finished') = Range(batch) \cap {r \in Requests : stopped[r]}
  BY <1>1, <1>2, KeepRange, KeepInjective
<1>4. /\ batch' \in Seq(Requests) /\ IsInjective(batch') /\ Range(batch') \subseteq Range(active')
      /\ \/ batch' # <<>> /\ sent < MaxBatches /\ Send
         \/ batch' = <<>> /\ UNCHANGED ranks
  <2>1. CASE active' # <<>> /\ sent < MaxBatches /\ batch' = Scheduled(active') /\ Send
    BY <1>3, <2>1, ScheduledSome
  <2>2. CASE batch' = <<>> /\ UNCHANGED ranks
    BY <2>2, EmptyList
  <2> QED BY <1>1, <2>1, <2>2
<1>5. \A q \in Requests : (Arriving(q)' <=> Arriving(q)) /\ (Over(q) => Over(q)')
  BY <1>1, <1>3 DEF Arriving, Over, serving, sequences
<1> USE DEF ServiceInv, http, serving, sequences, responses
<1>6. RanksInv'
  BY <1>1, <1>4, NoneEnded, SendStep, RanksFrame
<1>7. HttpTypes' /\ ServingTypes' /\ ClientTypes' /\ Identities' /\ Streams'
  BY <1>1, HttpFrame, ServingFrame, ClientFrame, IdentitiesFrame, StreamsFrame
<1>8. EngineTypes'
  BY <1>1, <1>3, <1>4 DEF EngineTypes
<1>9. Lifecycle'
  <2>1. UNCHANGED rank /\ (batch' # <<>> \/ reply' = "none")
    BY <1>1, <1>4 DEF Send, ranks
  <2> QED BY <1>1, <2>1 DEF Lifecycle, DispatcherDropped
<1>10. Places'
  BY <1>1, <1>2, <1>3, <1>5 DEF Places
<1>11. Batches'
  <2>1. \A q \in Range(active') : ~stopped[q]
    BY <1>3
  <2>2. \A q \in Range(finished') : stopped[q] /\ ~Arriving(q) /\ q \notin Range(active')
    BY <1>2, <1>3 DEF Places
  <2>3. Range(finished') \subseteq Requests
    BY <1>3
  <2> QED BY <1>1, <1>4, <1>5, <2>1, <2>2, <2>3, EmptyList DEF Batches
<1>12. Answers'
  BY <1>1, <1>5 DEF Answers, IsAnswer, Encode
<1>13. Limits'
  BY <1>1, <1>3, LimitsAreConstant DEF Limits
<1> QED BY <1>6, <1>7, <1>8, <1>9, <1>10, <1>11, <1>12, <1>13

LEMMA SendOutputStep == ServiceInv /\ SendOutput => ServiceInv'
<1> SUFFICES ASSUME ServiceInv, SendOutput PROVE ServiceInv'
  OBVIOUS
<1> DEFINE r == Head(finished)
           to == IF id[r] \in DOMAIN senders THEN senders[id[r]] ELSE NoValue
           answers == to # NoValue /\ ~body[to].stream
<1>1. /\ engine = "up" /\ finished # <<>>
      /\ UNCHANGED <<ranks, http, serving, sequences, stream, wake, got>>
      /\ IF answers /\ conn[to] # "open"
         THEN EngineEnds("failed") /\ UNCHANGED channel
         ELSE /\ channel' = IF answers THEN [channel EXCEPT ![to] = <<Output(r)>>] ELSE channel
              /\ senders' = IF answers THEN [k \in DOMAIN senders \ {id[r]} |-> senders[k]]
                            ELSE senders
              /\ finished' = Tail(finished)
              /\ UNCHANGED <<engine, requests, active, batch, todo>>
  BY DEF SendOutput
<1>2. /\ r \in Requests /\ r \in Range(finished)
      /\ Tail(finished) \in Seq(Requests) /\ Range(Tail(finished)) \subseteq Range(finished)
  BY <1>1, HeadTail DEF ServiceInv, EngineTypes
<1>3. to = r \/ to = NoValue
  <2> SUFFICES ASSUME id[r] \in DOMAIN senders PROVE senders[id[r]] = r
    OBVIOUS
  <2>1. conn[r] # "new"
    BY <1>2 DEF ServiceInv, Places
  <2>2. /\ senders[id[r]] \in Requests /\ id[senders[id[r]]] = id[r]
        /\ conn[senders[id[r]]] # "new"
    BY DEF ServiceInv, Places, EngineTypes
  <2> QED BY <1>2, <2>1, <2>2 DEF ServiceInv, Identities
<1>4. Over(r)
  BY <1>2 DEF ServiceInv, Batches, Over
<1>5. Output(r).ids = Encode(body[r]) \o tokens[r] /\ <<Output(r)>>[1] = Output(r)
      /\ Len(<<Output(r)>>) = 1
  BY DEF Output
<1> HIDE DEF r, to, answers
<1>6. CASE EngineEnds("failed") /\ UNCHANGED channel
  <2>1. UNCHANGED reply /\ RanksInv'
    BY <1>1, RanksFrame DEF ranks, ServiceInv
  <2>2. /\ ServingTypes' /\ EngineTypes' /\ ClientTypes' /\ Identities' /\ Places' /\ Batches'
        /\ Answers' /\ Limits' /\ Streams'
    BY <1>1, <1>6, <2>1, EndsStep DEF http, serving, responses
  <2>3. HttpTypes'
    BY <1>1, HttpFrame DEF ServiceInv
  <2>4. Lifecycle'
    BY <1>1, <1>6 DEF ServiceInv, Lifecycle, DispatcherDropped, EngineEnds, http, serving, ranks
  <2> QED BY <2>1, <2>2, <2>3, <2>4 DEF ServiceInv
<1>7. CASE /\ channel' = IF answers THEN [channel EXCEPT ![to] = <<Output(r)>>] ELSE channel
           /\ senders' = IF answers THEN [k \in DOMAIN senders \ {id[r]} |-> senders[k]]
                         ELSE senders
           /\ finished' = Tail(finished)
           /\ UNCHANGED <<engine, requests, active, batch, todo>>
  <2> USE <1>1, <1>7 DEF ServiceInv, ranks, http, serving, sequences
  <2>1. RanksInv' /\ HttpTypes' /\ ServingTypes' /\ Lifecycle' /\ Identities' /\ Limits'
    BY RanksFrame, HttpFrame, ServingFrame, LifecycleFrame, IdentitiesFrame, LimitsFrame
  <2>2. EngineTypes'
    BY <1>2 DEF EngineTypes
  <2>3. Places'
    BY <1>2 DEF Places, Arriving
  <2>4. Batches'
    BY <1>2 DEF Batches, Arriving
  <2>5. /\ DOMAIN channel' = Requests
        /\ \A q \in Requests : \/ channel'[q] = channel[q]
                               \/ /\ q = r /\ ~body[q].stream
                                  /\ channel'[q] = <<Output(r)>>
    <3>1. DOMAIN channel = Requests
      BY DEF ClientTypes
    <3>2. CASE ~answers
      BY <3>1, <3>2
    <3>3. CASE answers
      <4>1. to = r /\ ~body[r].stream
        BY <1>3, <3>3 DEF answers
      <4> QED BY <3>1, <3>3, <4>1
    <3> QED BY <3>2, <3>3
  <2>6. ClientTypes'
    BY <2>5 DEF ClientTypes
  <2>7. \A q \in Requests : Over(q) => Over(q)'
    BY DEF Over, Arriving
  <2>8. Answers'
    <3>1. \A q \in Requests : \A c : IsAnswer(c, q) => IsAnswer(c, q)'
      BY <2>7 DEF IsAnswer
    <3>2. IsAnswer(<<Output(r)>>, r)
      BY <1>4, <1>5 DEF IsAnswer
    <3>3. conn[r] # "new"
      BY <1>2 DEF Places
    <3>4. ASSUME NEW q \in Requests, conn[q] # "new", ~body[q].stream, channel'[q] # <<>>
          PROVE  IsAnswer(channel'[q], q)
      BY <2>5, <3>2, <3>4 DEF Answers
    <3>5. \A q \in Requests : conn[q] = "new" => channel'[q] = <<>>
      BY <2>5, <3>3 DEF Answers
    <3> QED BY <3>1, <3>4, <3>5 DEF Answers
  <2>9. Streams'
    <3>1. ASSUME NEW q \in Requests, body[q].stream, InOrder(q) PROVE InOrder(q)'
      BY <2>5, <3>1 DEF InOrder
    <3> QED BY <3>1 DEF Streams
  <2> QED BY <2>1, <2>2, <2>3, <2>4, <2>6, <2>8, <2>9
<1> QED BY <1>1, <1>6, <1>7

(* One more token leaves the messages of the earlier ones as they were, ... *)
LEMMA EarlierMessages ==
    ASSUME NEW b, NEW A, NEW ts \in Seq(A), NEW t \in A, NEW k \in 1..Len(ts)
    PROVE  Message(b, Append(ts, t), k) = Message(b, ts, k)
<1> DEFINE n == Len(ts)
           l == Append(ts, t)
<1>1. /\ n \in Nat /\ k \in 1..n /\ l \in Seq(A) /\ Len(l) = n + 1
      /\ \A j \in 1..n : l[j] = ts[j]
  OBVIOUS
<1>2. k <= Len(l) /\ k <= n
  BY <1>1
<1>3. SubSeq(l, 1, k) = SubSeq(ts, 1, k)
  <2>1. /\ SubSeq(l, 1, k) = [j \in 1..k |-> l[j]]
        /\ SubSeq(ts, 1, k) = [j \in 1..k |-> ts[j]]
    BY <1>1, <1>2
  <2>2. \A j \in 1..k : j \in 1..n
    BY <1>1
  <2> HIDE DEF l
  <2> QED BY <1>1, <2>1, <2>2
<1> HIDE DEF l
<1>4. Message(b, l, k) = Message(b, ts, k)
  BY <1>2, <1>3 DEF Message, Chunk
<1> QED BY <1>4 DEF l

(* ... and adds its own, the text of the whole answer, before the end. *)
LEMMA NextMessage ==
    ASSUME NEW b, b.prompt \in Seq(STRING), NEW ts \in Seq({"token", "eos"}),
           NEW t \in {"token", "eos"}
    PROVE  /\ Message(b, Append(ts, t), Len(ts) + 1)
                  = [kind |-> "Chunk", text |-> Decode(Encode(b) \o ts \o <<t>>)]
           /\ \A k \in Nat : k > Len(ts) + 1 =>
                  Message(b, Append(ts, t), k) = [kind |-> "Finished"]
<1> DEFINE n == Len(ts)
           l == Append(ts, t)
<1>1. n \in Nat /\ l \in Seq({"token", "eos"}) /\ Len(l) = n + 1 /\ n + 1 <= n + 1
  OBVIOUS
<1>2. SubSeq(l, 1, n + 1) = l
  <2>1. SubSeq(l, 1, n + 1) = [j \in 1..(n + 1) |-> l[j]]
    BY <1>1
  <2> HIDE DEF l
  <2>2. l = [j \in 1..(n + 1) |-> l[j]]
    BY <1>1
  <2> QED BY <2>1, <2>2
<1>3. Encode(b) \o l = Encode(b) \o ts \o <<t>>
  <2>1. Encode(b) \in Seq(Pieces) /\ ts \in Seq(Pieces) /\ t \in Pieces
    <3>1. <<"bos">> \in Seq(Pieces) /\ b.prompt \in Seq(Pieces) /\ ts \in Seq(Pieces)
      BY DEF Pieces
    <3> QED BY <3>1 DEF Encode, Pieces
  <2> HIDE DEF l
  <2>2. \A e \in Seq(Pieces) : \A q \in Seq(Pieces) : \A x \in Pieces :
            e \o Append(q, x) = e \o q \o <<x>>
    OBVIOUS
  <2> QED BY <2>1, <2>2 DEF l
<1> HIDE DEF l
<1>4. Message(b, l, n + 1) = [kind |-> "Chunk", text |-> Decode(Encode(b) \o ts \o <<t>>)]
  BY <1>1, <1>2, <1>3 DEF Message, Chunk
<1>5. \A k \in Nat : k > n + 1 => Message(b, l, k) = [kind |-> "Finished"]
  BY <1>1 DEF Message
<1> QED BY <1>4, <1>5 DEF l

(* Where the messages of one output go. *)
LEMMA IndexOfMessage ==
    ASSUME NEW g \in Nat, NEW m \in Nat, NEW j \in Nat, NEW k \in 1..(m + (1 + j))
    PROVE  /\ k \in 1..m \/ k = m + 1 \/ k > m + 1
           /\ k \in 1..m => g + k \in 1..(g + m)
           /\ k = m + 1 => g + k = (g + m) + 1 /\ 1 \in 1..(1 + j)
           /\ k > m + 1 => /\ g + k > (g + m) + 1 /\ g + k \in Nat
                           /\ k - m \in 2..(1 + j) /\ k - m \in 1..(1 + j)
                           /\ m + (k - m) = k
OBVIOUS

(* The messages of one output continue the stream of a client that is there. *)
LEMMA SentInOrder ==
    ASSUME NEW r \in Requests, InOrder(r), ~stopped[r],
           tokens[r] \in Seq({"token", "eos"}), body[r].prompt \in Seq(STRING),
           conn[r] = "open", NEW t \in {"token", "eos"}, NEW j \in Nat, NEW x,
           x = [kind |-> "Chunk", text |-> Decode(Encode(body[r]) \o tokens[r] \o <<t>>)],
           tokens'[r] = Append(tokens[r], t),
           channel'[r] = channel[r] \o (<<x>> \o [k \in 1..j |-> [kind |-> "Finished"]]),
           j > 0 => stopped'[r],
           conn'[r] = conn[r], body'[r] = body[r], got'[r] = got[r], stream'[r] = stream[r]
    PROVE  InOrder(r)'
<1> DEFINE b == body[r]
           ts == tokens[r]
           us == Append(ts, t)
           c == channel[r]
           n == Len(ts)
           g == Len(got[r])
           m == Len(c)
           fin == [k \in 1..j |-> [kind |-> "Finished"]]
           new == <<x>> \o fin
           d == c \o new
<1>1. /\ g \in Nat /\ m \in Nat /\ n \in Nat /\ Len(us) = n + 1
      /\ got[r] \in Seq(StreamMessages) /\ DOMAIN got[r] = 1..g
      /\ c \in Seq(StreamMessages) /\ DOMAIN c = 1..m
      /\ \A k \in 1..g : got[r][k] = Message(b, ts, k)
      /\ \A k \in 1..m : c[k] = Message(b, ts, g + k)
      /\ ~(g + m > n) /\ g + m >= n /\ (stream[r] = "Completed" => g > n)
  <2>1. got[r] \in Seq(StreamMessages) /\ c \in Seq(StreamMessages) /\ Len(us) = n + 1
    BY DEF InOrder
  <2>2. /\ g \in Nat /\ m \in Nat /\ n \in Nat /\ DOMAIN got[r] = 1..g /\ DOMAIN c = 1..m
    BY <2>1
  <2>3. /\ \A k \in 1..g : got[r][k] = Message(b, ts, k)
        /\ \A k \in 1..m : c[k] = Message(b, ts, g + k)
    BY <2>2 DEF InOrder
  <2>4. ~(g + m > n) /\ g + m >= n /\ (stream[r] = "Completed" => g > n)
    BY DEF InOrder
  <2> QED BY <2>1, <2>2, <2>3, <2>4
<1>2. x \in StreamMessages /\ [kind |-> "Finished"] \in StreamMessages
  <2>1. <<"bos">> \in Seq(Pieces) /\ b.prompt \in Seq(Pieces) /\ ts \in Seq(Pieces)
    BY DEF Pieces
  <2>2. <<t>> \in Seq(Pieces) /\ Encode(b) \in Seq(Pieces)
    BY <2>1 DEF Encode, Pieces
  <2>3. Encode(b) \o ts \o <<t>> \in Seq(Pieces)
    BY <2>1, <2>2
  <2> QED BY <2>3 DEF StreamMessages
<1>3. fin \in Seq(StreamMessages) /\ Len(fin) = j
  BY <1>2
<1>4. /\ new \in Seq(StreamMessages) /\ Len(new) = 1 + j /\ new[1] = x
      /\ \A k \in 2..(1 + j) : new[k] = [kind |-> "Finished"]
  <2> HIDE DEF fin
  <2>1. \A k \in 1..j : fin[k] = [kind |-> "Finished"]
    BY DEF fin
  <2>2. <<x>> \in Seq(StreamMessages) /\ Len(<<x>>) = 1 /\ <<x>>[1] = x
    BY <1>2
  <2>3. new \in Seq(StreamMessages) /\ Len(new) = 1 + j /\ new[1] = x
    BY <1>3, <2>2
  <2>4. \A k \in 2..(1 + j) : new[k] = fin[k - 1] /\ k - 1 \in 1..j
    BY <1>3, <2>2
  <2> QED BY <2>1, <2>3, <2>4
<1> HIDE DEF new, fin
<1>5. /\ d \in Seq(StreamMessages) /\ Len(d) = m + (1 + j) /\ DOMAIN d = 1..(m + (1 + j))
      /\ \A k \in 1..m : d[k] = c[k]
      /\ \A k \in 1..(1 + j) : d[m + k] = new[k]
  <2>1. /\ d \in Seq(StreamMessages) /\ Len(d) = m + Len(new)
        /\ \A k \in 1..m : d[k] = c[k]
        /\ \A k \in 1..Len(new) : d[m + k] = new[k]
    <3>1. c \in Seq(StreamMessages) /\ new \in Seq(StreamMessages)
      BY <1>1, <1>4
    <3> HIDE DEF c
    <3> QED BY <3>1, ConcatList DEF m, d
  <2>2. Len(new) = 1 + j /\ m \in Nat
    BY <1>1, <1>4
  <2> HIDE DEF d, m
  <2>3. DOMAIN d = 1..Len(d)
    BY <2>1
  <2> QED BY <2>1, <2>2, <2>3
<1>6. /\ \A k \in 1..n : Message(b, us, k) = Message(b, ts, k)
      /\ Message(b, us, n + 1) = x
      /\ \A k \in Nat : k > n + 1 => Message(b, us, k) = [kind |-> "Finished"]
  <2>1. \A k \in 1..n : Message(b, us, k) = Message(b, ts, k)
    BY EarlierMessages
  <2>2. /\ Message(b, us, n + 1) = x
        /\ \A k \in Nat : k > n + 1 => Message(b, us, k) = [kind |-> "Finished"]
    BY NextMessage
  <2> QED BY <2>1, <2>2
<1>7. /\ tokens'[r] = us /\ channel'[r] = d /\ body'[r] = b
      /\ Len(tokens'[r]) = n + 1 /\ Len(channel'[r]) = m + (1 + j)
      /\ Len(got'[r]) = g
  BY <1>1, <1>5 DEF new, fin
<1> HIDE DEF b, ts, us, c, n, g, m, d
<1>8. g + m = n /\ g \in Nat /\ m \in Nat /\ n \in Nat
  BY <1>1
<1>9. \A k \in DOMAIN got'[r] : got'[r][k] = Message(b, us, k)
  <2> TAKE k \in DOMAIN got'[r]
  <2>1. k \in 1..g /\ k \in 1..n
    BY <1>1, <1>8
  <2> QED BY <1>1, <1>6, <2>1
<1>10. \A k \in DOMAIN channel'[r] : channel'[r][k] = Message(b, us, g + k)
  <2> SUFFICES ASSUME NEW k \in 1..(m + (1 + j)) PROVE d[k] = Message(b, us, g + k)
    BY <1>5, <1>7
  <2>1. CASE k \in 1..m
    <3>1. g + k \in 1..n
      BY <1>8, <2>1, IndexOfMessage
    <3> QED BY <1>1, <1>5, <1>6, <2>1, <3>1
  <2>2. CASE k = m + 1
    <3>1. g + k = n + 1 /\ 1 \in 1..(1 + j)
      BY <1>1, <1>8, <2>2
    <3>2. d[k] = new[1]
      BY <1>5, <2>2, <3>1
    <3> QED BY <1>4, <1>6, <3>1, <3>2
  <2>3. CASE k > m + 1
    <3>1. /\ g + k > n + 1 /\ g + k \in Nat /\ k - m \in 2..(1 + j) /\ k - m \in 1..(1 + j)
          /\ m + (k - m) = k
      BY <1>8, <2>3, IndexOfMessage
    <3>2. d[k] = new[k - m]
      BY <1>5, <3>1
    <3> QED BY <1>4, <1>6, <3>1, <3>2
  <2> QED BY <1>1, <2>1, <2>2, <2>3
<1>11. /\ Len(got'[r]) + Len(channel'[r]) > Len(tokens'[r]) => stopped'[r]
       /\ Len(got'[r]) + Len(channel'[r]) >= Len(tokens'[r])
       /\ stream'[r] # "Completed" /\ conn'[r] # "ok"
  <2>1. g + (m + (1 + j)) > n + 1 => j > 0
    BY <1>1, <1>8
  <2>2. g + (m + (1 + j)) >= n + 1
    BY <1>1, <1>8
  <2>3. ~(g > n)
    BY <1>1, <1>8
  <2> QED BY <1>1, <1>7, <2>1, <2>2, <2>3
<1>12. /\ got'[r] \in Seq(StreamMessages) /\ channel'[r] \in Seq(StreamMessages)
       /\ StreamMessages' = StreamMessages
  BY <1>1, <1>5, <1>7 DEF StreamMessages, Pieces
<1> QED BY <1>7, <1>9, <1>10, <1>11, <1>12 DEF InOrder

(* A client that is not there keeps what it has. *)
LEMMA UnsentInOrder ==
    ASSUME NEW r \in Requests, InOrder(r), ~stopped[r],
           tokens[r] \in Seq({"token", "eos"}), conn[r] # "open", NEW t \in {"token", "eos"},
           tokens'[r] = Append(tokens[r], t),
           conn'[r] = conn[r], body'[r] = body[r], got'[r] = got[r], stream'[r] = stream[r],
           channel'[r] = channel[r]
    PROVE  InOrder(r)'
<1> DEFINE b == body[r]
           ts == tokens[r]
           us == Append(ts, t)
           c == channel[r]
           n == Len(ts)
           g == Len(got[r])
           m == Len(c)
<1>1. /\ g \in Nat /\ m \in Nat /\ n \in Nat /\ Len(us) = n + 1
      /\ DOMAIN got[r] = 1..g /\ DOMAIN c = 1..m
      /\ \A k \in 1..g : got[r][k] = Message(b, ts, k)
      /\ \A k \in 1..m : c[k] = Message(b, ts, g + k)
      /\ ~(g + m > n) /\ (stream[r] = "Completed" \/ conn[r] = "ok" => g > n)
  <2>1. got[r] \in Seq(StreamMessages) /\ c \in Seq(StreamMessages) /\ Len(us) = n + 1
    BY DEF InOrder
  <2>2. /\ g \in Nat /\ m \in Nat /\ n \in Nat /\ DOMAIN got[r] = 1..g /\ DOMAIN c = 1..m
    BY <2>1
  <2>3. /\ \A k \in 1..g : got[r][k] = Message(b, ts, k)
        /\ \A k \in 1..m : c[k] = Message(b, ts, g + k)
    BY <2>2 DEF InOrder
  <2>4. ~(g + m > n) /\ (stream[r] = "Completed" \/ conn[r] = "ok" => g > n)
    BY DEF InOrder
  <2> QED BY <2>1, <2>2, <2>3, <2>4
<1>2. \A k \in 1..n : Message(b, us, k) = Message(b, ts, k)
  BY EarlierMessages
<1>3. /\ tokens'[r] = us /\ channel'[r] = c /\ body'[r] = b
      /\ Len(tokens'[r]) = n + 1 /\ Len(channel'[r]) = m /\ Len(got'[r]) = g
  BY <1>1
<1>4. got[r] \in Seq(StreamMessages) /\ c \in Seq(StreamMessages)
  BY DEF InOrder
<1> HIDE DEF b, ts, us, c, n, g, m
<1>5. \A k \in 1..g : got[r][k] = Message(b, us, k)
  <2> TAKE k \in 1..g
  <2>1. k \in 1..n
    BY <1>1
  <2> QED BY <1>1, <1>2, <2>1
<1>6. \A k \in 1..m : c[k] = Message(b, us, g + k)
  <2> TAKE k \in 1..m
  <2>1. g + k \in 1..n
    BY <1>1
  <2> QED BY <1>1, <1>2, <2>1
<1>7. ~(g + m > n + 1) /\ ~(g > n)
  BY <1>1
<1>8. stream[r] # "Completed" /\ conn[r] # "ok"
  BY <1>1, <1>7
<1>9. StreamMessages' = StreamMessages
  BY DEF StreamMessages, Pieces
<1> QED BY <1>1, <1>3, <1>4, <1>5, <1>6, <1>7, <1>8, <1>9 DEF InOrder

(* The sequences and the messages of the request whose output is processed. *)
LEMMA UpdatedTypes ==
    ASSUME ServiceInv, NEW r \in Requests, NEW t \in {"token", "eos"}, NEW s \in BOOLEAN,
           tokens' = [tokens EXCEPT ![r] = Append(@, t)],
           stopped' = [stopped EXCEPT ![r] = s],
           DOMAIN channel' = Requests,
           UNCHANGED <<stream, got, conn, body>>
    PROVE  ClientTypes'
BY DEF ServiceInv, ClientTypes

LEMMA ReasonsCount ==
    ASSUME NEW r, NEW t, NEW ids
    PROVE  /\ Cardinality(FinishReasons(r, t, ids)) \in Nat
           /\ Cardinality(FinishReasons(r, t, ids)) > 0 => FinishReasons(r, t, ids) # {}
<1> DEFINE S == {"stop", "eos", "model_len", "max_new_tokens"}
<1>1. IsFiniteSet(S)
  <2>1. S = (({} \cup {"stop"}) \cup {"eos"}) \cup ({"model_len"} \cup {"max_new_tokens"})
    OBVIOUS
  <2>2. \A x : IsFiniteSet({x})
    BY FS_Singleton
  <2>3. IsFiniteSet({} \cup {"stop"})
    BY <2>2, FS_EmptySet, FS_Union
  <2>4. IsFiniteSet(({} \cup {"stop"}) \cup {"eos"})
    BY <2>2, <2>3, FS_Union
  <2>5. IsFiniteSet({"model_len"} \cup {"max_new_tokens"})
    BY <2>2, FS_Union
  <2>6. IsFiniteSet((({} \cup {"stop"}) \cup {"eos"}) \cup ({"model_len"} \cup {"max_new_tokens"}))
    BY <2>4, <2>5, FS_Union
  <2> QED BY <2>1, <2>6
<1>2. FinishReasons(r, t, ids) \subseteq S
  BY DEF FinishReasons
<1> HIDE DEF S
<1>3. IsFiniteSet(FinishReasons(r, t, ids))
  BY <1>1, <1>2, FS_Subset
<1> QED BY <1>3, FS_CardinalityType, FS_EmptySet

LEMMA UpdateSequenceStep == ServiceInv /\ UpdateSequence => ServiceInv'
<1> SUFFICES ASSUME ServiceInv, UpdateSequence PROVE ServiceInv'
  OBVIOUS
<1>0. PICK r : r = Head(todo)
  OBVIOUS
<1> DEFINE ids(t) == Encode(body[r]) \o tokens[r] \o <<t>>
           reasons(t) == FinishReasons(r, t, ids(t))
<1>1. PICK t \in {"token", "eos"} :
         \/ /\ body[r].stream => conn[r] = "open"
            /\ tokens' = [tokens EXCEPT ![r] = Append(@, t)]
            /\ stopped' = [stopped EXCEPT ![r] = reasons(t) # {}]
            /\ channel' = IF body[r].stream
                          THEN [channel EXCEPT ![r] = @ \o Messages(r, ids(t), reasons(t))]
                          ELSE channel
            /\ todo' = Tail(todo)
            /\ UNCHANGED <<engine, requests, active, senders, batch, finished>>
         \/ /\ body[r].stream
            /\ channel' = IF conn[r] = "open"
                          THEN [channel EXCEPT ![r] = @ \o Messages(r, ids(t), {"first"})]
                          ELSE channel
            /\ tokens' = [tokens EXCEPT ![r] = Append(@, t)]
            /\ stopped' = [stopped EXCEPT ![r] = conn[r] = "open"]
            /\ EngineEnds("failed")
  BY <1>0 DEF UpdateSequence
<1>2. /\ engine = "up" /\ todo # <<>>
      /\ UNCHANGED <<ranks, http, serving, stream, wake, got>>
  BY DEF UpdateSequence
<1>3. /\ r \in Requests /\ Tail(todo) \in Seq(Requests)
      /\ Range(todo) = Range(Tail(todo)) \cup {r}
      /\ IsInjective(Tail(todo)) /\ r \notin Range(Tail(todo))
  BY <1>0, <1>2, HeadTail DEF ServiceInv, EngineTypes, Batches
<1>4. /\ r \in Range(batch) /\ r \in Range(active) /\ ~stopped[r] /\ reply = "none"
      /\ conn[r] # "new" /\ ~Arriving(r) /\ r \notin Range(finished)
      /\ body[r] \in Bodies[r] /\ ~Over(r)
  BY <1>2, <1>3 DEF ServiceInv, Batches, Places, Lifecycle, Identities, Over
<1>5. /\ tokens \in [Requests -> Seq({"token", "eos"})] /\ DOMAIN channel = Requests
      /\ stopped \in [Requests -> BOOLEAN]
      /\ body[r].prompt \in Seq(STRING)
  BY <1>3, <1>4, BodiesAssumption DEF ServiceInv, ClientTypes
<1> HIDE DEF ids, reasons
<1>6. /\ tokens' = [tokens EXCEPT ![r] = Append(@, t)]
      /\ tokens'[r] = Append(tokens[r], t) /\ Len(tokens'[r]) = Len(tokens[r]) + 1
      /\ \A q \in Requests : q # r => /\ tokens'[q] = tokens[q] /\ stopped'[q] = stopped[q]
                                      /\ channel'[q] = channel[q]
      /\ DOMAIN channel' = Requests
      /\ \E s \in BOOLEAN : stopped' = [stopped EXCEPT ![r] = s]
  <2>1. tokens' = [tokens EXCEPT ![r] = Append(@, t)]
    BY <1>1
  <2>2. PICK s \in BOOLEAN : stopped' = [stopped EXCEPT ![r] = s]
    BY <1>1
  <2>3. PICK c : channel' = [channel EXCEPT ![r] = c] \/ channel' = channel
    BY <1>1
  <2>4. tokens'[r] = Append(tokens[r], t) /\ Len(tokens'[r]) = Len(tokens[r]) + 1
    <3>1. tokens'[r] = Append(tokens[r], t) /\ tokens[r] \in Seq({"token", "eos"})
      BY <1>3, <1>5, <2>1
    <3> QED BY <3>1
  <2> QED BY <1>3, <1>5, <2>1, <2>2, <2>3, <2>4
<1>7. ClientTypes'
  BY <1>2, <1>3, <1>6, UpdatedTypes DEF http
<1>8. /\ RanksInv' /\ HttpTypes' /\ ServingTypes' /\ Identities'
  BY <1>2, RanksFrame, HttpFrame, ServingFrame, IdentitiesFrame DEF ServiceInv, http
<1>9. \A q \in Requests : Arriving(q)' => Arriving(q)
  BY <1>1, <1>2, EmptyList DEF Arriving, EngineEnds, serving
<1>10. \A q \in Requests : Over(q) => Over(q)'
  BY <1>1, <1>2, <1>4, <1>6, <1>9, EmptyList DEF Over, EngineEnds
<1>11. Answers'
  <2>1. \A q \in Requests : \A c : q # r /\ IsAnswer(c, q) => IsAnswer(c, q)'
    BY <1>2, <1>6, <1>10 DEF IsAnswer, http
  <2>2. ~body[r].stream => channel'[r] = <<>> /\ conn[r] # "ok"
    <3>1. ~body[r].stream => channel[r] = <<>> /\ conn[r] # "ok"
      BY <1>3, <1>4 DEF ServiceInv, Answers, IsAnswer
    <3>2. ~body[r].stream => channel' = channel
      BY <1>1
    <3> QED BY <3>1, <3>2
  <2> QED BY <1>2, <1>4, <1>6, <2>1, <2>2 DEF ServiceInv, Answers, http
<1>12. Streams'
  <2>1. ASSUME NEW q \in Requests, q # r, InOrder(q) PROVE InOrder(q)'
    BY <1>2, <1>6, <2>1 DEF InOrder, http
  <2>2. ASSUME body[r].stream PROVE InOrder(r)'
    <3> DEFINE x == [kind |-> "Chunk", text |-> Decode(ids(t))]
    <3>1. InOrder(r)
      BY <1>3, <1>4, <2>2 DEF ServiceInv, Streams
    <3>2. CASE conn[r] = "open"
      <4>1. PICK j \in Nat :
               /\ channel'[r] = channel[r] \o (<<x>> \o [k \in 1..j |-> [kind |-> "Finished"]])
               /\ j > 0 => stopped'[r]
        <5>1. CASE /\ stopped' = [stopped EXCEPT ![r] = reasons(t) # {}]
                   /\ channel' = [channel EXCEPT ![r] = @ \o Messages(r, ids(t), reasons(t))]
          <6> DEFINE j == Cardinality(reasons(t))
          <6>1. j \in Nat /\ (j > 0 => reasons(t) # {})
            BY ReasonsCount DEF reasons
          <6>2. channel'[r] = channel[r] \o (<<x>> \o [k \in 1..j |-> [kind |-> "Finished"]])
            BY <1>3, <1>5, <5>1 DEF Messages
          <6>3. j > 0 => stopped'[r]
            BY <1>3, <1>5, <5>1, <6>1
          <6> QED BY <6>1, <6>2, <6>3
        <5>2. CASE /\ stopped' = [stopped EXCEPT ![r] = conn[r] = "open"]
                   /\ channel' = [channel EXCEPT ![r] = @ \o Messages(r, ids(t), {"first"})]
          <6>1. Cardinality({"first"}) = 1
            BY FS_Singleton
          <6>2. channel'[r] = channel[r] \o (<<x>> \o [k \in 1..1 |-> [kind |-> "Finished"]])
            BY <1>3, <1>5, <5>2, <6>1 DEF Messages
          <6>3. stopped'[r]
            BY <1>3, <1>5, <3>2, <5>2
          <6> QED BY <6>2, <6>3
        <5> QED BY <1>1, <2>2, <3>2, <5>1, <5>2
      <4> QED BY <1>2, <1>3, <1>4, <1>5, <1>6, <3>1, <3>2, <4>1, SentInOrder DEF http, ids
    <3>3. CASE conn[r] # "open"
      <4>1. channel' = channel
        BY <1>1, <2>2, <3>3
      <4> QED BY <1>2, <1>3, <1>4, <1>5, <1>6, <3>1, <3>3, <4>1, UnsentInOrder DEF http
    <3> QED BY <3>2, <3>3
  <2> QED BY <1>2, <1>3, <1>4, <2>1, <2>2 DEF ServiceInv, Streams, http
<1>13. Limits'
  <2>1. \A b : /\ ParametersRejected(b)' = ParametersRejected(b)
               /\ InputRejected(b)' = InputRejected(b) /\ \A n : MayHave(b, n)' = MayHave(b, n)
    BY LimitsAreConstant
  <2>2. UNCHANGED <<body, current>>
    BY <1>2 DEF http, serving
  <2>3. /\ ~ParametersRejected(body[r]) /\ ~InputRejected(body[r])
        /\ MayHave(body[r], Len(tokens[r]) + 1)
    BY <1>3, <1>4 DEF ServiceInv, Limits
  <2>4. MayHave(body[r], Len(tokens'[r]))
    BY <1>6, <2>3
  <2>5. CASE /\ stopped' = [stopped EXCEPT ![r] = reasons(t) # {}]
             /\ UNCHANGED <<requests, active>>
    <3>1. ~stopped'[r] => MayHave(body[r], Len(tokens'[r]) + 1)
      <4> SUFFICES ASSUME ~stopped'[r] PROVE MayHave(body[r], Len(tokens'[r]) + 1)
        OBVIOUS
      <4> DEFINE n == Len(Encode(body[r]))
                 w == MaxNewTokens(body[r])
                 k == Len(tokens[r])
      <4>1. reasons(t) = {}
        BY <1>3, <1>5, <2>5
      <4>2. ~(k + 1 >= w) /\ ~(Len(ids(t)) > MaxModelLen)
        BY <4>1 DEF reasons, FinishReasons
      <4>3. k \in Nat /\ w \in Nat /\ n \in Nat /\ MaxModelLen \in Nat
        BY <1>3, <1>4, <1>5, NewTokens, ServiceAssumption
      <4>4. Len(ids(t)) = n + k + 1
        BY <1>3, <1>4, <1>5, BodiesAssumption DEF ids, Encode
      <4>5. Len(tokens'[r]) = k + 1
        BY <1>6
      <4>6. Longest(body[r]) = 1 + (IF n > MaxModelLen THEN n ELSE MaxModelLen)
        BY DEF Longest
      <4>7. Granted(body[r]) = IF w = 0 THEN 1 ELSE w
        BY DEF Granted
      <4> HIDE DEF n, w, k, ids
      <4>8. k + 2 <= Granted(body[r]) /\ n + (k + 2) <= Longest(body[r])
        BY <4>2, <4>3, <4>4, <4>6, <4>7
      <4> QED BY <4>3, <4>5, <4>8 DEF MayHave, n
    <3>2. Range(active) \subseteq Requests
      BY RangeOfList DEF ServiceInv, EngineTypes
    <3> QED BY <1>6, <2>1, <2>2, <2>3, <2>4, <2>5, <3>1, <3>2 DEF ServiceInv, Limits
  <2>6. CASE EngineEnds("failed")
    BY <1>6, <2>1, <2>2, <2>3, <2>4, <2>6, EmptyList DEF ServiceInv, Limits, EngineEnds
  <2> QED BY <1>1, <2>5, <2>6
<1>14. EngineTypes'
  <2>1. CASE todo' = Tail(todo) /\ UNCHANGED <<engine, requests, active, senders, batch, finished>>
    BY <1>2, <1>3, <2>1 DEF ServiceInv, EngineTypes
  <2>2. CASE EngineEnds("failed")
    BY <2>2 DEF EngineTypes, EngineEnds
  <2> QED BY <1>1, <2>1, <2>2
<1>15. Lifecycle'
  <2>1. \/ UNCHANGED <<engine, batch>> /\ batch # <<>>
        \/ engine' = "failed" /\ todo' = <<>>
    BY <1>1, <1>2 DEF ServiceInv, Lifecycle, EngineEnds
  <2> QED BY <1>2, <1>4, <2>1 DEF ServiceInv, Lifecycle, DispatcherDropped, http, serving, ranks
<1>16. Places'
  <2>1. UNCHANGED <<conn, id, inbox, current>>
    BY <1>2 DEF http, serving
  <2>2. CASE UNCHANGED <<requests, active, senders, finished>>
    BY <2>1, <2>2, PlacesFrame DEF ServiceInv
  <2>3. CASE EngineEnds("failed")
    BY <1>9, <2>1, <2>3, EmptyList DEF ServiceInv, Places, EngineEnds
  <2> QED BY <1>1, <2>2, <2>3
<1>17. Batches'
  <2>1. UNCHANGED <<conn, inbox, current, reply>>
    BY <1>2 DEF http, serving, ranks
  <2>2. \A q \in Requests : Arriving(q)' \/ conn'[q] = "new" => tokens'[q] = <<>> /\ ~stopped'[q]
    BY <1>4, <1>6, <1>9, <2>1 DEF ServiceInv, Batches
  <2>3. CASE todo' = Tail(todo) /\ UNCHANGED <<requests, active, senders, batch, finished>>
    <3>1. \A q \in Range(active) : stopped'[q] =>
              reply = "none" /\ q \in Range(batch) /\ q \notin Range(todo')
      <4>1. Range(active) \subseteq Requests
        BY RangeOfList DEF ServiceInv, EngineTypes
      <4> QED BY <1>3, <1>4, <1>6, <2>3, <4>1 DEF ServiceInv, Batches
    <3>2. \A q \in Range(finished) : stopped'[q] /\ ~Arriving(q)' /\ q \notin Range(active)
      <4>1. Range(finished) \subseteq Requests
        BY RangeOfList DEF ServiceInv, EngineTypes
      <4> QED BY <1>4, <1>6, <1>9, <4>1 DEF ServiceInv, Batches
    <3> QED BY <1>3, <2>1, <2>2, <2>3, <3>1, <3>2 DEF ServiceInv, Batches
  <2>4. CASE EngineEnds("failed")
    BY <2>2, <2>4, EmptyList DEF Batches, EngineEnds
  <2> QED BY <1>1, <2>3, <2>4
<1> QED BY <1>7, <1>8, <1>11, <1>12, <1>13, <1>14, <1>15, <1>16, <1>17 DEF ServiceInv

-----------------------------------------------------------------------------
(* The invariant holds in every reachable state *)

LEMMA ServiceInvStutter == ServiceInv /\ UNCHANGED allVars => ServiceInv'
<1> SUFFICES ASSUME ServiceInv, UNCHANGED allVars PROVE ServiceInv'
  OBVIOUS
<1> USE DEF allVars, ServiceInv, ranks, http, serving, engineTask, sequences, responses
<1>1. RanksInv' /\ HttpTypes' /\ ServingTypes' /\ EngineTypes' /\ ClientTypes' /\ Lifecycle'
  BY RanksFrame, HttpFrame, ServingFrame, EngineFrame, ClientFrame, LifecycleFrame
<1>2. Identities' /\ Places' /\ Batches' /\ Answers' /\ Limits' /\ Streams'
  BY IdentitiesFrame, PlacesFrame, BatchesFrame, AnswersFrame, LimitsFrame, StreamsFrame
<1> QED BY <1>1, <1>2

LEMMA ServiceInvStep == ServiceInv /\ [ServiceNext]_allVars => ServiceInv'
<1> SUFFICES ASSUME ServiceInv, ServiceNext PROVE ServiceInv'
  BY ServiceInvStutter
<1>1. ASSUME NEW r \in Requests, CompletionHandler(r) \/ ClientLeaves(r) \/ Handler(r)
      PROVE  ServiceInv'
  BY <1>1, CompletionHandlerStep, ClientLeavesStep, HandleResponseStep, PollNextStep DEF Handler
<1>2. ASSUME NEW i \in Ranks, Thread(i) \/ Failure(i) PROVE ServiceInv'
  BY <1>2, ThreadStep, FailureStep
<1>3. CASE Service
  BY <1>3, StartStep, NotStartedStep, ReceiveRequestStep, ForwardStep, StopStep DEF Service
<1>4. CASE Tokenizer
  BY <1>4, TokenizerStep
<1>5. CASE Engine
  BY <1>5, EngineReceivesStep, ReceiveOutputsStep, ReceiveClosedStep, UpdateSequenceStep,
     StepStep, SendOutputStep DEF Engine
<1>6. CASE Together
  BY <1>6, TogetherStep
<1>7. CASE CtrlC \/ Server
  BY <1>7, ServerStep, DropRuntimeStep DEF Server
<1> QED BY <1>1, <1>2, <1>3, <1>4, <1>5, <1>6, <1>7 DEF ServiceNext

(* The inductive invariant of the service holds in every state of every
   behaviour: whatever the clients send, in whatever order the tasks and threads
   run, and whichever ranks fail. *)
THEOREM ServiceInvariant == ServiceSpec => []ServiceInv
BY InitServiceInv, ServiceInvStep, PTL DEF ServiceSpec

-----------------------------------------------------------------------------
(* What the invariant says to the clients *)

LEMMA TypesFollow == ServiceInv => ServiceTypeOK
<1> SUFFICES ASSUME ServiceInv PROVE ServiceTypeOK
  OBVIOUS
<1> USE DEF ServiceInv
<1>1. id \in [Requests -> 0..Cardinality(Requests)]
  <2> DEFINE S == {r \in Requests : conn[r] # "new"}
  <2>1. S \subseteq Requests /\ counter = Cardinality(S)
    BY DEF Identities
  <2> HIDE DEF S
  <2>2. Cardinality(S) <= Cardinality(Requests) /\ Cardinality(Requests) \in Nat
    BY <2>1, ServiceAssumption, FS_Subset, FS_CardinalityType
  <2>3. id \in [Requests -> Nat] /\ counter \in Nat /\ \A r \in Requests : id[r] <= counter
    BY DEF HttpTypes, Identities
  <2>4. \A r \in Requests : id[r] \in 0..Cardinality(Requests)
    BY <2>1, <2>2, <2>3
  <2> QED BY <2>3, <2>4
<1>2. (service = "tokenizing") = (current \in Requests)
  BY DEF ServingTypes
<1>3. todo # <<>> => engine = "up"
  BY DEF EngineTypes
<1> QED BY <1>1, <1>2, <1>3
        DEF ServiceTypeOK, RanksInv, HttpTypes, Conns, Servers, ServingTypes, Services,
            EngineTypes, ClientTypes

(* Every variable has its type, the ids of the requests never exceed their
   number, and the tokenizer works for the current request only. *)
THEOREM ServiceTypes == ServiceSpec => []ServiceTypeOK
BY ServiceInvariant, TypesFollow, PTL

(* For every number of ranks and of AllReduce operations in a pass: the ranks
   that wait in an AllReduce wait in the same one of the same batch. *)
THEOREM CollectivesAlwaysMatch == ServiceSpec => []CollectivesMatch
<1>1. ServiceInv => CollectivesMatch
  BY InStepMatches DEF ServiceInv
<1> QED BY <1>1, ServiceInvariant, PTL

(* While no rank is lost, no rank is more than one batch behind and no command
   channel holds more than one: the engine that sends them waits for rank 0
   only. *)
THEOREM RanksAlwaysKeepUp == ServiceSpec => []RanksKeepUp
<1>1. ServiceInv => RanksKeepUp
  BY KeepingKeepsUp DEF ServiceInv
<1> QED BY <1>1, ServiceInvariant, PTL

(* A client that gets a completion gets the whole of its own. *)
THEOREM AnswersAreOwn == ServiceSpec => []OwnAnswer
<1>1. ASSUME ServiceInv, NEW r \in Requests, conn[r] = "ok", ~body[r].stream
      PROVE  stopped[r] /\ Len(got[r]) = 1 /\ got[r][1].ids = Output(r).ids
  <2>1. IsAnswer(got[r], r)
    BY <1>1 DEF ServiceInv, Answers
  <2>2. Output(r).ids = Encode(body[r]) \o tokens[r]
    BY DEF Output
  <2> QED BY <2>1, <2>2 DEF IsAnswer, Over
<1>2. ServiceInv => OwnAnswer
  BY <1>1 DEF OwnAnswer
<1> QED BY <1>2, ServiceInvariant, PTL

(* A shutdown cuts nobody off. *)
THEOREM ShutdownDrains == ServiceSpec => []NobodyCutOff
<1>1. ServiceInv => NobodyCutOff
  BY DEF ServiceInv, Lifecycle, NobodyCutOff
<1> QED BY <1>1, ServiceInvariant, PTL

(* What a streaming client has received is the text after each token, in order
   and without a gap, and its stream ends after the last of them. *)
THEOREM StreamsStayInOrder == ServiceSpec => []StreamInOrder
<1>1. ASSUME ServiceInv, NEW r \in Requests, conn[r] # "new", body[r].stream
      PROVE  LET texts == Keep(got[r], {m \in Range(got[r]) : m.kind = "Chunk"})
             IN  /\ Len(texts) <= Len(tokens[r])
                 /\ \A k \in DOMAIN texts :
                        texts[k].text = Decode(Encode(body[r]) \o SubSeq(tokens[r], 1, k))
                 /\ conn[r] = "ok" => stopped[r] /\ Len(texts) = Len(tokens[r])
  <2> DEFINE q == got[r]
             S == {m \in Range(q) : m.kind = "Chunk"}
             texts == Keep(q, S)
             g == Len(q)
             t == Len(tokens[r])
             n == IF g <= t THEN g ELSE t
  <2>1. InOrder(r)
    BY <1>1 DEF ServiceInv, Streams
  <2>2. /\ q \in Seq(StreamMessages) /\ channel[r] \in Seq(StreamMessages)
        /\ tokens[r] \in Seq({"token", "eos"})
    BY <1>1, <2>1 DEF InOrder, ServiceInv, ClientTypes
  <2>3. g \in Nat /\ t \in Nat /\ DOMAIN q = 1..g /\ Len(channel[r]) \in Nat
    BY <2>2
  <2>4. \A k \in 1..g : q[k] = Message(body[r], tokens[r], k)
    BY <2>1, <2>3 DEF InOrder
  <2>5. n \in 0..g /\ n <= t
    BY <2>3
  <2>6. \A k \in 1..g : q[k] \in S <=> k <= n
    <3> TAKE k \in 1..g
    <3>1. q[k] \in Range(q)
      BY <2>3 DEF Range
    <3>2. q[k].kind = IF k <= t THEN "Chunk" ELSE "Finished"
      <4>1. q[k] = Message(body[r], tokens[r], k)
        BY <2>4
      <4>2. Message(body[r], tokens[r], k).kind = IF k <= Len(tokens[r]) THEN "Chunk" ELSE "Finished"
        BY DEF Message, Chunk
      <4> QED BY <4>1, <4>2
    <3>3. k <= n <=> k <= t
      BY <2>3
    <3> QED BY <3>1, <3>2, <3>3
  <2> HIDE DEF n, S
  <2>7. Len(texts) = n /\ \A k \in 1..n : texts[k] = q[k]
    BY <2>2, <2>5, <2>6, KeepPrefix
  <2>8. texts \in Seq(StreamMessages)
    BY <2>2, KeepRange
  <2> HIDE DEF texts
  <2>9. ASSUME NEW k \in DOMAIN texts
        PROVE  texts[k].text = Decode(Encode(body[r]) \o SubSeq(tokens[r], 1, k))
    <3>1. k \in 1..n
      BY <2>7, <2>8
    <3>2. k \in 1..g /\ k <= t
      BY <2>3, <2>5, <3>1
    <3>3. texts[k] = Chunk(body[r], tokens[r], k)
      BY <2>4, <2>7, <3>1, <3>2 DEF Message
    <3> QED BY <3>3 DEF Chunk
  <2>10. ASSUME conn[r] = "ok" PROVE stopped[r] /\ n = t
    <3>1. g > t
      BY <2>1, <2>10 DEF InOrder
    <3>2. g + Len(channel[r]) > t
      <4>1. \A a, b, c \in Nat : a > c => a + b > c
        OBVIOUS
      <4> QED BY <2>3, <3>1, <4>1
    <3> QED BY <2>1, <2>3, <3>1, <3>2 DEF InOrder, n
  <2> QED BY <2>5, <2>7, <2>9, <2>10 DEF texts, S
<1>2. ServiceInv => StreamInOrder
  BY <1>1 DEF StreamInOrder
<1> QED BY <1>2, ServiceInvariant, PTL

(* The prompt keeps to its limit, the answer to what was granted and to the
   model's length, and both together to max_total_tokens, but for a prompt that
   fills that limit, whose one token exceeds it, and for a sum that wraps in
   validate_input.  Nothing is assumed of the limits or the requests but their
   types. *)
THEOREM LimitsHold == ServiceSpec => []WithinTokenLimits
<1>1. ASSUME ServiceInv, NEW r \in Requests, tokens[r] # <<>>
      PROVE  LET b == body[r]
                 total == Len(Encode(b)) + Len(tokens[r])
             IN  /\ Len(Encode(b)) <= MaxInputLength
                 /\ Len(tokens[r]) <= Granted(b)
                 /\ total <= Longest(b)
                 /\ \/ total <= MaxTotalTokens
                    \/ FillsTheLimit(b) /\ total = MaxTotalTokens + 1
                    \/ SumWraps(b)
  <2> DEFINE b == body[r]
             n == Len(Encode(b))
             v == b.max_completion_tokens
             w == MaxNewTokens(b)
             t == Len(tokens[r])
  <2>1. b \in Bodies[r]
    BY <1>1 DEF ServiceInv, Batches, Identities
  <2>2. n \in Nat /\ t \in Nat /\ w \in Nat /\ t >= 1
    BY <1>1, <2>1, NewTokens DEF ServiceInv, ClientTypes
  <2>3. /\ MaxTotalTokens \in Nat /\ MaxInputLength \in Nat /\ U32 \in Nat
        /\ MaxInputLength < U32 /\ MaxTotalTokens < U32
        /\ v \in Nat \cup {NoValue}
    BY <2>1, ServiceAssumption, BodiesAssumption
  <2>4. /\ t <= Granted(b) /\ n + t <= Longest(b)
        /\ ~ParametersRejected(b) /\ ~InputRejected(b)
    BY <1>1 DEF ServiceInv, Limits, MayHave
  <2>5. ~((n + w) % U32 > MaxTotalTokens) /\ ~(n > MaxInputLength) /\ v # 0
    BY <2>4 DEF InputRejected, ParametersRejected
  <2>6. w = IF v = NoValue THEN IF n > MaxTotalTokens THEN 0 ELSE MaxTotalTokens - n ELSE v
    BY DEF MaxNewTokens, Or
  <2>7. Granted(b) = IF w = 0 THEN 1 ELSE w
    BY DEF Granted
  <2>8. ASSUME ~SumWraps(b)
        PROVE  n + t <= MaxTotalTokens \/ (FillsTheLimit(b) /\ n + t = MaxTotalTokens + 1)
    <3>1. ~(n + w >= U32)
      BY <2>8 DEF SumWraps
    <3>2. FillsTheLimit(b) <=> v = NoValue /\ n = MaxTotalTokens
      BY DEF FillsTheLimit
    <3> HIDE DEF b, n, v, w, t
    <3>3. \A x \in Nat : x < U32 => x % U32 = x
      BY <2>3
    <3>4. n + w <= MaxTotalTokens
      <4>1. n + w \in Nat /\ n + w < U32
        BY <2>2, <2>3, <3>1
      <4>2. (n + w) % U32 = n + w
        BY <3>3, <4>1
      <4> QED BY <2>3, <2>5, <4>1, <4>2
    <3>5. CASE w = 0
      <4>1. v = NoValue /\ n = MaxTotalTokens /\ t = 1
        BY <2>2, <2>3, <2>4, <2>5, <2>6, <2>7, <3>4, <3>5
      <4> QED BY <2>3, <3>2, <4>1
    <3>6. CASE w # 0
      <4>1. n + t <= MaxTotalTokens
        BY <2>2, <2>3, <2>4, <2>7, <3>4, <3>6
      <4> QED BY <4>1
    <3> QED BY <3>5, <3>6
  <2>9. n <= MaxInputLength
    BY <2>2, <2>3, <2>5
  <2> QED BY <2>4, <2>8, <2>9
<1>2. ServiceInv => WithinTokenLimits
  BY <1>1 DEF WithinTokenLimits
<1> QED BY <1>2, ServiceInvariant, PTL

=============================================================================
