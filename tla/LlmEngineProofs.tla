-------------------------- MODULE LlmEngineProofs --------------------------
(***************************************************************************)
(* Proofs about the engine task.  Every step of the engine, of its clients *)
(* and of the model thread is a call of the scheduler or leaves it alone   *)
(* but for the batch in flight (Next \/ Dropped), so the invariants of the *)
(* scheduler hold in the engine too; Where and Delivery are what the engine *)
(* adds to them.                                                           *)
(***************************************************************************)
EXTENDS LlmEngine, SchedulerProofs

EngineTypes ==
    /\ client \in [Requests -> {"new", "waiting", "answered", "left"}]
    /\ inbox \in Seq(Requests) /\ finished \in Seq(Requests)
    /\ senders \subseteq Requests \ Streaming
    /\ stream_senders \subseteq Streaming
    /\ at \in {"select", "step", "pass", "respond"}
    /\ model_alive \in BOOLEAN
    /\ reply \in {"none", "outputs", "closed"}
    /\ err \in Errors \cup EngineErrors \cup {"none"}

(* Where the engine task is, and what the scheduler is doing meanwhile *)
Where ==
    /\ phase = "idle" <=> at # "pass"
    /\ in_flight => at \in {"select", "respond"} /\ ~OutputsEmpty(outputs)

(* The engine never calls abort_sequence_group *)
NoAborts == \A r \in Requests : status[r] # "FinishedAborted"

(* What the engine still owes its clients *)
Registered(r) ==
    /\ status[r] \in Live => r \in senders \cup stream_senders
    /\ client[r] = "new" => status[r] = "Unborn"
    /\ client[r] = "answered" => status[r] = "Finished"

Owed(r) ==
    status[r] = "Finished" /\ client[r] = "waiting" /\ err = "none" => r \in Range(finished) /\ r \in senders

Delivery ==
    /\ at = "select" => finished = <<>>
    /\ at = "respond" => finished # <<>>
    /\ \A r \in Range(finished) : status[r] = "Finished"
    /\ \A r \in Range(inbox) : client[r] # "new"
    /\ \A r \in Requests : Registered(r)
    /\ \A r \in Requests : Owed(r)

-----------------------------------------------------------------------------
(* Steps that call the scheduler, and steps that do not *)

Aside ==
    \/ \E r \in Requests : ClientSends(r) \/ ClientLeaves(r)
    \/ ModelAnswers \/ ModelFails

(* What a step does to the scheduler: a call, or nothing but to drop the batch *)
LEMMA EngineCalls ==
    ASSUME Where, [EngineNext]_allVars, EngineTypes
    PROVE  Next \/ Dropped
<1>1. CASE Aside \/ UNCHANGED allVars
  <2>1. UNCHANGED vars
    BY <1>1 DEF Aside, ClientSends, ClientLeaves, ModelAnswers, ModelFails, allVars
  <2> QED BY <2>1, StutterDropped
<1>2. CASE ReceiveRequest
  <2>1. Head(inbox) \in Requests
    BY <1>2, HeadTail DEF ReceiveRequest, EngineTypes
  <2> QED BY <1>2, <2>1 DEF ReceiveRequest, Next
<1>3. CASE Step
  <2>1. phase = "idle" /\ ~in_flight
    BY <1>3 DEF Step, Where
  <2> QED BY <1>3, <2>1 DEF Step, Next, Schedule
<1>4. CASE StepGoesOn
  BY <1>4 DEF StepGoesOn, Next
<1>5. CASE HandleOutputs
  <2>1. PICK stopped \in SUBSET Sampled, done \in SUBSET (Sampled \cap stream_senders) :
        IF StreamFails(stopped, done)
        THEN /\ err' = "FlumeSendError"
             /\ in_flight' = FALSE
             /\ UNCHANGED <<queues, seqs, blocks, phase, pass, outputs>>
        ELSE ProcessOutputs(stopped)
    BY <1>5 DEF HandleOutputs
  <2>2. CASE StreamFails(stopped, done)
    BY <2>1, <2>2 DEF Dropped
  <2>3. CASE ~StreamFails(stopped, done)
    BY <2>1, <2>3 DEF Next
  <2> QED BY <2>2, <2>3
<1>6. CASE HandleFailure
  BY <1>6 DEF HandleFailure, Dropped
<1>7. CASE SendResponse
  <2>1. UNCHANGED <<queues, seqs, blocks, phase, pass, outputs, in_flight>> /\ err = "none"
    BY <1>7 DEF SendResponse, batch
  <2> QED BY <2>1 DEF Dropped
<1> QED BY <1>1, <1>2, <1>3, <1>4, <1>5, <1>6, <1>7 DEF EngineNext, Engine, Aside

-----------------------------------------------------------------------------
(* What the steps of a pass do to the statuses *)

Moves(x, st) ==
    status[x] \in Live /\ st \in Live \cup {"FinishedIgnored"} /\ status' = [status EXCEPT ![x] = st]

LEMMA PassMoves ==
    ASSUME Types, Filed, PassStep
    PROVE  status' = status \/ \E x \in Requests, st \in Statuses : Moves(x, st)
<1>0. SeqTypes /\ PassTypes
  BY DEF Types
<1>1. CASE StopPrefills \/ StopRunning \/ StopSwapped \/ PassFails \/ RunningScheduled \/ Commit
  BY <1>1 DEF StopPrefills, StopRunning, StopSwapped, PassFails, RunningScheduled, Commit, seqs
<1>2. CASE PrefillIgnored
  <2>1. PICK r \in Requests : status[r] = "Waiting" /\ status' = [status EXCEPT ![r] = "FinishedIgnored"]
    BY <1>0, <1>2, PrefillIgnoredEffect
  <2> QED BY <2>1 DEF Moves, Live, Statuses
<1>3. CASE PrefillScheduled
  <2>1. PICK r \in Requests, n \in Nat : r = Head(pass.waiting) /\ status' = [status EXCEPT ![r] = "Running"]
    BY <1>0, <1>3, PrefillScheduledEffect
  <2>2. status[r] = "Waiting"
    BY <1>3, <2>1, PrefillRun DEF PrefillScheduled
  <2> QED BY <2>1, <2>2 DEF Moves, Live, Statuses
<1>4. CASE Preempt
  <2>0. \A v \in Requests : gpu_table[SequenceId[v]] \in Nat
    BY TablesAreNumbers DEF TableFacts, Types
  <2>1. PICK v \in Requests : pass.running # <<>> /\ v = Last(pass.running) /\ (Recomputed(v) \/ SwappedOut(v))
    BY <1>0, <1>4, <2>0, PreemptEffect
  <2>2. status[v] = "Running"
    <3>1. pass.running \in Seq(Requests) /\ PassFiled(pass, status)
      BY <1>0, <1>4 DEF PassTypes, PassType, Filed, Preempt, In
    <3>2. v \in Range(pass.running)
      BY <2>1, <3>1, LastOf
    <3> QED BY <3>1, <3>2 DEF PassFiled, StatusOf
  <2>3. PICK st \in {"Waiting", "Swapped"} : status' = [status EXCEPT ![v] = st]
    BY <2>1 DEF Recomputed, SwappedOut
  <2> QED BY <2>2, <2>3 DEF Moves, Live, Statuses
<1>5. CASE SwappedIgnored \/ SwappedScheduled
  <2>0. PICK x : x = Head(pass.swapped)
    OBVIOUS
  <2>1. PICK st \in {"FinishedIgnored", "Running"} : status' = [status EXCEPT ![x] = st]
    BY <1>5, <2>0 DEF SwappedIgnored, SwappedScheduled
  <2>2. pass.swapped # <<>> /\ pass.swapped \in Seq(Requests) /\ PassFiled(pass, status)
    <3>1. pass.swapped # <<>>
      BY <1>5 DEF SwappedIgnored, SwappedScheduled, In, Verdict
    <3> QED BY <1>0, <1>5, <3>1 DEF PassTypes, PassType, Filed, SwappedIgnored, SwappedScheduled, In
  <2>3. x \in Requests /\ x \in Range(pass.swapped)
    BY <2>0, <2>2, HeadTail
  <2>4. status[x] = "Swapped"
    BY <2>2, <2>3 DEF PassFiled, StatusOf
  <2> QED BY <2>1, <2>3, <2>4 DEF Moves, Live, Statuses
<1> QED BY <1>1, <1>2, <1>3, <1>4, <1>5 DEF PassStep

(* No step of a pass makes a request live, new or finished. *)
LEMMA PassStatuses ==
    ASSUME Types, Filed, PassStep
    PROVE  \A r \in Requests : /\ status'[r] \in Live => status[r] \in Live
                               /\ status'[r] = "Finished" <=> status[r] = "Finished"
                               /\ status'[r] = "Unborn" <=> status[r] = "Unborn"
<1>0. status \in [Requests -> Statuses]
  BY DEF Types, SeqTypes
<1>1. CASE status' = status
  BY <1>1
<1>2. CASE \E x \in Requests, st \in Statuses : Moves(x, st)
  <2>1. PICK x \in Requests, st \in Statuses : Moves(x, st)
    BY <1>2
  <2>2. /\ status[x] \in Live /\ st \in Live \cup {"FinishedIgnored"}
        /\ status'[x] = st /\ \A r \in Requests : r # x => status'[r] = status[r]
    BY <1>0, <2>1 DEF Moves
  <2> TAKE r \in Requests
  <2>3. CASE r = x
    BY <2>2, <2>3 DEF Live
  <2>4. CASE r # x
    BY <2>2, <2>4
  <2> QED BY <2>3, <2>4
<1> QED BY <1>1, <1>2, PassMoves

-----------------------------------------------------------------------------
(* Types *)

LEMMA ErrTypes ==
    ASSUME err \in Errors \cup EngineErrors \cup {"none"}, Next
    PROVE  err' \in Errors \cup EngineErrors \cup {"none"}
<1>1. CASE \E r \in Requests : AddSequenceGroup(r)
  BY <1>1 DEF AddSequenceGroup
<1>2. CASE Schedule
  BY <1>2 DEF Schedule
<1>3. CASE PassFails
  BY <1>3 DEF PassFails
<1>4. CASE Commit
  BY <1>4 DEF Commit, CommitError, Errors
<1>5. CASE \/ StopPrefills \/ StopRunning \/ StopSwapped \/ PrefillIgnored \/ PrefillScheduled
           \/ RunningScheduled \/ Preempt \/ SwappedIgnored \/ SwappedScheduled
  BY <1>5 DEF StopPrefills, StopRunning, StopSwapped, PrefillIgnored, PrefillScheduled, RunningScheduled,
              Preempt, SwappedIgnored, SwappedScheduled
<1>6. CASE \E stopped \in SUBSET Sampled : ProcessOutputs(stopped)
  BY <1>6 DEF ProcessOutputs, Errors
<1> QED BY <1>1, <1>2, <1>3, <1>4, <1>5, <1>6 DEF Next, PassStep

(* The batch that was computed, and the requests of it that are over *)
Over == Keep(RequestsOf(outputs.scheduled), {r \in Requests : status'[r] \notin Live})

LEMMA OverType ==
    ASSUME Types
    PROVE  /\ Over \in Seq(Requests) /\ Range(Over) \subseteq Requests
           /\ \A r \in Requests : r \in Range(Over) <=> status'[r] \notin Live /\ \E e \in Batch : e.id = r
<1>1. outputs.scheduled \in Seq(Scheduled)
  BY DEF Types, BatchTypes
<1>2. PICK b \in Seq(Requests) : b = RequestsOf(outputs.scheduled)
  BY <1>1, RequestsOfList
<1>3. \A r \in Requests : r \in Range(b) <=> \E e \in Batch : e.id = r
  BY <1>1, <1>2, RequestsOfRange DEF Batch
<1>4. PICK S : S = {r \in Requests : status'[r] \notin Live}
  OBVIOUS
<1>5. Over = Keep(b, S)
  BY <1>2, <1>4 DEF Over
<1>6. Keep(b, S) \in Seq(Requests) /\ Range(Keep(b, S)) = Range(b) \cap S
  BY KeepRange
<1>7. Over \in Seq(Requests)
  BY <1>5, <1>6
<1>8. \A r \in Requests : r \in Range(Over) <=> r \in Range(b) /\ r \in S
  BY <1>5, <1>6
<1>9. Range(Over) \subseteq Requests
  BY <1>4, <1>5, <1>6
<1> QED BY <1>3, <1>4, <1>7, <1>8, <1>9

LEMMA EngineTypesNext ==
    ASSUME Types, EngineTypes, Where, Delivery, [EngineNext]_allVars
    PROVE  EngineTypes'
<1>0. err \in Errors \cup EngineErrors \cup {"none"} /\ inbox \in Seq(Requests) /\ finished \in Seq(Requests)
  BY DEF EngineTypes
<1>1. CASE UNCHANGED allVars
  BY <1>1 DEF EngineTypes, allVars, vars, engine_vars
<1>2. ASSUME NEW r \in Requests, ClientSends(r) PROVE EngineTypes'
  <2>1. inbox' \in Seq(Requests)
    BY <1>0, <1>2 DEF ClientSends
  <2> QED BY <1>2, <2>1 DEF ClientSends, EngineTypes, vars
<1>3. ASSUME NEW r \in Requests, ClientLeaves(r) PROVE EngineTypes'
  BY <1>3 DEF ClientLeaves, EngineTypes, vars
<1>4. CASE ModelAnswers \/ ModelFails
  BY <1>4 DEF ModelAnswers, ModelFails, EngineTypes, vars
<1>5. CASE ReceiveRequest
  <2>1. Head(inbox) \in Requests /\ inbox' \in Seq(Requests)
    BY <1>0, <1>5, HeadTail DEF ReceiveRequest
  <2>2. err' = err /\ at' \in {"select", "step"} /\ UNCHANGED <<client, finished, model_alive, reply>>
    BY <1>5 DEF ReceiveRequest, AddSequenceGroup, AfterRequest
  <2>3. senders' \subseteq Requests \ Streaming /\ stream_senders' \subseteq Streaming
    BY <1>5, <2>1 DEF ReceiveRequest, RegisterSender, EngineTypes
  <2> QED BY <2>1, <2>2, <2>3 DEF EngineTypes
<1>6. CASE Step
  BY <1>6 DEF Step, EngineTypes
<1>7. CASE StepGoesOn
  <2>1. err' \in Errors \cup EngineErrors \cup {"none"}
    BY <1>0, <1>7, ErrTypes DEF StepGoesOn, Next
  <2>2. at' \in {"pass", "select", "respond"}
    BY <1>7 DEF StepGoesOn
  <2> QED BY <1>7, <2>1, <2>2 DEF StepGoesOn, EngineTypes
<1>8. CASE HandleOutputs
  <2>0. UNCHANGED <<inbox, senders, stream_senders, model_alive>> /\ reply' = "none"
    BY <1>8 DEF HandleOutputs
  <2>1. PICK stopped \in SUBSET Sampled, done \in SUBSET (Sampled \cap stream_senders) :
        IF StreamFails(stopped, done)
        THEN /\ err' = "FlumeSendError" /\ UNCHANGED <<client, at, finished>>
        ELSE /\ ProcessOutputs(stopped)
             /\ finished' = Over
             /\ client' = [r \in Requests |->
                    IF r \in stream_senders /\ r \in Range(finished') THEN "answered" ELSE client[r]]
             /\ at' = AfterOutputs(finished')
    BY <1>8 DEF HandleOutputs, Over
  <2>2. CASE StreamFails(stopped, done)
    BY <2>0, <2>1, <2>2 DEF EngineTypes, EngineErrors
  <2>3. CASE ~StreamFails(stopped, done)
    <3>1. err' \in Errors \cup EngineErrors \cup {"none"}
      BY <1>0, <2>1, <2>3, ErrTypes DEF Next
    <3>2. finished' \in Seq(Requests)
      BY <2>1, <2>3, OverType
    <3>3. client' \in [Requests -> {"new", "waiting", "answered", "left"}]
      BY <2>1, <2>3 DEF EngineTypes
    <3>4. at' = "step"
      BY <2>1, <2>3 DEF AfterOutputs
    <3> QED BY <2>0, <3>1, <3>2, <3>3, <3>4 DEF EngineTypes
  <2> QED BY <2>2, <2>3
<1>9. CASE HandleFailure
  BY <1>9 DEF HandleFailure, EngineTypes
<1>10. CASE SendResponse
  <2>1. finished # <<>>
    BY <1>10 DEF SendResponse, Delivery
  <2>2. finished' \in Seq(Requests)
    BY <1>0, <1>10, <2>1, HeadTail DEF SendResponse, AfterSend
  <2>3. err' \in Errors \cup EngineErrors \cup {"none"}
    BY <1>0, <1>10 DEF SendResponse, EngineErrors
  <2>4. client' \in [Requests -> {"new", "waiting", "answered", "left"}]
    BY <1>10 DEF SendResponse, EngineTypes
  <2>5. /\ senders' \subseteq senders /\ at' \in {"select", "respond"}
        /\ UNCHANGED <<inbox, stream_senders, model_alive, reply>>
    BY <1>10 DEF SendResponse
  <2> QED BY <2>2, <2>3, <2>4, <2>5 DEF EngineTypes
<1> QED BY <1>1, <1>2, <1>3, <1>4, <1>5, <1>6, <1>7, <1>8, <1>9, <1>10 DEF EngineNext, Engine

LEMMA WhereNext ==
    ASSUME Types, Filed, EngineTypes, Where, [EngineNext]_allVars
    PROVE  Where'
<1>1. CASE Aside \/ UNCHANGED allVars
  <2>1. UNCHANGED <<vars, at>>
    BY <1>1 DEF Aside, ClientSends, ClientLeaves, ModelAnswers, ModelFails, allVars, engine_vars
  <2> QED BY <2>1 DEF Where, vars, batch
<1>2. CASE ReceiveRequest
  BY <1>2 DEF ReceiveRequest, AddSequenceGroup, AfterRequest, Where, batch
<1>3. CASE Step
  <2>1. phase' # "idle"
    BY <1>3 DEF Step, StartPass
  <2> QED BY <1>3, <2>1 DEF Step, Where, batch
<1>4. CASE StepGoesOn
  <2>1. phase # "idle" /\ ~in_flight
    BY <1>4 DEF StepGoesOn, Where
  <2>2. CASE Commit
    <3>1. in_flight' => phase' = "idle" /\ ~OutputsEmpty(outputs')
      BY <2>1, <2>2 DEF Commit, batch
    <3>2. phase' = "idle" => at' \in {"select", "respond"}
      BY <1>4 DEF StepGoesOn
    <3>3. phase' = "idle" <=> at' # "pass"
      BY <1>4 DEF StepGoesOn
    <3> QED BY <2>1, <3>1, <3>2, <3>3 DEF Where
  <2>3. CASE ~Commit
    <3>1. phase' # "idle" /\ ~in_flight'
      BY <1>4, <2>1, <2>3, AfterNotIdle
         DEF StepGoesOn, PassStep, StopPrefills, StopRunning, StopSwapped, PassFails, PrefillIgnored,
             PrefillScheduled, RunningScheduled, Preempt, SwappedIgnored, SwappedScheduled, batch
    <3>2. at' = "pass"
      BY <1>4, <3>1 DEF StepGoesOn
    <3> QED BY <3>1, <3>2 DEF Where
  <2> QED BY <2>2, <2>3
<1>5. CASE HandleOutputs
  <2>1. ~in_flight' /\ phase' = phase /\ at' \in {at, "step"} /\ at = "select"
    BY <1>5 DEF HandleOutputs, ProcessOutputs, AfterOutputs
  <2> QED BY <2>1 DEF Where
<1>6. CASE HandleFailure
  BY <1>6 DEF HandleFailure, Where
<1>7. CASE SendResponse
  BY <1>7 DEF SendResponse, Where, batch
<1> QED BY <1>1, <1>2, <1>3, <1>4, <1>5, <1>6, <1>7 DEF EngineNext, Engine, Aside

-----------------------------------------------------------------------------
(* Every client gets its answer, once *)

(* Steps that leave the statuses, the answers owed and the clients alone *)
LEMMA DeliverySame ==
    ASSUME Delivery, UNCHANGED <<status, client, finished, senders, stream_senders, inbox>>,
           err' = "none" => err = "none",
           at' = "select" => finished = <<>>, at' = "respond" => finished # <<>>
    PROVE  Delivery'
<1>1. /\ \A r \in Range(finished') : status'[r] = "Finished"
      /\ \A r \in Range(inbox') : client'[r] # "new"
  BY DEF Delivery
<1>2. \A r \in Requests : Registered(r)'
  BY DEF Delivery, Registered
<1>3. \A r \in Requests : Owed(r)'
  BY DEF Delivery, Owed
<1> QED BY <1>1, <1>2, <1>3 DEF Delivery

LEMMA DeliveryPass ==
    ASSUME Types, Filed, EngineTypes, Delivery, StepGoesOn
    PROVE  Delivery'
<1>0. PassStep /\ UNCHANGED <<client, inbox, senders, stream_senders, finished>>
  BY DEF StepGoesOn
<1>1. \A r \in Requests : /\ status'[r] \in Live => status[r] \in Live
                          /\ status'[r] = "Finished" <=> status[r] = "Finished"
                          /\ status'[r] = "Unborn" <=> status[r] = "Unborn"
  BY <1>0, PassStatuses
<1>2. err = "none"
  BY <1>0 DEF PassStep, StopPrefills, StopRunning, StopSwapped, PassFails, PrefillIgnored,
         PrefillScheduled, RunningScheduled, Preempt, SwappedIgnored, SwappedScheduled, Commit, In, Delayed
<1>3. /\ at' = "select" => finished' = <<>>
      /\ at' = "respond" => finished' # <<>>
  BY <1>0 DEF StepGoesOn
<1>4. Range(finished) \subseteq Requests
  BY RangeOfList DEF EngineTypes
<1>5. /\ \A r \in Range(finished') : status'[r] = "Finished"
      /\ \A r \in Range(inbox') : client'[r] # "new"
  BY <1>0, <1>1, <1>4 DEF Delivery
<1>6. \A r \in Requests : Registered(r)'
  BY <1>0, <1>1 DEF Delivery, Registered
<1>7. \A r \in Requests : Owed(r)'
  BY <1>0, <1>1, <1>2 DEF Delivery, Owed
<1> QED BY <1>3, <1>5, <1>6, <1>7 DEF Delivery

LEMMA DeliveryReceive ==
    ASSUME Types, EngineTypes, Delivery, ReceiveRequest
    PROVE  Delivery'
<1>0. inbox \in Seq(Requests) /\ inbox # <<>> /\ status \in [Requests -> Statuses]
  BY DEF EngineTypes, Types, SeqTypes, ReceiveRequest
<1>1. PICK x \in Requests : x = Head(inbox) /\ x \in Range(inbox) /\ Range(Tail(inbox)) \subseteq Range(inbox)
  BY <1>0, HeadTail
<1>2. /\ status[x] = "Unborn" /\ status' = [status EXCEPT ![x] = "Waiting"] /\ err' = err
      /\ at = "select" /\ at' \in {"select", "step"} /\ inbox' = Tail(inbox)
      /\ UNCHANGED <<client, finished>>
      /\ senders \subseteq senders' /\ stream_senders \subseteq stream_senders'
      /\ x \in senders' \cup stream_senders'
  BY <1>1 DEF ReceiveRequest, AddSequenceGroup, AfterRequest, RegisterSender
<1>3. status'[x] = "Waiting" /\ \A r \in Requests : r # x => status'[r] = status[r]
  BY <1>0, <1>2
<1>4. finished = <<>> /\ Range(finished') = {}
  BY <1>2, EmptyList DEF Delivery
<1>5. \A r \in Range(inbox') : client'[r] # "new"
  BY <1>1, <1>2 DEF Delivery
<1>6. client[x] # "new" /\ client[x] # "answered"
  BY <1>1, <1>2 DEF Delivery, Registered
<1>7. ASSUME NEW r \in Requests PROVE Registered(r)' /\ Owed(r)'
  <2>1. Registered(r) /\ Owed(r)
    BY DEF Delivery
  <2>2. CASE r = x
    BY <1>2, <1>3, <1>6, <2>2 DEF Registered, Owed
  <2>3. CASE r # x
    <3>1. Registered(r)'
      BY <1>2, <1>3, <2>1, <2>3 DEF Registered
    <3>2. Owed(r)'
      BY <1>2, <1>3, <2>1, <2>3 DEF Owed
    <3> QED BY <3>1, <3>2
  <2> QED BY <2>2, <2>3
<1> QED BY <1>2, <1>4, <1>5, <1>7 DEF Delivery

LEMMA DeliveryOutputs ==
    ASSUME Types, Filed, NoAborts, EngineTypes, Delivery, HandleOutputs
    PROVE  Delivery'
<1>0. /\ UNCHANGED <<inbox, senders, stream_senders>> /\ at = "select" /\ err = "none"
      /\ finished = <<>>
  BY DEF HandleOutputs, Delivery
<1>1. PICK stopped \in SUBSET Sampled, done \in SUBSET (Sampled \cap stream_senders) :
        IF StreamFails(stopped, done)
        THEN /\ err' = "FlumeSendError" /\ UNCHANGED <<seqs, client, at, finished>>
        ELSE /\ ProcessOutputs(stopped)
             /\ finished' = Over
             /\ client' = [r \in Requests |->
                    IF r \in stream_senders /\ r \in Range(finished') THEN "answered" ELSE client[r]]
             /\ at' = AfterOutputs(finished')
  BY DEF HandleOutputs, Over
<1>2. CASE StreamFails(stopped, done)
  <2>1. UNCHANGED <<status, client, finished, at>> /\ err' # "none"
    BY <1>1, <1>2 DEF seqs
  <2> QED BY <1>0, <2>1, DeliverySame
<1>3. CASE ~StreamFails(stopped, done)
  <2>0. in_flight /\ at' = "step" /\ ProcessOutputs(stopped) /\ finished' = Over
    BY <1>1, <1>3 DEF ProcessOutputs, AfterOutputs
  <2>1. /\ \A r \in Requests : r \in Range(finished') <=> status'[r] \notin Live /\ \E e \in Batch : e.id = r
        /\ Range(finished') \subseteq Requests
    BY <2>0, OverType
  <2>2. \A e \in Batch : status[e.id] = "Running" /\ e.id \in Requests
    BY <2>0, ProcessOutputsEffect DEF Filed, BatchFiled, NoAborts
  <2>3. \A r \in Requests : status'[r] = status[r] \/ (r \in Sampled /\ status'[r] = "Finished")
    <3>1. CASE UNCHANGED seqs
      BY <3>1 DEF seqs
    <3>2. CASE OutputsProcessed(stopped)
      BY <3>2 DEF OutputsProcessed
    <3> QED BY <2>0, <3>1, <3>2, ProcessOutputsEffect
  <2>4. \A r \in Sampled : r \in Requests /\ status[r] = "Running" /\ \E e \in Batch : e.id = r
    BY <2>2 DEF Sampled
  <2>5. \A r \in Range(finished') : status'[r] = "Finished" /\ r \in Requests
    BY <2>1, <2>2, <2>3 DEF Live
  <2>6. \A r \in Requests : client'[r] = IF r \in stream_senders /\ r \in Range(finished') THEN "answered"
                                         ELSE client[r]
    BY <1>1, <1>3
  <2>7. Range(inbox) \subseteq Requests
    BY RangeOfList DEF EngineTypes
  <2>8. \A r \in Range(inbox') : client'[r] # "new"
    BY <1>0, <2>6, <2>7 DEF Delivery
  <2>9. ASSUME NEW r \in Requests PROVE Registered(r)'
    <3>1. Registered(r)
      BY DEF Delivery
    <3>2. status'[r] \in Live => r \in senders' \cup stream_senders'
      BY <1>0, <2>3, <3>1 DEF Registered, Live
    <3>3. client'[r] = "answered" => status'[r] = "Finished"
      BY <2>3, <2>5, <2>6, <3>1 DEF Registered
    <3>4. client'[r] = "new" => status'[r] = "Unborn"
      BY <2>3, <2>4, <2>6, <3>1 DEF Registered
    <3> QED BY <3>2, <3>3, <3>4 DEF Registered
  <2>10. ASSUME NEW r \in Requests PROVE Owed(r)'
    <3> SUFFICES ASSUME status'[r] = "Finished", client'[r] = "waiting"
                 PROVE  r \in Range(finished') /\ r \in senders'
      BY DEF Owed
    <3>1. client[r] = "waiting"
      BY <2>6
    <3>2. status[r] # "Finished"
      <4>1. r \notin Range(finished)
        BY <1>0, EmptyList
      <4> QED BY <1>0, <3>1, <4>1 DEF Delivery, Owed
    <3>3. r \in Sampled /\ status[r] = "Running" /\ \E e \in Batch : e.id = r
      BY <2>3, <2>4, <3>2
    <3>4. r \in Range(finished')
      BY <2>1, <3>3 DEF Live
    <3>5. r \in senders \cup stream_senders
      BY <3>3 DEF Delivery, Registered, Live
    <3>6. r \notin stream_senders
      BY <2>6, <3>4
    <3> QED BY <1>0, <3>4, <3>5, <3>6
  <2> QED BY <2>0, <2>5, <2>8, <2>9, <2>10 DEF Delivery
<1> QED BY <1>2, <1>3

LEMMA DeliverySend ==
    ASSUME Types, EngineTypes, Delivery, SendResponse
    PROVE  Delivery'
<1>0. /\ finished \in Seq(Requests) /\ finished # <<>> /\ err = "none" /\ UNCHANGED <<status, inbox, stream_senders>>
      /\ client \in [Requests -> {"new", "waiting", "answered", "left"}]
  BY DEF EngineTypes, Delivery, SendResponse, seqs
<1>1. PICK x \in Requests : /\ x = Head(finished) /\ Range(finished) = Range(Tail(finished)) \cup {x}
                            /\ Tail(finished) \in Seq(Requests)
  BY <1>0, HeadTail
<1>2. /\ finished' = Tail(finished) /\ senders' = senders \ {x}
      /\ err' = (IF x \in senders /\ client[x] = "left" THEN "SendResponseError" ELSE err)
      /\ client' = (IF x \in senders /\ client[x] = "waiting" THEN [client EXCEPT ![x] = "answered"] ELSE client)
      /\ at' = IF finished' = <<>> THEN "select" ELSE "respond"
  BY <1>1 DEF SendResponse, AfterSend
<1>3. status[x] = "Finished"
  BY <1>1 DEF Delivery
<1>4. \A r \in Requests : r # x => client'[r] = client[r]
  BY <1>0, <1>2
<1>5. client'[x] = client[x] \/ client'[x] = "answered"
  BY <1>0, <1>2
<1>6. client'[x] # "waiting"
  <2>1. CASE client[x] = "waiting"
    <3>1. x \in senders
      BY <1>0, <1>3, <2>1 DEF Delivery, Owed
    <3> QED BY <1>0, <1>2, <2>1, <3>1
  <2>2. CASE client[x] # "waiting"
    BY <1>2, <2>2
  <2> QED BY <2>1, <2>2
<1>7. ASSUME NEW r \in Requests PROVE Registered(r)' /\ Owed(r)'
  <2>1. Registered(r) /\ Owed(r)
    BY DEF Delivery
  <2>2. CASE r = x
    <3>1. Registered(r)'
      BY <1>0, <1>3, <1>5, <2>1, <2>2 DEF Registered, Live
    <3>2. Owed(r)'
      BY <1>6, <2>2 DEF Owed
    <3> QED BY <3>1, <3>2
  <2>3. CASE r # x
    <3>1. Registered(r)'
      BY <1>0, <1>2, <1>4, <2>1, <2>3 DEF Registered
    <3>2. Owed(r)'
      BY <1>0, <1>1, <1>2, <1>4, <2>1, <2>3 DEF Owed
    <3> QED BY <3>1, <3>2
  <2> QED BY <2>2, <2>3
<1>8. \A r \in Range(finished') : status'[r] = "Finished"
  BY <1>0, <1>1, <1>2 DEF Delivery
<1>9. \A r \in Range(inbox') : client'[r] # "new"
  <2>1. Range(inbox) \subseteq Requests
    BY RangeOfList DEF EngineTypes
  <2> QED BY <1>0, <1>4, <1>5, <2>1 DEF Delivery
<1> QED BY <1>2, <1>7, <1>8, <1>9 DEF Delivery

LEMMA DeliveryClient ==
    ASSUME Types, EngineTypes, Delivery, NEW x \in Requests, ClientSends(x) \/ ClientLeaves(x)
    PROVE  Delivery'
<1>0. /\ UNCHANGED <<status, err, senders, stream_senders, at, finished>>
      /\ client \in [Requests -> {"new", "waiting", "answered", "left"}] /\ inbox \in Seq(Requests)
  BY DEF EngineTypes, ClientSends, ClientLeaves, vars, seqs
<1>1. PICK to \in {"waiting", "left"} :
        /\ client' = [client EXCEPT ![x] = to]
        /\ to = "waiting" => client[x] = "new"
  BY DEF ClientSends, ClientLeaves
<1>2. client'[x] = to /\ \A r \in Requests : r # x => client'[r] = client[r]
  BY <1>0, <1>1
<1>3. Range(inbox') \subseteq Range(inbox) \cup {x} /\ Range(inbox) \subseteq Requests
  <2>1. CASE ClientSends(x)
    <3>1. inbox' = Append(inbox, x)
      BY <2>1 DEF ClientSends
    <3>2. Range(inbox') = Range(inbox) \cup {x}
      BY <1>0, <3>1, AppendList
    <3> QED BY <1>0, <3>2, RangeOfList
  <2>2. CASE ClientLeaves(x)
    BY <1>0, <2>2, RangeOfList DEF ClientLeaves
  <2> QED BY <2>1, <2>2
<1>4. \A r \in Range(inbox') : client'[r] # "new"
  BY <1>1, <1>2, <1>3 DEF Delivery
<1>5. ASSUME NEW r \in Requests PROVE Registered(r)' /\ Owed(r)'
  <2>1. Registered(r) /\ Owed(r)
    BY DEF Delivery
  <2>2. CASE r = x
    <3>1. Registered(r)'
      BY <1>0, <1>2, <2>1, <2>2 DEF Registered
    <3>2. Owed(r)'
      BY <1>0, <1>1, <1>2, <2>1, <2>2 DEF Registered, Owed
    <3> QED BY <3>1, <3>2
  <2>3. CASE r # x
    <3>1. Registered(r)'
      BY <1>0, <1>2, <2>1, <2>3 DEF Registered
    <3>2. Owed(r)'
      BY <1>0, <1>2, <2>1, <2>3 DEF Owed
    <3> QED BY <3>1, <3>2
  <2> QED BY <2>2, <2>3
<1> QED BY <1>0, <1>4, <1>5 DEF Delivery

LEMMA DeliveryNext ==
    ASSUME Types, Filed, NoAborts, EngineTypes, Delivery, [EngineNext]_allVars
    PROVE  Delivery'
<1>1. CASE ModelAnswers \/ ModelFails \/ UNCHANGED allVars
  <2>1. UNCHANGED <<status, client, finished, senders, stream_senders, inbox, err, at>>
    BY <1>1 DEF ModelAnswers, ModelFails, allVars, engine_vars, vars, seqs
  <2> QED BY <2>1, DeliverySame DEF Delivery
<1>2. CASE \E r \in Requests : ClientSends(r) \/ ClientLeaves(r)
  BY <1>2, DeliveryClient
<1>3. CASE Step \/ HandleFailure
  <2>1. /\ UNCHANGED <<status, client, finished, senders, stream_senders, inbox, err>>
        /\ at' \in {"pass", "step"}
    BY <1>3 DEF Step, HandleFailure, seqs
  <2> QED BY <2>1, DeliverySame
<1> QED BY <1>1, <1>2, <1>3, DeliveryReceive, DeliveryPass, DeliveryOutputs, DeliverySend DEF EngineNext, Engine

-----------------------------------------------------------------------------
(* The invariant of the engine *)

EngineInv == Types /\ Filed /\ Budget /\ Paced /\ NoAborts /\ EngineTypes /\ Where /\ Delivery

LEMMA NoAbortsNext ==
    ASSUME Types, Filed, NoAborts, Next \/ Dropped
    PROVE  NoAborts'
<1> SUFFICES ASSUME NEW r \in Requests PROVE status'[r] # "FinishedAborted"
  BY DEF NoAborts
<1>1. status[r] # "FinishedAborted"
  BY DEF NoAborts
<1> QED BY <1>1, StatusNext

LEMMA EngineInitially == EngineInit => EngineInv
<1> SUFFICES ASSUME EngineInit PROVE EngineInv
  OBVIOUS
<1>1. Init
  BY DEF EngineInit
<1>2. Types /\ Filed /\ Budget /\ Paced
  BY <1>1, PacedInit, TypesInit, FiledInit, BudgetInit
<1>3. EngineTypes
  BY DEF EngineInit, EngineTypes, Init
<1>4. Where
  BY DEF EngineInit, Where, Init
<1>5. Range(finished) = {} /\ Range(inbox) = {}
  BY EmptyList DEF EngineInit
<1>6. Delivery
  BY <1>5 DEF EngineInit, Delivery, Registered, Owed, Init, Live
<1>7. NoAborts
  BY <1>1 DEF Init, NoAborts
<1> QED BY <1>2, <1>3, <1>4, <1>6, <1>7 DEF EngineInv

LEMMA EngineInductive == EngineInv /\ [EngineNext]_allVars => EngineInv'
<1> SUFFICES ASSUME EngineInv, [EngineNext]_allVars PROVE EngineInv'
  OBVIOUS
<1>1. Next \/ Dropped
  BY EngineCalls DEF EngineInv
<1>2. Types' /\ Filed' /\ Budget' /\ Paced'
  BY <1>1, TypesNext, FiledNext, BudgetNext, PacedNext DEF EngineInv
<1>3. EngineTypes' /\ Where' /\ Delivery'
  BY EngineTypesNext, WhereNext, DeliveryNext DEF EngineInv
<1>4. NoAborts'
  BY <1>1, NoAbortsNext DEF EngineInv
<1> QED BY <1>2, <1>3, <1>4 DEF EngineInv

(* The invariant of the engine holds of every reachable state, under either
   policy and whatever the clients and the model thread do. *)
THEOREM EngineInvariant == EngineSpec => []EngineInv
BY EngineInitially, EngineInductive, PTL DEF EngineSpec

(* The engine implements the scheduler's own specification, widened by the one
   thing a failed batch or a lost client adds: every step of the engine is a call
   the scheduler expects, in a state where it expects it, or changes nothing of
   the scheduler but to give up the batch in flight. *)
THEOREM EngineDrivesScheduler == EngineSpec => Init /\ [][Next \/ Dropped]_vars
<1>1. EngineInit => Init
  BY DEF EngineInit
<1>2. EngineInv /\ [EngineNext]_allVars => [Next \/ Dropped]_vars
  BY EngineCalls DEF EngineInv
<1> QED BY <1>1, <1>2, EngineInvariant, PTL DEF EngineSpec

(* Every variable of the engine and of its scheduler has its type. *)
THEOREM EngineTypesHold == EngineSpec => []EngineTypeOK
<1>1. EngineInv => EngineTypeOK
  BY TypesHold DEF EngineInv, EngineTypes, EngineTypeOK
<1> QED BY <1>1, EngineInvariant, PTL

(* The engine never schedules while the model computes a batch, although only
   the emptiness of the last outputs keeps a new request from starting a pass. *)
THEOREM OneBatchAtATime == EngineSpec => []NoPassWhileInFlight
<1>1. EngineInv => NoPassWhileInFlight
  BY DEF EngineInv, Where, NoPassWhileInFlight
<1> QED BY <1>1, EngineInvariant, PTL

(* As long as the engine runs, a finished request whose client still waits is
   in the list of outputs being sent, and its response channel is there. *)
THEOREM FinishedGetAnswers == EngineSpec => []FinishedIsAnswered
<1>1. EngineInv => FinishedIsAnswered
  BY DEF EngineInv, Delivery, Owed, FinishedIsAnswered
<1> QED BY <1>1, EngineInvariant, PTL

(* An answer is final: an answered request is finished, in no queue of the
   scheduler and in no batch being computed. *)
THEOREM AnswersAreFinal == EngineSpec => []AnsweredIsOver
<1>1. ASSUME EngineInv PROVE AnsweredIsOver
  <2> SUFFICES ASSUME NEW r \in Requests, client[r] = "answered"
               PROVE  /\ status[r] = "Finished"
                      /\ r \notin Range(waiting) \cup Range(running) \cup Range(swapped)
                      /\ in_flight => r \notin Sampled
    BY DEF AnsweredIsOver
  <2>1. status[r] = "Finished"
    BY <1>1 DEF EngineInv, Delivery, Registered
  <2>2. r \notin Range(waiting) \cup Range(running) \cup Range(swapped)
    BY <1>1, <2>1 DEF EngineInv, Filed, NoneFinished
  <2>3. in_flight => r \notin Sampled
    BY <1>1, <2>1 DEF EngineInv, Filed, BatchFiled, Sampled
  <2> QED BY <2>1, <2>2, <2>3
<1> QED BY <1>1, EngineInvariant, PTL

(* What the scheduler guarantees alone it guarantees inside the engine, failed
   batches included: its budget, one direction of swapping a pass, and the order
   of preemption. *)
THEOREM SchedulerHoldsInEngine == EngineSpec => [](WithinBudget /\ NeverSwapBothWays /\ PreemptLatestFirst)
<1>1. EngineInv => WithinBudget /\ NeverSwapBothWays /\ PreemptLatestFirst
  BY BudgetKept, LatestFirst DEF EngineInv, Paced, OneWay, NeverSwapBothWays
<1> QED BY <1>1, EngineInvariant, PTL

(* ... and, with a block table for every request, the accounting of the blocks:
   no block is leaked or handed out twice, preempted requests hold none, and
   every sequence the model computes has a slot for each of its tokens. *)
THEOREM BlocksHoldInEngine ==
    DistinctIds => (EngineSpec => [](BlocksConserved /\ PreemptedHoldNothing /\ BatchBacked))
<1> SUFFICES ASSUME DistinctIds
             PROVE  EngineSpec => [](BlocksConserved /\ PreemptedHoldNothing /\ BatchBacked)
  OBVIOUS
<1>1. EngineInit => EngineInv /\ Tables
  BY EngineInitially, TablesInit DEF EngineInit
<1>2. EngineInv /\ Tables /\ [EngineNext]_allVars => (EngineInv /\ Tables)'
  <2> SUFFICES ASSUME EngineInv, Tables, [EngineNext]_allVars PROVE (EngineInv /\ Tables)'
    OBVIOUS
  <2>1. Next \/ Dropped
    BY EngineCalls DEF EngineInv
  <2>2. Tables'
    BY <2>1, TablesNext DEF EngineInv
  <2> QED BY <2>2, EngineInductive
<1>3. EngineInv /\ Tables => BlocksConserved /\ PreemptedHoldNothing /\ BatchBacked
  <2> SUFFICES ASSUME EngineInv, Tables PROVE BlocksConserved /\ PreemptedHoldNothing /\ BatchBacked
    OBVIOUS
  <2>1. BlocksConserved
    BY DEF Tables, GpuTotal, CpuTotal, Total, BlocksConserved
  <2> QED BY <2>1, NothingHeld, Backed DEF EngineInv
<1> QED BY <1>1, <1>2, <1>3, PTL DEF EngineSpec

(* Under the default policy the three queues match the statuses inside the
   engine too: a batch the model thread gives up leaves its requests in the
   running queue, none lost and none twice. *)
THEOREM QueuesHoldInEngine == ~Chunked => (EngineSpec => []QueuesMatchStatus)
<1> SUFFICES ASSUME ~Chunked PROVE EngineSpec => []QueuesMatchStatus
  OBVIOUS
<1>1. EngineInv => QueuesMatchStatus
  BY QueuesMatch DEF EngineInv
<1> QED BY <1>1, EngineInvariant, PTL
=============================================================================
