---------------------------- MODULE ModelThreads ----------------------------
(***************************************************************************)
(* The model threads, one per GPU (rank), as ModelThreadDispatcher starts  *)
(* them, feeds them and loses them: the communicator, loading, the signal  *)
(* that the weights are loaded, the broadcast of the configurations, the   *)
(* command channel of each rank, and the forward pass with its AllReduce   *)
(* operations, in which every rank waits for all the others.               *)
(*                                                                         *)
(* LlmService composes it with the tasks that talk to it.                  *)
(***************************************************************************)
EXTENDS Naturals, Sequences, FiniteSets

CONSTANTS
    NumRanks,     \* device_ids.len()
    Collectives,  \* AllReduce operations in one forward pass
    MaxBatches,   \* bound: batches sent in a behaviour
    MayFail       \* ranks that may fail to load, to start or to run a batch

Ranks == 0..(NumRanks - 1)

ASSUME RanksAssumption ==
    /\ NumRanks \in Nat \ {0}
    /\ Collectives \in Nat \ {0}
    /\ MaxBatches \in Nat \ {0}
    /\ MayFail \subseteq Ranks

VARIABLES
    rank,      \* where each thread is
    commands,  \* the command channel of each rank: numbers of batches
    position,  \* the batch a rank works on and how many collectives it has passed
    config,    \* the broadcast channel of the configurations
    sent,      \* batches sent
    reply      \* the one-shot reply of the last batch sent

ranks == <<rank, commands, position, config, sent, reply>>

(* A rank starts by joining the communicator; it ends when its command channel
   is closed, and fails by returning an error or by panicking *)
RankStates == {"comm", "loading", "loaded", "recv", "forward", "ended",
               "not_loaded", "failed"}

Alive(i) == rank[i] \notin {"ended", "not_loaded", "failed"}

RankLost == \E i \in Ranks : rank[i] \in {"not_loaded", "failed"}

RanksInit ==
    /\ rank = [i \in Ranks |-> "comm"]
    /\ commands = [i \in Ranks |-> <<>>]
    /\ position = [i \in Ranks |-> [batch |-> 0, passed |-> 0]]
    /\ config = "empty"
    /\ sent = 0
    /\ reply = "none"

-----------------------------------------------------------------------------
(* Start-up *)

(* Comm::from_rank: returns when every rank has called it *)
JoinCommunicator ==
    /\ \A i \in Ranks : rank[i] = "comm"
    /\ rank' = [i \in Ranks |-> "loading"]
    /\ UNCHANGED <<commands, position, config, sent, reply>>

(* M::load, and the signal on model_loader_senders *)
Load(i) ==
    /\ rank[i] = "loading"
    /\ rank' = [rank EXCEPT ![i] = "loaded"]
    /\ UNCHANGED <<commands, position, config, sent, reply>>

(* CudaDevice::new, Comm::from_rank or M::load fails: the signal is dropped *)
LoadFails(i) ==
    /\ i \in MayFail
    /\ rank[i] \in {"comm", "loading"}
    /\ rank' = [rank EXCEPT ![i] = "not_loaded"]
    /\ UNCHANGED <<commands, position, config, sent, reply>>

(* The configurations arrive and the worker and its KV cache are made *)
ReceiveConfig(i) ==
    /\ rank[i] = "loaded"
    /\ config = "sent"
    /\ rank' = [rank EXCEPT ![i] = "recv"]
    /\ UNCHANGED <<commands, position, config, sent, reply>>

(* The sender of the configurations is gone *)
ConfigClosed(i) ==
    /\ rank[i] = "loaded"
    /\ config = "closed"
    /\ rank' = [rank EXCEPT ![i] = "failed"]
    /\ UNCHANGED <<commands, position, config, sent, reply>>

(* A command of a thread that has ended drops its reply sender *)
DropReply(i) == IF i = 0 /\ reply = "pending" THEN "closed" ELSE reply

(* ModelWorker::new fails: no memory is left for the KV cache *)
WorkerFails(i) ==
    /\ i \in MayFail
    /\ rank[i] = "loaded" /\ config = "sent"
    /\ rank' = [rank EXCEPT ![i] = "failed"]
    /\ commands' = [commands EXCEPT ![i] = <<>>]
    /\ reply' = DropReply(i)
    /\ UNCHANGED <<position, config, sent>>

-----------------------------------------------------------------------------
(* The loop of ModelThread::run *)

Receive(i) ==
    /\ rank[i] = "recv" /\ commands[i] # <<>>
    /\ rank' = [rank EXCEPT ![i] = "forward"]
    /\ position' = [position EXCEPT ![i] = [batch |-> Head(commands[i]), passed |-> 0]]
    /\ commands' = [commands EXCEPT ![i] = Tail(@)]
    /\ UNCHANGED <<config, sent, reply>>

(* TensorParallelRowLinear::forward ends in an AllReduce, which returns when
   every rank has called it *)
InCollective(i) == rank[i] = "forward" /\ position[i].passed < Collectives

AllReduce ==
    /\ \A i \in Ranks : InCollective(i)
    /\ position' = [i \in Ranks |-> [position[i] EXCEPT !.passed = @ + 1]]
    /\ UNCHANGED <<rank, commands, config, sent, reply>>

(* The forward pass is over; rank 0 samples and sends the outputs *)
FinishBatch(i) ==
    /\ rank[i] = "forward" /\ position[i].passed = Collectives
    /\ rank' = [rank EXCEPT ![i] = "recv"]
    /\ reply' = IF i = 0 /\ reply = "pending" THEN "outputs" ELSE reply
    /\ UNCHANGED <<commands, position, config, sent>>

(* execute_model returns an error: the thread ends with it, and everything
   still in its channel is dropped *)
AfterError_NextCommand(i) == [rank EXCEPT ![i] = "recv"]

AfterError(i) == [rank EXCEPT ![i] = "failed"]

ExecuteFails(i) ==
    /\ i \in MayFail
    /\ rank[i] = "forward"
    /\ rank' = AfterError(i)
    /\ commands' = [commands EXCEPT ![i] = IF rank'[i] = "failed" THEN <<>> ELSE @]
    /\ reply' = DropReply(i)
    /\ UNCHANGED <<position, config, sent>>

(* blocking_recv returns None: the dispatcher was dropped with the engine *)
ChannelClosed(i, dispatcherDropped) ==
    /\ rank[i] = "recv" /\ commands[i] = <<>>
    /\ dispatcherDropped
    /\ rank' = [rank EXCEPT ![i] = "ended"]
    /\ UNCHANGED <<commands, position, config, sent, reply>>

-----------------------------------------------------------------------------
(* ModelThreadDispatcher::send: every rank gets the batch, rank 0 with the
   sender of the reply; an error of a send is only logged *)

Receivers_First == {0}

Receivers == Ranks

Send ==
    /\ sent' = sent + 1
    /\ commands' = [i \in Ranks |-> IF i \in Receivers /\ Alive(i)
                                    THEN Append(commands[i], sent + 1) ELSE commands[i]]
    /\ reply' = IF Alive(0) THEN "pending" ELSE "closed"
    /\ UNCHANGED <<rank, position, config>>

RankStep(i, dispatcherDropped) ==
    \/ Load(i) \/ ReceiveConfig(i) \/ ConfigClosed(i)
    \/ Receive(i) \/ FinishBatch(i)
    \/ ChannelClosed(i, dispatcherDropped)

RankFails(i) == LoadFails(i) \/ WorkerFails(i) \/ ExecuteFails(i)

-----------------------------------------------------------------------------
(* Properties *)

RanksTypeOK ==
    /\ rank \in [Ranks -> RankStates]
    /\ commands \in [Ranks -> Seq(1..MaxBatches)]
    /\ position \in [Ranks -> [batch : 0..MaxBatches, passed : 0..Collectives]]
    /\ config \in {"empty", "sent", "closed"}
    /\ sent \in 0..MaxBatches
    /\ reply \in {"none", "pending", "outputs", "closed"}

(* NCCL pairs the calls of the ranks in the order they are made, whatever they
   compute: when all ranks are in an AllReduce, it must be the same one of the
   same batch, or partial sums of different tensors are added.  Nothing in a
   command says so; it rests on every rank getting every batch, and on a rank
   that fails never going on. *)
CollectivesMatch ==
    (\A i \in Ranks : InCollective(i))
        => \A i, j \in Ranks : position[i] = position[j]

(* The engine sends a batch when rank 0 has answered the one before, without
   waiting for the other ranks: they are never more than that one batch behind
   while every rank runs, so their channels do not grow. *)
RanksKeepUp ==
    ~RankLost => \A i \in Ranks : Len(commands[i]) <= 1 /\ position[i].batch + 1 >= sent

=============================================================================
