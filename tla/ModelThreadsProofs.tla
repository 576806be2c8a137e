------------------------- MODULE ModelThreadsProofs -------------------------
(***************************************************************************)
(* Every step of the model threads keeps the invariant that pairs their    *)
(* collectives, for every number of ranks.  LlmServiceProofs composes the  *)
(* lemmas with the tasks that send the batches.                            *)
(***************************************************************************)
EXTENDS ModelThreads, Integers, TLAPS

(* A channel that holds consecutive numbers from b + 1 on, and what receiving and
   sending leave of it. *)
LEMMA RunReceived ==
    ASSUME NEW B, NEW q \in Seq(B), q # <<>>, NEW b \in Nat,
           \A k \in DOMAIN q : q[k] = b + k
    PROVE  /\ Head(q) = b + 1 /\ Head(q) \in B
           /\ Tail(q) \in Seq(B) /\ Len(Tail(q)) = Len(q) - 1
           /\ Len(q) <= 1 => Tail(q) = <<>>
           /\ \A k \in DOMAIN Tail(q) : Tail(q)[k] = (b + 1) + k
<1>1. Len(q) \in Nat /\ Len(q) >= 1 /\ DOMAIN q = 1..Len(q)
  OBVIOUS
<1>2. Head(q) = q[1] /\ q[1] = b + 1
  BY <1>1
<1>3. /\ Tail(q) \in Seq(B) /\ Len(Tail(q)) = Len(q) - 1 /\ DOMAIN Tail(q) = 1..(Len(q) - 1)
      /\ \A k \in 1..(Len(q) - 1) : Tail(q)[k] = q[k + 1] /\ k + 1 \in DOMAIN q
  BY <1>1
<1>4. \A k \in DOMAIN Tail(q) : Tail(q)[k] = (b + 1) + k
  BY <1>1, <1>3
<1> QED BY <1>1, <1>2, <1>3, <1>4

LEMMA RunSent ==
    ASSUME NEW B, NEW q \in Seq(B), NEW b \in Nat, b + Len(q) + 1 \in B,
           \A k \in DOMAIN q : q[k] = b + k,
           NEW a, a = Append(q, b + Len(q) + 1)
    PROVE  /\ a \in Seq(B) /\ Len(a) = Len(q) + 1
           /\ \A k \in DOMAIN a : a[k] = b + k
<1>1. Len(q) \in Nat /\ DOMAIN q = 1..Len(q)
  OBVIOUS
<1>2. /\ a \in Seq(B) /\ Len(a) = Len(q) + 1 /\ DOMAIN a = 1..(Len(q) + 1)
      /\ \A k \in 1..Len(q) : a[k] = q[k]
      /\ a[Len(q) + 1] = b + Len(q) + 1
  BY <1>1
<1>3. \A k \in DOMAIN a : a[k] = b + k
  <2> TAKE k \in DOMAIN a
  <2>1. k \in 1..Len(q) \/ k = Len(q) + 1
    BY <1>1, <1>2
  <2> QED BY <1>1, <1>2, <2>1
<1> QED BY <1>2, <1>3

-----------------------------------------------------------------------------

Lost(i) == rank[i] \in {"not_loaded", "failed"}

(* Nothing of the batch of rank i is left to add up *)
Done(i) == position[i].batch = 0 \/ position[i].passed = Collectives

(* Rank i has received the batch that rank j will receive next *)
OneAhead(i, j) ==
    position[i].batch = position[j].batch + 1 /\ position[i].passed = 0 /\ Done(j)

(* Any two ranks have passed the same number of collectives, the ranks that
   failed included *)
InStep ==
    \A i, j \in Ranks :
        position[i] = position[j] \/ OneAhead(i, j) \/ OneAhead(j, i)

(* The channel of a rank holds the batches it has not received, in order *)
Channels ==
    \A i \in Ranks : Alive(i) =>
        /\ position[i].batch + Len(commands[i]) = sent
        /\ \A k \in DOMAIN commands[i] : commands[i][k] = position[i].batch + k

Phases ==
    \A i \in Ranks :
        /\ rank[i] = "forward" => position[i].batch >= 1
        /\ rank[i] \notin {"forward", "failed"} => Done(i)
        /\ rank[i] = "ended" => commands[i] = <<>> /\ position[i].batch = sent

(* The reply is pending as long as rank 0 has something to compute, and only
   the loss of rank 0 closes it *)
Replies ==
    ~Lost(0) =>
        /\ reply # "closed"
        /\ reply # "pending" => commands[0] = <<>> /\ rank[0] # "forward"
        /\ rank[0] = "forward" => commands[0] = <<>>
        /\ Len(commands[0]) <= 1

Keeping == ~RankLost => \A i \in Ranks : position[i].batch + 1 >= sent

RanksInv ==
    /\ RanksTypeOK
    /\ InStep
    /\ Channels
    /\ Phases
    /\ Replies
    /\ Keeping

-----------------------------------------------------------------------------

(* The invariant implies what the runs check: all ranks that wait in an
   AllReduce wait in the same one of the same batch. *)
LEMMA InStepMatches == RanksInv => CollectivesMatch
<1> SUFFICES ASSUME RanksInv, \A i \in Ranks : InCollective(i), NEW i \in Ranks, NEW j \in Ranks
             PROVE  position[i] = position[j]
  BY DEF CollectivesMatch
<1>1. ~Done(i) /\ ~Done(j)
  BY RanksAssumption DEF RanksInv, RanksTypeOK, Phases, Done, InCollective
<1> QED BY <1>1 DEF RanksInv, InStep, OneAhead

(* ... and no channel holds more than one batch while no rank is lost. *)
LEMMA KeepingKeepsUp == RanksInv => RanksKeepUp
<1> SUFFICES ASSUME RanksInv, ~RankLost, NEW i \in Ranks
             PROVE  Len(commands[i]) <= 1 /\ position[i].batch + 1 >= sent
  BY DEF RanksKeepUp
<1>1. position[i].batch + 1 >= sent /\ position[i].batch \in Nat /\ sent \in Nat
  BY DEF RanksInv, Keeping, RanksTypeOK
<1>2. commands[i] \in Seq(1..MaxBatches)
  BY DEF RanksInv, RanksTypeOK
<1>3. CASE Alive(i)
  BY <1>1, <1>2, <1>3 DEF RanksInv, Channels
<1>4. CASE ~Alive(i)
  <2>1. rank[i] = "ended"
    BY <1>4 DEF Alive, RankLost
  <2> QED BY <1>1, <2>1 DEF RanksInv, Phases
<1> QED BY <1>3, <1>4

(* RanksInit: nothing is sent and every rank is at position 0. *)
LEMMA RanksInitInv == RanksInit => RanksInv
BY RanksAssumption
   DEF RanksInit, RanksInv, RanksTypeOK, InStep, Channels, Phases, Replies, Keeping, Ranks,
       RankStates, Alive, Done, OneAhead, Lost, RankLost

(* A state with the same ranks satisfies the same invariant. *)
LEMMA RanksFrame == RanksInv /\ UNCHANGED ranks => RanksInv'
BY DEF ranks, RanksInv, RanksTypeOK, InStep, Channels, Phases, Replies, Keeping, Ranks,
       RankStates, Alive, Done, OneAhead, Lost, RankLost

(* A step of the thread of one rank that leaves its position, its channel and
   the reply alone, and neither enters nor leaves a forward pass: Load,
   ReceiveConfig, ConfigClosed, LoadFails, ChannelClosed. *)
LEMMA MoveStep ==
    ASSUME RanksInv, NEW i \in Ranks, NEW to \in RankStates,
           rank[i] \in {"comm", "loading", "loaded", "recv"},
           to # "forward",
           to = "ended" => commands[i] = <<>>,
           rank' = [rank EXCEPT ![i] = to],
           UNCHANGED <<commands, position, config, sent, reply>>
    PROVE  RanksInv'
<1> USE DEF RanksInv
<1>1. /\ rank' \in [Ranks -> RankStates] /\ rank'[i] = to
      /\ \A j \in Ranks : j # i => rank'[j] = rank[j]
  BY DEF RanksTypeOK
<1>2. RanksTypeOK'
  BY <1>1 DEF RanksTypeOK
<1>3. InStep'
  BY DEF InStep, OneAhead, Done
<1>4. \A j \in Ranks : (Alive(j)' => Alive(j)) /\ (Lost(j) => Lost(j)')
  BY <1>1 DEF Alive, Lost
<1>5. Channels'
  BY <1>4 DEF Channels
<1>6. Phases'
  <2> SUFFICES ASSUME NEW j \in Ranks
               PROVE  /\ rank'[j] = "forward" => position[j].batch >= 1
                      /\ rank'[j] \notin {"forward", "failed"} => Done(j)
                      /\ rank'[j] = "ended" => commands[j] = <<>> /\ position[j].batch = sent
    BY DEF Phases, Done
  <2>1. CASE j # i
    BY <1>1, <2>1 DEF Phases
  <2>2. CASE j = i
    <3>1. Done(i)
      BY DEF Phases
    <3>2. to = "ended" => position[i].batch = sent
      <4>1. Alive(i) /\ position[i].batch \in Nat
        BY DEF Alive, RanksTypeOK
      <4>2. position[i].batch + Len(commands[i]) = sent
        BY <4>1 DEF Channels
      <4> QED BY <4>1, <4>2
    <3> QED BY <1>1, <2>2, <3>1, <3>2
  <2> QED BY <2>1, <2>2
<1>7. Replies'
  <2>1. 0 \in Ranks
    BY RanksAssumption DEF Ranks
  <2> QED BY <1>1, <1>4, <2>1 DEF Replies, Lost
<1>8. Keeping'
  BY <1>4 DEF Keeping, RankLost, Lost
<1> QED BY <1>2, <1>3, <1>5, <1>6, <1>7, <1>8

(* The communicator is complete: every thread goes on to load its weights. *)
LEMMA JoinStep == RanksInv /\ JoinCommunicator => RanksInv'
<1> SUFFICES ASSUME RanksInv, JoinCommunicator PROVE RanksInv'
  OBVIOUS
<1> USE DEF RanksInv
<1>1. \A j \in Ranks : rank'[j] = "loading" /\ rank[j] = "comm"
  BY DEF JoinCommunicator
<1>2. 0 \in Ranks /\ UNCHANGED <<commands, position, config, sent, reply>>
  BY RanksAssumption DEF Ranks, JoinCommunicator
<1>3. RanksTypeOK'
  BY <1>2 DEF RanksTypeOK, JoinCommunicator, RankStates
<1>4. InStep'
  BY <1>2 DEF InStep, OneAhead, Done
<1>5. \A j \in Ranks : Alive(j) /\ ~Lost(j)
  BY <1>1 DEF Alive, Lost
<1>6. Channels'
  BY <1>2, <1>5 DEF Channels
<1>7. Phases'
  BY <1>1, <1>2 DEF Phases, Done
<1>8. Replies'
  BY <1>1, <1>2, <1>5 DEF Replies, Lost
<1>9. Keeping'
  BY <1>2, <1>5 DEF Keeping, RankLost, Lost
<1> QED BY <1>3, <1>4, <1>6, <1>7, <1>8, <1>9

(* A thread that fails keeps its position for ever: the others are never in the
   next collective without it. *)
LEMMA FailStep ==
    ASSUME RanksInv, NEW i \in Ranks,
           rank' = [rank EXCEPT ![i] = "failed"],
           commands' = [commands EXCEPT ![i] = <<>>],
           reply' = DropReply(i),
           UNCHANGED <<position, config, sent>>
    PROVE  RanksInv'
<1> USE DEF RanksInv
<1>1. /\ rank' \in [Ranks -> RankStates] /\ rank'[i] = "failed"
      /\ \A j \in Ranks : j # i => rank'[j] = rank[j] /\ commands'[j] = commands[j]
  BY DEF RanksTypeOK, RankStates
<1>2. RanksTypeOK'
  BY <1>1 DEF RanksTypeOK, DropReply
<1>3. InStep'
  BY DEF InStep, OneAhead, Done
<1>4. \A j \in Ranks : Alive(j)' => j # i /\ Alive(j)
  BY <1>1 DEF Alive
<1>5. Channels'
  BY <1>1, <1>4 DEF Channels
<1>6. Phases'
  BY <1>1 DEF Phases, Done
<1>7. Replies'
  BY <1>1, RanksAssumption DEF Replies, Lost, DropReply, Ranks
<1>8. Keeping'
  BY <1>1 DEF Keeping, RankLost
<1> QED BY <1>2, <1>3, <1>5, <1>6, <1>7, <1>8

LEMMA WorkerFailsStep == ASSUME RanksInv, NEW i \in Ranks, WorkerFails(i) PROVE RanksInv'
BY FailStep DEF WorkerFails

LEMMA ExecuteFailsStep == ASSUME RanksInv, NEW i \in Ranks, ExecuteFails(i) PROVE RanksInv'
<1>1. rank' = [rank EXCEPT ![i] = "failed"] /\ rank'[i] = "failed"
  BY DEF ExecuteFails, AfterError, RanksInv, RanksTypeOK
<1>2. commands' = [commands EXCEPT ![i] = <<>>]
  BY <1>1 DEF ExecuteFails
<1> QED BY <1>1, <1>2, FailStep DEF ExecuteFails

(* Receiving the next batch moves a rank that is done with the last one ahead of
   the others, or catches up with them. *)
LEMMA ReceiveStep == ASSUME RanksInv, NEW i \in Ranks, Receive(i) PROVE RanksInv'
<1> USE DEF RanksInv
<1>1. /\ rank[i] = "recv" /\ commands[i] # <<>> /\ commands[i] \in Seq(1..MaxBatches)
      /\ position[i].batch \in 0..MaxBatches /\ sent \in 0..MaxBatches
  BY DEF Receive, RanksTypeOK
<1>2. /\ position[i].batch + Len(commands[i]) = sent
      /\ \A k \in DOMAIN commands[i] : commands[i][k] = position[i].batch + k
  BY <1>1 DEF Channels, Alive
<1>3. /\ Head(commands[i]) = position[i].batch + 1
      /\ position[i].batch + 1 \in 0..MaxBatches
      /\ Len(Tail(commands[i])) = Len(commands[i]) - 1
      /\ Tail(commands[i]) \in Seq(1..MaxBatches)
      /\ Len(commands[i]) <= 1 => Tail(commands[i]) = <<>>
      /\ \A k \in DOMAIN Tail(commands[i]) : Tail(commands[i])[k] = position[i].batch + 1 + k
  <2>1. position[i].batch \in Nat /\ commands[i] \in Seq(1..MaxBatches) /\ commands[i] # <<>>
    BY <1>1
  <2>2. /\ Head(commands[i]) = position[i].batch + 1 /\ Head(commands[i]) \in 1..MaxBatches
        /\ Len(Tail(commands[i])) = Len(commands[i]) - 1
        /\ Tail(commands[i]) \in Seq(1..MaxBatches)
        /\ Len(commands[i]) <= 1 => Tail(commands[i]) = <<>>
        /\ \A k \in DOMAIN Tail(commands[i]) : Tail(commands[i])[k] = position[i].batch + 1 + k
    <3>1. PICK q : q = commands[i]
      OBVIOUS
    <3>2. PICK b \in Nat : b = position[i].batch
      BY <2>1
    <3>3. q \in Seq(1..MaxBatches) /\ q # <<>> /\ \A k \in DOMAIN q : q[k] = b + k
      BY <1>2, <2>1, <3>1, <3>2
    <3>4. /\ Head(q) = b + 1 /\ Head(q) \in 1..MaxBatches
          /\ Tail(q) \in Seq(1..MaxBatches) /\ Len(Tail(q)) = Len(q) - 1
          /\ Len(q) <= 1 => Tail(q) = <<>>
          /\ \A k \in DOMAIN Tail(q) : Tail(q)[k] = (b + 1) + k
      BY <3>3, RunReceived
    <3> QED BY <3>1, <3>2, <3>4
  <2> QED BY <2>1, <2>2
<1>4. /\ position'[i] = [batch |-> position[i].batch + 1, passed |-> 0]
      /\ \A j \in Ranks : j # i => position'[j] = position[j] /\ rank'[j] = rank[j]
                                   /\ commands'[j] = commands[j]
      /\ rank'[i] = "forward" /\ commands'[i] = Tail(commands[i])
      /\ UNCHANGED <<config, sent, reply>>
  BY <1>3 DEF Receive, RanksTypeOK
<1>5. RanksTypeOK'
  BY <1>3, <1>4, RanksAssumption DEF RanksTypeOK, Receive, RankStates
<1>6. Done(i)
  BY <1>1 DEF Phases
<1>7. InStep'
  <2>1. ASSUME NEW j \in Ranks, j # i
        PROVE  position'[i] = position'[j] \/ OneAhead(i, j)' \/ OneAhead(j, i)'
    <3>0. position[i] \in [batch : 0..MaxBatches, passed : 0..Collectives]
          /\ position[j] \in [batch : 0..MaxBatches, passed : 0..Collectives]
      BY DEF RanksTypeOK
    <3>1. CASE position[i] = position[j]
      BY <1>4, <1>6, <2>1, <3>1 DEF OneAhead, Done
    <3>2. CASE OneAhead(i, j)
      BY <1>6, <3>0, <3>2, RanksAssumption DEF OneAhead, Done
    <3>3. CASE OneAhead(j, i)
      BY <1>4, <2>1, <3>0, <3>3 DEF OneAhead
    <3> QED BY <3>1, <3>2, <3>3 DEF InStep
  <2> SUFFICES ASSUME NEW j \in Ranks, NEW k \in Ranks
               PROVE  position'[j] = position'[k] \/ OneAhead(j, k)' \/ OneAhead(k, j)'
    BY DEF InStep
  <2>2. CASE j # i /\ k # i
    BY <1>4, <2>2 DEF InStep, OneAhead, Done
  <2> QED BY <2>1, <2>2
<1>8. Channels'
  <2> SUFFICES ASSUME NEW j \in Ranks, Alive(j)'
               PROVE  /\ position'[j].batch + Len(commands'[j]) = sent
                      /\ \A k \in DOMAIN commands'[j] : commands'[j][k] = position'[j].batch + k
    BY <1>4 DEF Channels
  <2>1. CASE j = i
    <3>1. Len(commands[i]) \in Nat
      BY <1>1
    <3>2. position'[i].batch = position[i].batch + 1
      BY <1>4
    <3>3. position'[i].batch + Len(commands'[i]) = sent
      <4>1. position[i].batch \in Nat /\ sent \in Nat
        BY <1>1
      <4>2. (position[i].batch + 1) + (Len(commands[i]) - 1) = sent
        BY <1>2, <3>1, <4>1
      <4> QED BY <1>3, <1>4, <3>2, <4>2
    <3>4. \A k \in DOMAIN commands'[i] : commands'[i][k] = position'[i].batch + k
      BY <1>3, <1>4, <3>2
    <3> QED BY <2>1, <3>3, <3>4
  <2>2. CASE j # i
    <3>1. Alive(j)
      BY <1>4, <2>2 DEF Alive
    <3> QED BY <1>4, <2>2, <3>1 DEF Channels
  <2> QED BY <2>1, <2>2
<1>9. Phases'
  <2> SUFFICES ASSUME NEW j \in Ranks
               PROVE  /\ rank'[j] = "forward" => position'[j].batch >= 1
                      /\ rank'[j] \notin {"forward", "failed"} => Done(j)'
                      /\ rank'[j] = "ended" => commands'[j] = <<>> /\ position'[j].batch = sent
    BY <1>4 DEF Phases
  <2>1. CASE j = i
    BY <1>1, <1>4, <2>1
  <2>2. CASE j # i
    BY <1>4, <2>2 DEF Phases, Done
  <2> QED BY <2>1, <2>2
<1>10. Replies'
  <2>1. CASE i = 0
    <3>1. Len(commands[0]) <= 1 /\ reply = "pending"
      BY <1>1, <2>1 DEF Replies, Lost
    <3>2. commands'[0] = <<>>
      BY <1>3, <1>4, <2>1, <3>1
    <3> QED BY <1>4, <2>1, <3>1, <3>2 DEF Replies
  <2>2. CASE i # 0
    BY <1>4, <2>2, RanksAssumption DEF Replies, Ranks, Lost
  <2> QED BY <2>1, <2>2
<1>11. Keeping'
  <2>1. RankLost => RankLost'
    BY <1>1, <1>4 DEF RankLost
  <2>2. \A j \in Ranks : position'[j].batch \in Nat /\ position[j].batch \in Nat
                         /\ position'[j].batch >= position[j].batch
    <3> TAKE j \in Ranks
    <3>1. position[j] \in [batch : 0..MaxBatches, passed : 0..Collectives]
          /\ position'[j] \in [batch : 0..MaxBatches, passed : 0..Collectives]
      BY <1>5 DEF RanksTypeOK
    <3>2. position'[j].batch \in Nat /\ position[j].batch \in Nat
      BY <3>1
    <3>3. CASE j = i
      BY <1>4, <3>2, <3>3
    <3>4. CASE j # i
      BY <1>4, <3>2, <3>4
    <3> QED BY <3>2, <3>3, <3>4
  <2> QED BY <1>1, <1>4, <2>1, <2>2 DEF Keeping
<1> QED BY <1>5, <1>7, <1>8, <1>9, <1>10, <1>11

(* Only ranks at the same position pass a collective, and all of them do. *)
LEMMA AllReduceStep == RanksInv /\ AllReduce => RanksInv'
<1> SUFFICES ASSUME RanksInv, AllReduce PROVE RanksInv'
  OBVIOUS
<1> USE DEF RanksInv
<1>1. \A i \in Ranks : /\ rank[i] = "forward" /\ position[i].passed < Collectives
                       /\ position[i].batch \in 0..MaxBatches
                       /\ position[i].passed \in 0..Collectives
  BY DEF AllReduce, InCollective, RanksTypeOK
<1>2. \A i, j \in Ranks : position[i] = position[j]
  BY InStepMatches DEF AllReduce, CollectivesMatch
<1>3. \A i \in Ranks : /\ position'[i].batch = position[i].batch
                       /\ position'[i].passed = position[i].passed + 1
                       /\ position'[i] \in [batch : 0..MaxBatches, passed : 0..Collectives]
  BY <1>1, RanksAssumption DEF AllReduce, RanksTypeOK
<1>4. 0 \in Ranks /\ UNCHANGED <<rank, commands, config, sent, reply>>
  BY RanksAssumption DEF Ranks, AllReduce
<1>5. RanksTypeOK'
  BY <1>3, <1>4 DEF RanksTypeOK, AllReduce
<1>6. InStep'
  BY <1>2 DEF InStep, AllReduce
<1>7. Channels'
  BY <1>3, <1>4 DEF Channels, Alive
<1>8. Phases'
  BY <1>1, <1>3, <1>4 DEF Phases
<1>9. Replies'
  BY <1>4 DEF Replies, Lost
<1>10. Keeping'
  BY <1>3, <1>4 DEF Keeping, RankLost
<1> QED BY <1>5, <1>6, <1>7, <1>8, <1>9, <1>10

(* The last collective of the batch is behind the rank; rank 0 answers. *)
LEMMA FinishBatchStep == ASSUME RanksInv, NEW i \in Ranks, FinishBatch(i) PROVE RanksInv'
<1> USE DEF RanksInv
<1>1. /\ rank[i] = "forward" /\ position[i].passed = Collectives
      /\ rank'[i] = "recv" /\ \A j \in Ranks : j # i => rank'[j] = rank[j]
      /\ UNCHANGED <<commands, position, config, sent>>
  BY DEF FinishBatch, RanksTypeOK
<1>2. RanksTypeOK'
  BY <1>1 DEF FinishBatch, RanksTypeOK, RankStates
<1>3. InStep'
  BY <1>1 DEF InStep, OneAhead, Done
<1>4. \A j \in Ranks : (Alive(j)' => Alive(j)) /\ (Lost(j) <=> Lost(j)')
  BY <1>1 DEF Alive, Lost
<1>5. Channels'
  BY <1>1, <1>4 DEF Channels
<1>6. Phases'
  BY <1>1 DEF Phases, Done
<1>7. Replies'
  <2>1. 0 \in Ranks
    BY RanksAssumption DEF Ranks
  <2>2. CASE i = 0
    BY <1>1, <2>1, <2>2 DEF Replies, Lost, FinishBatch
  <2>3. CASE i # 0
    BY <1>1, <1>4, <2>1, <2>3 DEF Replies, Lost, FinishBatch
  <2> QED BY <2>2, <2>3
<1>8. Keeping'
  BY <1>1, <1>4 DEF Keeping, RankLost, Lost
<1> QED BY <1>2, <1>3, <1>5, <1>6, <1>7, <1>8

(* A batch is sent while no reply is pending and no thread has ended: then rank
   0 is done with every batch before it, so by InStep every rank has received
   them all, unless one was lost. *)
LEMMA SendStep ==
    ASSUME RanksInv, Send, sent < MaxBatches, reply \in {"none", "closed"},
           \A i \in Ranks : rank[i] # "ended"
    PROVE  RanksInv'
<1> USE DEF RanksInv
<1>1. /\ sent' = sent + 1 /\ sent \in 0..MaxBatches /\ sent + 1 \in 1..MaxBatches
      /\ 0 \in Ranks /\ UNCHANGED <<rank, position, config>>
  BY RanksAssumption DEF Send, RanksTypeOK, Ranks
<1>2. \A i \in Ranks : /\ commands[i] \in Seq(1..MaxBatches)
                       /\ position[i] \in [batch : 0..MaxBatches, passed : 0..Collectives]
                       /\ commands'[i] = IF Alive(i) THEN Append(commands[i], sent + 1)
                                         ELSE commands[i]
  BY DEF Send, Receivers, RanksTypeOK
<1>9. ASSUME NEW i \in Ranks, Alive(i)
      PROVE  /\ commands'[i] \in Seq(1..MaxBatches)
             /\ position[i].batch + Len(commands'[i]) = sent + 1
             /\ \A k \in DOMAIN commands'[i] : commands'[i][k] = position[i].batch + k
  <2>1. /\ position[i].batch + Len(commands[i]) = sent
        /\ \A k \in DOMAIN commands[i] : commands[i][k] = position[i].batch + k
    BY <1>9 DEF Channels
  <2>2. position[i].batch \in Nat /\ commands[i] \in Seq(1..MaxBatches)
        /\ Len(commands[i]) \in Nat
    BY <1>2
  <2>3. commands'[i] = Append(commands[i], position[i].batch + Len(commands[i]) + 1)
        /\ position[i].batch + Len(commands[i]) + 1 \in 1..MaxBatches
    BY <1>1, <1>2, <1>9, <2>1
  <2>4. /\ commands'[i] \in Seq(1..MaxBatches) /\ Len(commands'[i]) = Len(commands[i]) + 1
        /\ \A k \in DOMAIN commands'[i] : commands'[i][k] = position[i].batch + k
    <3> DEFINE q == commands[i]
    <3> DEFINE a == commands'[i]
    <3> DEFINE b == position[i].batch
    <3>1. /\ q \in Seq(1..MaxBatches) /\ b \in Nat /\ b + Len(q) + 1 \in 1..MaxBatches
          /\ \A k \in DOMAIN q : q[k] = b + k
          /\ a = Append(q, b + Len(q) + 1)
      BY <2>1, <2>2, <2>3
    <3> HIDE DEF q, a, b
    <3>2. a \in Seq(1..MaxBatches) /\ Len(a) = Len(q) + 1 /\ \A k \in DOMAIN a : a[k] = b + k
      BY <3>1, RunSent
    <3> QED BY <3>2 DEF q, a, b
  <2>5. position[i].batch + (Len(commands[i]) + 1) = sent + 1
    <3> DEFINE x == position[i].batch
    <3> DEFINE y == Len(commands[i])
    <3>1. x \in Nat /\ y \in Nat /\ sent \in Nat /\ x + y = sent
      BY <1>1, <2>1, <2>2
    <3> HIDE DEF x, y
    <3>2. x + (y + 1) = sent + 1
      BY <3>1
    <3> QED BY <3>2 DEF x, y
  <2> QED BY <2>4, <2>5
<1>3. RanksTypeOK'
  <2>1. \A i \in Ranks : commands'[i] \in Seq(1..MaxBatches)
    BY <1>2, <1>9
  <2> QED BY <1>1, <2>1 DEF RanksTypeOK, Send
<1>4. InStep'
  BY <1>1 DEF InStep, OneAhead, Done
<1>5. Channels'
  BY <1>1, <1>9 DEF Channels, Alive
<1>6. Phases'
  BY <1>1, <1>2 DEF Phases, Done
<1>7. Replies'
  <2> SUFFICES ASSUME ~Lost(0)
               PROVE  /\ reply' = "pending" /\ Len(commands'[0]) <= 1 /\ rank[0] # "forward"
    BY <1>1 DEF Replies, Lost
  <2>1. Alive(0) /\ commands[0] = <<>> /\ rank[0] # "forward"
    BY <1>1 DEF Replies, Alive, Lost
  <2>2. Len(commands[0]) = 0 /\ position[0].batch \in Nat /\ commands'[0] \in Seq(1..MaxBatches)
    BY <1>1, <1>2, <1>9, <2>1
  <2>3. position[0].batch + Len(commands[0]) = sent
    BY <1>1, <2>1 DEF Channels
  <2>4. position[0].batch + Len(commands'[0]) = sent + 1
    BY <1>1, <1>9, <2>1
  <2>5. Len(commands'[0]) = 1
    <3> DEFINE x == position[0].batch
    <3> DEFINE y == Len(commands'[0])
    <3>1. x \in Nat /\ y \in Nat /\ sent \in Nat /\ x + 0 = sent /\ x + y = sent + 1
      BY <1>1, <2>2, <2>3, <2>4
    <3> HIDE DEF x, y
    <3>2. y = 1
      BY <3>1
    <3> QED BY <3>2 DEF y
  <2>6. reply' = "pending"
    BY <2>1 DEF Send
  <2> QED BY <2>1, <2>5, <2>6
<1>8. Keeping'
  <2> SUFFICES ASSUME ~RankLost, NEW i \in Ranks
               PROVE  position[i].batch >= sent
    BY <1>1, <1>2 DEF Keeping, RankLost
  <2>1. ~Lost(0) /\ Alive(0) /\ commands[0] = <<>> /\ rank[0] # "forward"
    BY <1>1 DEF RankLost, Lost, Replies, Alive
  <2>2. position[0].batch = sent /\ Done(0)
    BY <1>1, <1>2, <2>1 DEF Channels, Phases, Lost
  <2>3. position[i] = position[0] \/ OneAhead(i, 0) \/ OneAhead(0, i)
    BY <1>1 DEF InStep
  <2>4. ~OneAhead(0, i)
    BY <1>1, <1>2, <2>2, RanksAssumption DEF OneAhead, Done
  <2> QED BY <1>1, <1>2, <2>2, <2>3, <2>4 DEF OneAhead
<1> QED BY <1>3, <1>4, <1>5, <1>6, <1>7, <1>8

(* The engine takes the answer, or the error, out of the reply channel. *)
LEMMA TakeReplyStep ==
    ASSUME RanksInv, reply \in {"outputs", "closed"}, reply' = "none",
           UNCHANGED <<rank, commands, position, config, sent>>
    PROVE  RanksInv'
<1> USE DEF RanksInv
<1>1. RanksTypeOK' /\ InStep' /\ Channels' /\ Phases' /\ Keeping'
  BY DEF RanksTypeOK, InStep, OneAhead, Done, Channels, Alive, Phases, Keeping, RankLost
<1>2. Replies'
  BY DEF Replies, Lost
<1> QED BY <1>1, <1>2

(* The dispatcher sends the configurations, or is dropped before. *)
LEMMA ConfigStep ==
    ASSUME RanksInv, config' \in {"sent", "closed"},
           UNCHANGED <<rank, commands, position, sent, reply>>
    PROVE  RanksInv'
<1> USE DEF RanksInv
<1>1. RanksTypeOK' /\ InStep' /\ Channels' /\ Phases' /\ Keeping'
  BY DEF RanksTypeOK, InStep, OneAhead, Done, Channels, Alive, Phases, Keeping, RankLost
<1>2. Replies'
  BY DEF Replies, Lost
<1> QED BY <1>1, <1>2

(* Every step of one thread, and every failure. *)
LEMMA RankStepInv ==
    ASSUME RanksInv, NEW i \in Ranks, NEW d, RankStep(i, d)
    PROVE  RanksInv'
<1>1. CASE Load(i)
  BY <1>1, MoveStep DEF Load, RankStates
<1>2. CASE ReceiveConfig(i)
  BY <1>2, MoveStep DEF ReceiveConfig, RankStates
<1>3. CASE ConfigClosed(i)
  BY <1>3, MoveStep DEF ConfigClosed, RankStates
<1>4. CASE ChannelClosed(i, d)
  BY <1>4, MoveStep DEF ChannelClosed, RankStates
<1> QED BY <1>1, <1>2, <1>3, <1>4, ReceiveStep, FinishBatchStep DEF RankStep

LEMMA RankFailsInv ==
    ASSUME RanksInv, NEW i \in Ranks, RankFails(i)
    PROVE  RanksInv'
<1>1. CASE LoadFails(i)
  BY <1>1, MoveStep DEF LoadFails, RankStates
<1> QED BY <1>1, WorkerFailsStep, ExecuteFailsStep DEF RankFails

=============================================================================
