-------------------------- MODULE SchedulerProofs --------------------------
(***************************************************************************)
(* Proofs about the Scheduler, for every set of requests, every capacity   *)
(* and every limit.  The inductive invariant is built in layers:           *)
(*   Types    what every variable holds, and that blocks add up;           *)
(*   Filed    each request is in the one list its status names, between    *)
(*            passes and in the middle of one;                             *)
(*   Tables   what a request's block table holds, by its status;           *)
(*   Paced    the order of the loops: who was preempted, which way blocks  *)
(*            move;                                                        *)
(*   Budget   the budget counts what the pass has scheduled;               *)
(*   Flow     the default policy computes whole prompts, then one token at *)
(*            a time, so that none of its checks fires;                    *)
(*   Arrival  first come, first served.                                    *)
(* Types, Filed, Paced and Budget hold under both policies; Flow and       *)
(* Arrival under the default one.  Tables needs one block table per        *)
(* request (DistinctIds).  The last section is about aborts.               *)
(***************************************************************************)
EXTENDS Scheduler, ListsProofs

-----------------------------------------------------------------------------
(* What a verdict says about the group at the front *)

LEMMA PrefillRun ==
    ASSUME In("prefills", "run")
    PROVE  \E r : /\ r = Head(pass.waiting) /\ pass.waiting # <<>>
                  /\ NumNewTokens(r, "Waiting") # 0 /\ status[r] = "Waiting"
                  /\ ~Chunked => GetNumTokens(r, "Waiting") = length[r]
                  /\ ~(GetNumTokens(r, "Waiting") > GetPromptLimit)
                  /\ LogicalBlocks(r) <= free_gpu
                  /\ GetNumTokens(r, "Waiting") # 0
                  /\ CanSchedule(GetNumTokens(r, "Waiting"), GetMaxNumRunningSeqs(r))
<1> DEFINE r == Head(pass.waiting)
<1>1. pass.waiting # <<>> /\ PrefillVerdict(r) = "run"
  BY DEF In, Verdict
<1> HIDE DEF r
<1>2. CanAllocate(r) = "Ok" \/ CanAllocate(r) = "Later" \/ CanAllocate(r) = "Never"
  BY DEF CanAllocate
<1>3. /\ NumNewTokens(r, "Waiting") # 0
      /\ ~Chunked => GetNumTokens(r, "Waiting") = length[r]
      /\ ~(GetNumTokens(r, "Waiting") > GetPromptLimit)
      /\ CanAllocate(r) = "Ok"
      /\ GetNumTokens(r, "Waiting") # 0
      /\ CanSchedule(GetNumTokens(r, "Waiting"), GetMaxNumRunningSeqs(r))
  BY <1>1, <1>2 DEF PrefillVerdict
<1>4. LogicalBlocks(r) <= free_gpu
  BY <1>3 DEF CanAllocate
<1>5. status[r] = "Waiting"
  BY <1>3 DEF NumNewTokens
<1> QED BY <1>1, <1>3, <1>4, <1>5 DEF r

LEMMA RunningRun ==
    ASSUME In("running", "run")
    PROVE  \E r : /\ r = Head(pass.running) /\ pass.running # <<>>
                  /\ NumNewTokens(r, "Running") # 0 /\ status[r] = "Running"
                  /\ GetNumTokens(r, "Running") # 0
                  /\ CanAppendSlots(r)
                  /\ AppendSlotsError(r, gpu_table[SequenceId[r]], free_gpu) = "none"
<1> DEFINE r == Head(pass.running)
<1>1. pass.running # <<>> /\ RunningVerdict(r) = "run"
  BY DEF In, Verdict
<1> HIDE DEF r
<1>2. /\ AppendSlotsError(r, gpu_table[SequenceId[r]], free_gpu) # "run"
      /\ PreemptError(Victim(pass.running)) # "run"
  BY DEF AppendSlotsError, PreemptError
<1>3. /\ NumNewTokens(r, "Running") # 0
      /\ GetNumTokens(r, "Running") # 0
      /\ CanAppendSlots(r)
      /\ AppendSlotsError(r, gpu_table[SequenceId[r]], free_gpu) = "none"
  BY <1>1, <1>2 DEF RunningVerdict
<1>4. status[r] = "Running"
  BY <1>3 DEF NumNewTokens
<1> QED BY <1>1, <1>3, <1>4 DEF r

LEMMA RunningPreempt ==
    ASSUME In("running", "preempt")
    PROVE  \E r, v : /\ r = Head(pass.running) /\ pass.running # <<>>
                     /\ v = Victim(pass.running)
                     /\ NumNewTokens(r, "Running") # 0 /\ status[r] = "Running"
                     /\ GetNumTokens(r, "Running") # 0
                     /\ PreemptError(v) = "none"
<1> DEFINE r == Head(pass.running)
           v == Victim(pass.running)
<1>1. pass.running # <<>> /\ RunningVerdict(r) = "preempt"
  BY DEF In, Verdict
<1>2. AppendSlotsError(r, gpu_table[SequenceId[r]], free_gpu) # "preempt"
  BY DEF AppendSlotsError
<1>3. PreemptError(v) # "preempt"
  BY DEF PreemptError
<1>4. /\ NumNewTokens(r, "Running") # 0
      /\ GetNumTokens(r, "Running") # 0
      /\ PreemptError(v) = "none"
  BY <1>1, <1>2, <1>3 DEF RunningVerdict
<1>5. status[r] = "Running"
  BY <1>4 DEF NumNewTokens
<1> QED BY <1>1, <1>4, <1>5

LEMMA SwappedRun ==
    ASSUME In("swapped", "run")
    PROVE  \E r : /\ r = Head(pass.swapped) /\ pass.swapped # <<>>
                  /\ TableLen(r) + 1 <= free_gpu
                  /\ NumNewTokens(r, "Swapped") # 0 /\ status[r] = "Swapped"
                  /\ GetNumTokens(r, "Swapped") # 0
                  /\ CanSchedule(GetNumTokens(r, "Swapped"), GetMaxNumRunningSeqs(r))
                  /\ AppendSlotsError(r, cpu_table[SequenceId[r]],
                                      free_gpu - cpu_table[SequenceId[r]]) = "none"
<1> DEFINE r == Head(pass.swapped)
<1>1. pass.swapped # <<>> /\ SwappedVerdict(r) = "run"
  BY DEF In, Verdict
<1> HIDE DEF r
<1>2. CanSwapIn(r) = "Ok" \/ CanSwapIn(r) = "Later" \/ CanSwapIn(r) = "Never"
  BY DEF CanSwapIn
<1>3. /\ CanSwapIn(r) = "Ok"
      /\ NumNewTokens(r, "Swapped") # 0
      /\ GetNumTokens(r, "Swapped") # 0
      /\ CanSchedule(GetNumTokens(r, "Swapped"), GetMaxNumRunningSeqs(r))
      /\ AppendSlotsError(r, cpu_table[SequenceId[r]],
                          free_gpu - cpu_table[SequenceId[r]]) = "none"
  BY <1>1, <1>2 DEF SwappedVerdict, AppendSlotsError
<1>4. TableLen(r) + 1 <= free_gpu
  BY <1>3 DEF CanSwapIn
<1>5. status[r] = "Swapped"
  BY <1>3 DEF NumNewTokens
<1> QED BY <1>1, <1>3, <1>4, <1>5 DEF r

-----------------------------------------------------------------------------
(* The locals of a pass *)

PassType ==
    [waiting : Seq(Requests), running : Seq(Requests), swapped : Seq(Requests),
     prefills : Seq(Scheduled), ignored : Seq(Requests),
     run_decodes : Seq(Scheduled), run_prefills : Seq(Scheduled),
     preempted : Seq(Requests), swapped_out : Seq(Requests),
     in_decodes : Seq(Scheduled), in_prefills : Seq(Scheduled), infeasible : Seq(Requests),
     blocks_in : Nat, blocks_out : Nat,
     tokens : Int, token_ids : SUBSET Requests, num_seqs : Int, seq_ids : SUBSET Requests]

(* p and q differ in nothing but the queues, the lists ... *)
SameQueues(p, q) == p.waiting = q.waiting /\ p.running = q.running /\ p.swapped = q.swapped

SameChosen(p, q) ==
    /\ p.prefills = q.prefills
    /\ p.run_decodes = q.run_decodes /\ p.run_prefills = q.run_prefills
    /\ p.in_decodes = q.in_decodes /\ p.in_prefills = q.in_prefills

SameDropped(p, q) ==
    /\ p.ignored = q.ignored /\ p.infeasible = q.infeasible
    /\ p.preempted = q.preempted /\ p.swapped_out = q.swapped_out

SameTransfers(p, q) == p.blocks_in = q.blocks_in /\ p.blocks_out = q.blocks_out

SameLists(p, q) == SameQueues(p, q) /\ SameChosen(p, q) /\ SameDropped(p, q) /\ SameTransfers(p, q)

SameTokens(p, q) == p.tokens = q.tokens /\ p.token_ids = q.token_ids

SameSeqs(p, q) == p.num_seqs = q.num_seqs /\ p.seq_ids = q.seq_ids

(* q is p with request r charged for n tokens, for m sequences *)
TokensCharged(q, p, r, n) ==
    /\ q.token_ids = p.token_ids \cup {r}
    /\ q.tokens = IF r \in p.token_ids THEN p.tokens ELSE p.tokens + n

SeqsCharged(q, p, r, m) ==
    /\ q.seq_ids = p.seq_ids \cup {r}
    /\ q.num_seqs = IF r \in p.seq_ids THEN p.num_seqs ELSE p.num_seqs + m

LEMMA EmptyPassType == EmptyPass \in PassType
<1>1. <<>> \in Seq(Requests) /\ <<>> \in Seq(Scheduled) /\ {} \in SUBSET Requests
  OBVIOUS
<1> QED BY <1>1 DEF EmptyPass, PassType

LEMMA Charge ==
    ASSUME NEW p \in PassType, NEW r \in Requests, NEW n \in Int,
           GetMaxNumRunningSeqs(r) \in Int
    PROVE  /\ ChargeTokens(p, r, n) \in PassType
           /\ SameLists(ChargeTokens(p, r, n), p)
           /\ TokensCharged(ChargeTokens(p, r, n), p, r, n)
           /\ SameSeqs(ChargeTokens(p, r, n), p)
           /\ ChargeSeqs(p, r) \in PassType
           /\ SameLists(ChargeSeqs(p, r), p)
           /\ SeqsCharged(ChargeSeqs(p, r), p, r, GetMaxNumRunningSeqs(r))
           /\ SameTokens(ChargeSeqs(p, r), p)
<1> DEFINE t == ChargeTokens(p, r, n)
           q == ChargeSeqs(p, r)
<1>1. t \in PassType
  <2>0. p.tokens \in Int /\ p.token_ids \in SUBSET Requests
    BY DEF PassType
  <2>1. p.tokens + n \in Int /\ p.token_ids \cup {r} \in SUBSET Requests
    BY <2>0
  <2>2. [p EXCEPT !.tokens = p.tokens + n, !.token_ids = p.token_ids \cup {r}] \in PassType
    BY <2>1 DEF PassType
  <2> QED BY <2>2 DEF ChargeTokens
<1>2. SameLists(t, p) /\ SameSeqs(t, p)
  BY DEF ChargeTokens, PassType, SameLists, SameQueues, SameChosen, SameDropped, SameTransfers, SameSeqs
<1>3. TokensCharged(t, p, r, n)
  BY DEF ChargeTokens, PassType, TokensCharged
<1>4. q \in PassType
  <2>0. p.num_seqs \in Int /\ p.seq_ids \in SUBSET Requests
    BY DEF PassType
  <2>1. p.num_seqs + GetMaxNumRunningSeqs(r) \in Int /\ p.seq_ids \cup {r} \in SUBSET Requests
    BY <2>0
  <2>2. [p EXCEPT !.num_seqs = p.num_seqs + GetMaxNumRunningSeqs(r),
                  !.seq_ids = p.seq_ids \cup {r}] \in PassType
    BY <2>1 DEF PassType
  <2> QED BY <2>2 DEF ChargeSeqs
<1>5. SameLists(q, p) /\ SameTokens(q, p)
  BY DEF ChargeSeqs, PassType, SameLists, SameQueues, SameChosen, SameDropped, SameTransfers, SameTokens
<1>6. SeqsCharged(q, p, r, GetMaxNumRunningSeqs(r))
  BY DEF ChargeSeqs, PassType, SeqsCharged
<1> QED BY <1>1, <1>2, <1>3, <1>4, <1>5, <1>6

Refunded(q, p, r, n) ==
    /\ q \in PassType
    /\ SameLists(q, p)
    /\ q.token_ids = p.token_ids \ {r}
    /\ q.tokens = IF r \in p.token_ids THEN p.tokens - n ELSE p.tokens
    /\ q.seq_ids = p.seq_ids \ {r}
    /\ q.num_seqs = IF r \in p.seq_ids THEN p.num_seqs - GetMaxNumRunningSeqs(r) ELSE p.num_seqs

LEMMA Refund ==
    ASSUME NEW p \in PassType, NEW r \in Requests, NEW n \in Int,
           GetMaxNumRunningSeqs(r) \in Int
    PROVE  Refunded(RefundSeqs(RefundTokens(p, r, n), r), p, r, n)
<1> DEFINE t == RefundTokens(p, r, n)
<1>1. t \in PassType
  <2>0. p.tokens \in Int /\ p.token_ids \in SUBSET Requests
    BY DEF PassType
  <2>1. p.tokens - n \in Int /\ p.token_ids \ {r} \in SUBSET Requests
    BY <2>0
  <2>2. [p EXCEPT !.tokens = p.tokens - n, !.token_ids = p.token_ids \ {r}] \in PassType
    BY <2>1 DEF PassType
  <2> QED BY <2>2 DEF RefundTokens
<1>2. SameLists(t, p) /\ SameSeqs(t, p)
  BY DEF RefundTokens, PassType, SameLists, SameQueues, SameChosen, SameDropped, SameTransfers, SameSeqs
<1>3. /\ t.token_ids = p.token_ids \ {r}
      /\ t.tokens = IF r \in p.token_ids THEN p.tokens - n ELSE p.tokens
  BY DEF RefundTokens, PassType
<1> HIDE DEF t
<1> DEFINE q == RefundSeqs(t, r)
<1>4. q \in PassType
  <2>0. t.num_seqs \in Int /\ t.seq_ids \in SUBSET Requests
    BY <1>1 DEF PassType
  <2>1. t.num_seqs - GetMaxNumRunningSeqs(r) \in Int /\ t.seq_ids \ {r} \in SUBSET Requests
    BY <2>0
  <2>2. [t EXCEPT !.num_seqs = t.num_seqs - GetMaxNumRunningSeqs(r),
                  !.seq_ids = t.seq_ids \ {r}] \in PassType
    BY <1>1, <2>1 DEF PassType
  <2> QED BY <1>1, <2>2 DEF RefundSeqs
<1>5. SameLists(q, t) /\ SameTokens(q, t)
  BY <1>1 DEF RefundSeqs, PassType, SameLists, SameQueues, SameChosen, SameDropped, SameTransfers, SameTokens
<1>6. /\ q.seq_ids = t.seq_ids \ {r}
      /\ q.num_seqs = IF r \in t.seq_ids THEN t.num_seqs - GetMaxNumRunningSeqs(r) ELSE t.num_seqs
  BY <1>1 DEF RefundSeqs, PassType
<1> HIDE DEF q
<1>7. SameLists(q, p)
  BY <1>2, <1>5 DEF SameLists, SameQueues, SameChosen, SameDropped, SameTransfers
<1>8. /\ q.token_ids = p.token_ids \ {r}
      /\ q.tokens = IF r \in p.token_ids THEN p.tokens - n ELSE p.tokens
      /\ q.seq_ids = p.seq_ids \ {r}
      /\ q.num_seqs = IF r \in p.seq_ids THEN p.num_seqs - GetMaxNumRunningSeqs(r) ELSE p.num_seqs
  BY <1>2, <1>3, <1>5, <1>6 DEF SameSeqs, SameTokens
<1> QED BY <1>4, <1>7, <1>8 DEF Refunded, q, t

-----------------------------------------------------------------------------
(* Sequences have their types, no more computed tokens than tokens, and none
   before they arrive *)
SeqTypes ==
    /\ status \in [Requests -> Statuses]
    /\ prompt_len \in [Requests -> Nat]
    /\ length \in [Requests -> Nat]
    /\ computed \in [Requests -> Nat]
    /\ stage \in [Requests -> {"Prefill", "Decode"}]
    /\ \A r \in Requests : computed[r] <= length[r]
    /\ \A r \in Requests : status[r] = "Unborn" => computed[r] = 0 /\ stage[r] = "Prefill"

PassTypes == pass \in PassType /\ (Chunked => pass.tokens <= MaxBatchedTokens)

LEMMA MinOfTwo ==
    ASSUME NEW a \in Int, NEW b \in Int
    PROVE  Min({a, b}) = IF a <= b THEN a ELSE b
<1>1. CASE a <= b
  <2>1. a \in {a, b} /\ \A y \in {a, b} : a <= y
    BY <1>1
  <2>2. \A x \in {a, b} : (\A y \in {a, b} : x <= y) => x = a
    BY <1>1
  <2> QED BY <1>1, <2>1, <2>2 DEF Min
<1>2. CASE ~(a <= b)
  <2>1. b \in {a, b} /\ \A y \in {a, b} : b <= y
    BY <1>2
  <2>2. \A x \in {a, b} : (\A y \in {a, b} : x <= y) => x = b
    BY <1>2
  <2> QED BY <1>2, <2>1, <2>2 DEF Min
<1> QED BY <1>1, <1>2

LEMMA NumTokensType ==
    ASSUME SeqTypes, PassTypes, NEW r \in Requests, NEW st
    PROVE  /\ NumNewTokens(r, st) \in Nat
           /\ GetNumTokens(r, st) \in Nat
           /\ Chunked => pass.tokens + GetNumTokens(r, st) <= MaxBatchedTokens
           /\ GetMaxNumRunningSeqs(r) \in Nat
           /\ status[r] \in Live => GetMaxNumRunningSeqs(r) = BestOf[r]
<1>1. NumNewTokens(r, st) \in Nat
  BY DEF NumNewTokens, SeqTypes
<1>2. CASE Chunked
  <2>1. pass.tokens \in Int /\ MaxBatchedTokens \in Nat /\ pass.tokens <= MaxBatchedTokens
    BY <1>2, ConfigAssumption DEF PassTypes, PassType
  <2> DEFINE n == NumNewTokens(r, st)
             m == MaxBatchedTokens - pass.tokens
  <2>2. GetNumTokens(r, st) = IF n <= m THEN n ELSE m
    BY <1>1, <1>2, <2>1, MinOfTwo DEF GetNumTokens
  <2> QED BY <1>1, <1>2, <2>1, <2>2, RequestsAssumption DEF GetMaxNumRunningSeqs
<1>3. CASE ~Chunked
  BY <1>1, <1>3, RequestsAssumption DEF GetNumTokens, GetMaxNumRunningSeqs
<1> QED BY <1>2, <1>3, CapacityAssumption

LEMMA EntryType ==
    ASSUME SeqTypes, NEW r \in Requests, NEW n \in Nat
    PROVE  /\ Entry(r, n) \in Scheduled
           /\ Entry(r, n).id = r /\ Entry(r, n).chunk = n
           /\ Entry(r, n).do_sample <=> stage[r] = "Decode" \/ n + computed[r] >= length[r]
<1>1. Entry(r, n).id = r /\ Entry(r, n).chunk = n
  BY DEF Entry
<1>2. Entry(r, n).do_sample <=> stage[r] = "Decode" \/ n + computed[r] >= length[r]
  BY DEF Entry
<1>3. (stage[r] = "Decode" \/ n + computed[r] >= length[r]) \in BOOLEAN
  OBVIOUS
<1>4. Entry(r, n) \in Scheduled
  BY <1>3 DEF Entry, Scheduled
<1> QED BY <1>1, <1>2, <1>4

-----------------------------------------------------------------------------
(* What the steps of a pass do to its locals *)

LEMMA PrefillIgnoredEffect ==
    ASSUME SeqTypes, PassTypes, PrefillIgnored
    PROVE  \E r \in Requests :
             /\ r = Head(pass.waiting) /\ pass.waiting # <<>> /\ status[r] = "Waiting"
             /\ status' = [status EXCEPT ![r] = "FinishedIgnored"]
             /\ pass' \in PassType
             /\ pass'.waiting = Tail(pass.waiting)
             /\ pass'.running = pass.running /\ pass'.swapped = pass.swapped
             /\ pass'.ignored = Append(pass.ignored, r) /\ pass'.infeasible = pass.infeasible
             /\ pass'.preempted = pass.preempted /\ pass'.swapped_out = pass.swapped_out
             /\ SameChosen(pass', pass) /\ SameTransfers(pass', pass)
             /\ SameTokens(pass', pass) /\ SameSeqs(pass', pass)
<1>1. PICK r : r = Head(pass.waiting)
  OBVIOUS
<1>2. pass.waiting # <<>> /\ PrefillVerdict(r) = "ignore"
  BY <1>1 DEF PrefillIgnored, In, Verdict
<1>3. NumNewTokens(r, "Waiting") # 0
  BY <1>2 DEF PrefillVerdict
<1>4. status[r] = "Waiting"
  BY <1>3 DEF NumNewTokens
<1>5. pass \in PassType /\ pass.waiting \in Seq(Requests) /\ pass.ignored \in Seq(Requests)
  BY DEF PassTypes, PassType
<1>6. r \in Requests /\ Tail(pass.waiting) \in Seq(Requests) /\ Append(pass.ignored, r) \in Seq(Requests)
  BY <1>1, <1>2, <1>5, HeadTail, AppendList
<1>7. /\ status' = [status EXCEPT ![r] = "FinishedIgnored"]
      /\ pass' = [pass EXCEPT !.waiting = Tail(pass.waiting), !.ignored = Append(pass.ignored, r)]
  BY <1>1, <1>5 DEF PrefillIgnored
<1>8. pass' \in PassType
  BY <1>5, <1>6, <1>7 DEF PassType
<1>9. /\ pass'.waiting = Tail(pass.waiting)
      /\ pass'.running = pass.running /\ pass'.swapped = pass.swapped
      /\ pass'.ignored = Append(pass.ignored, r) /\ pass'.infeasible = pass.infeasible
      /\ pass'.preempted = pass.preempted /\ pass'.swapped_out = pass.swapped_out
      /\ SameChosen(pass', pass) /\ SameTransfers(pass', pass)
      /\ SameTokens(pass', pass) /\ SameSeqs(pass', pass)
  BY <1>5, <1>7 DEF PassType, SameChosen, SameTransfers, SameTokens, SameSeqs
<1> QED BY <1>1, <1>2, <1>4, <1>6, <1>7, <1>8, <1>9

LEMMA SwappedIgnoredEffect ==
    ASSUME SeqTypes, PassTypes, SwappedIgnored
    PROVE  \E r \in Requests :
             /\ r = Head(pass.swapped) /\ pass.swapped # <<>>
             /\ status' = [status EXCEPT ![r] = "FinishedIgnored"]
             /\ pass' \in PassType
             /\ pass'.swapped = Tail(pass.swapped)
             /\ pass'.waiting = pass.waiting /\ pass'.running = pass.running
             /\ pass'.infeasible = Append(pass.infeasible, r) /\ pass'.ignored = pass.ignored
             /\ pass'.preempted = pass.preempted /\ pass'.swapped_out = pass.swapped_out
             /\ SameChosen(pass', pass) /\ SameTransfers(pass', pass)
             /\ SameTokens(pass', pass) /\ SameSeqs(pass', pass)
<1>1. PICK r : r = Head(pass.swapped)
  OBVIOUS
<1>2. pass.swapped # <<>>
  BY DEF SwappedIgnored, In, Verdict
<1>5. pass \in PassType /\ pass.swapped \in Seq(Requests) /\ pass.infeasible \in Seq(Requests)
  BY DEF PassTypes, PassType
<1>6. r \in Requests /\ Tail(pass.swapped) \in Seq(Requests) /\ Append(pass.infeasible, r) \in Seq(Requests)
  BY <1>1, <1>2, <1>5, HeadTail, AppendList
<1>7. /\ status' = [status EXCEPT ![r] = "FinishedIgnored"]
      /\ pass' = [pass EXCEPT !.swapped = Tail(pass.swapped), !.infeasible = Append(pass.infeasible, r)]
  BY <1>1, <1>5 DEF SwappedIgnored
<1>8. pass' \in PassType
  BY <1>5, <1>6, <1>7 DEF PassType
<1>9. /\ pass'.swapped = Tail(pass.swapped)
      /\ pass'.waiting = pass.waiting /\ pass'.running = pass.running
      /\ pass'.infeasible = Append(pass.infeasible, r) /\ pass'.ignored = pass.ignored
      /\ pass'.preempted = pass.preempted /\ pass'.swapped_out = pass.swapped_out
      /\ SameChosen(pass', pass) /\ SameTransfers(pass', pass)
      /\ SameTokens(pass', pass) /\ SameSeqs(pass', pass)
  BY <1>5, <1>7 DEF PassType, SameChosen, SameTransfers, SameTokens, SameSeqs
<1> QED BY <1>1, <1>2, <1>6, <1>7, <1>8, <1>9

LEMMA PrefillScheduledEffect ==
    ASSUME SeqTypes, PassTypes, PrefillScheduled
    PROVE  \E r \in Requests, n \in Nat :
             /\ r = Head(pass.waiting) /\ n = GetNumTokens(r, "Waiting")
             /\ Allocate(r)
             /\ status' = [status EXCEPT ![r] = "Running"]
             /\ pass' \in PassType
             /\ pass'.waiting = Tail(pass.waiting)
             /\ pass'.running = pass.running /\ pass'.swapped = pass.swapped
             /\ pass'.prefills = Append(pass.prefills, Entry(r, n))
             /\ pass'.run_decodes = pass.run_decodes /\ pass'.run_prefills = pass.run_prefills
             /\ pass'.in_decodes = pass.in_decodes /\ pass'.in_prefills = pass.in_prefills
             /\ SameDropped(pass', pass) /\ SameTransfers(pass', pass)
             /\ TokensCharged(pass', pass, r, n)
             /\ SeqsCharged(pass', pass, r, GetMaxNumRunningSeqs(r))
<1>1. PICK r : /\ r = Head(pass.waiting) /\ pass.waiting # <<>>
  BY PrefillRun DEF PrefillScheduled
<1>2. PICK n : n = GetNumTokens(r, "Waiting")
  OBVIOUS
<1>3. pass \in PassType /\ pass.waiting \in Seq(Requests) /\ pass.prefills \in Seq(Scheduled)
  BY DEF PassTypes, PassType
<1>4. r \in Requests /\ Tail(pass.waiting) \in Seq(Requests)
  BY <1>1, <1>3, HeadTail
<1>5. n \in Nat /\ GetMaxNumRunningSeqs(r) \in Nat
  BY <1>2, <1>4, NumTokensType
<1>6. Append(pass.prefills, Entry(r, n)) \in Seq(Scheduled)
  BY <1>3, <1>4, <1>5, EntryType, AppendList
<1> DEFINE p == [pass EXCEPT !.waiting = Tail(pass.waiting), !.prefills = Append(pass.prefills, Entry(r, n))]
           q == ChargeTokens(p, r, n)
<1>7. /\ Allocate(r) /\ status' = [status EXCEPT ![r] = "Running"]
      /\ pass' = ChargeSeqs(q, r)
  BY <1>1, <1>2, <1>3 DEF PrefillScheduled
<1>8. p \in PassType
  BY <1>3, <1>4, <1>6 DEF PassType
<1>9. /\ p.waiting = Tail(pass.waiting)
      /\ p.running = pass.running /\ p.swapped = pass.swapped
      /\ p.prefills = Append(pass.prefills, Entry(r, n))
      /\ p.run_decodes = pass.run_decodes /\ p.run_prefills = pass.run_prefills
      /\ p.in_decodes = pass.in_decodes /\ p.in_prefills = pass.in_prefills
      /\ SameDropped(p, pass) /\ SameTransfers(p, pass) /\ SameTokens(p, pass) /\ SameSeqs(p, pass)
  BY <1>3 DEF PassType, SameDropped, SameTransfers, SameTokens, SameSeqs
<1> HIDE DEF p
<1>10. q \in PassType /\ SameLists(q, p) /\ TokensCharged(q, p, r, n) /\ SameSeqs(q, p)
  BY <1>4, <1>5, <1>8, Charge
<1> HIDE DEF q
<1>11. /\ pass' \in PassType /\ SameLists(pass', q) /\ SameTokens(pass', q)
       /\ SeqsCharged(pass', q, r, GetMaxNumRunningSeqs(r))
  BY <1>4, <1>5, <1>7, <1>10, Charge
<1>12. /\ pass'.waiting = Tail(pass.waiting)
       /\ pass'.running = pass.running /\ pass'.swapped = pass.swapped
       /\ pass'.prefills = Append(pass.prefills, Entry(r, n))
       /\ pass'.run_decodes = pass.run_decodes /\ pass'.run_prefills = pass.run_prefills
       /\ pass'.in_decodes = pass.in_decodes /\ pass'.in_prefills = pass.in_prefills
       /\ SameDropped(pass', pass) /\ SameTransfers(pass', pass)
  BY <1>9, <1>10, <1>11 DEF SameLists, SameQueues, SameChosen, SameDropped, SameTransfers
<1>13. TokensCharged(pass', pass, r, n) /\ SeqsCharged(pass', pass, r, GetMaxNumRunningSeqs(r))
  BY <1>9, <1>10, <1>11 DEF TokensCharged, SeqsCharged, SameTokens, SameSeqs
<1> QED BY <1>1, <1>2, <1>4, <1>5, <1>7, <1>11, <1>12, <1>13

LEMMA RunningScheduledEffect ==
    ASSUME SeqTypes, PassTypes, RunningScheduled
    PROVE  \E r \in Requests, n \in Nat :
             /\ r = Head(pass.running) /\ n = GetNumTokens(r, "Running")
             /\ AppendSlots(r)
             /\ pass' \in PassType
             /\ pass'.running = Tail(pass.running)
             /\ pass'.waiting = pass.waiting /\ pass'.swapped = pass.swapped
             /\ pass'.prefills = pass.prefills
             /\ stage[r] = "Prefill" => /\ pass'.run_prefills = Append(pass.run_prefills, Entry(r, n))
                                        /\ pass'.run_decodes = pass.run_decodes
             /\ stage[r] # "Prefill" => /\ pass'.run_decodes = Append(pass.run_decodes, Entry(r, 1))
                                        /\ pass'.run_prefills = pass.run_prefills
             /\ pass'.in_decodes = pass.in_decodes /\ pass'.in_prefills = pass.in_prefills
             /\ SameDropped(pass', pass) /\ SameTransfers(pass', pass)
             /\ TokensCharged(pass', pass, r, n)
             /\ IF Chunked THEN SeqsCharged(pass', pass, r, GetMaxNumRunningSeqs(r))
                ELSE SameSeqs(pass', pass)
<1>1. PICK r : /\ r = Head(pass.running) /\ pass.running # <<>>
  BY RunningRun DEF RunningScheduled
<1>2. PICK n : n = GetNumTokens(r, "Running")
  OBVIOUS
<1>3. /\ pass \in PassType /\ pass.running \in Seq(Requests)
      /\ pass.run_prefills \in Seq(Scheduled) /\ pass.run_decodes \in Seq(Scheduled)
  BY DEF PassTypes, PassType
<1>4. r \in Requests /\ Tail(pass.running) \in Seq(Requests)
  BY <1>1, <1>3, HeadTail
<1>5. n \in Nat /\ GetMaxNumRunningSeqs(r) \in Nat
  BY <1>2, <1>4, NumTokensType
<1>6. /\ Append(pass.run_prefills, Entry(r, n)) \in Seq(Scheduled)
      /\ Append(pass.run_decodes, Entry(r, 1)) \in Seq(Scheduled)
  BY <1>3, <1>4, <1>5, EntryType, AppendList
<1> DEFINE rest == [pass EXCEPT !.running = Tail(pass.running)]
           p == IF stage[r] = "Prefill"
                THEN [rest EXCEPT !.run_prefills = Append(rest.run_prefills, Entry(r, n))]
                ELSE [rest EXCEPT !.run_decodes = Append(rest.run_decodes, Entry(r, 1))]
           q == ChargeTokens(p, r, n)
<1>7. AppendSlots(r) /\ pass' = IF Chunked THEN ChargeSeqs(q, r) ELSE q
  BY <1>1, <1>2 DEF RunningScheduled
<1>8. rest \in PassType
  BY <1>3, <1>4 DEF PassType
<1>9. /\ rest.running = Tail(pass.running)
      /\ rest.waiting = pass.waiting /\ rest.swapped = pass.swapped
      /\ SameChosen(rest, pass) /\ SameDropped(rest, pass) /\ SameTransfers(rest, pass)
      /\ SameTokens(rest, pass) /\ SameSeqs(rest, pass)
  BY <1>3 DEF PassType, SameDropped, SameChosen, SameTransfers, SameTokens, SameSeqs
<1> HIDE DEF rest
<1>10. p \in PassType
  <2>1. /\ Append(rest.run_prefills, Entry(r, n)) \in Seq(Scheduled)
        /\ Append(rest.run_decodes, Entry(r, 1)) \in Seq(Scheduled)
    BY <1>6, <1>9 DEF SameChosen
  <2>2. CASE stage[r] = "Prefill"
    BY <1>8, <2>1, <2>2 DEF PassType
  <2>3. CASE stage[r] # "Prefill"
    BY <1>8, <2>1, <2>3 DEF PassType
  <2> QED BY <2>2, <2>3
<1>11. /\ SameQueues(p, rest) /\ p.prefills = rest.prefills
       /\ stage[r] = "Prefill" => /\ p.run_prefills = Append(rest.run_prefills, Entry(r, n))
                                  /\ p.run_decodes = rest.run_decodes
       /\ stage[r] # "Prefill" => /\ p.run_decodes = Append(rest.run_decodes, Entry(r, 1))
                                  /\ p.run_prefills = rest.run_prefills
       /\ p.in_decodes = rest.in_decodes /\ p.in_prefills = rest.in_prefills
       /\ SameDropped(p, rest) /\ SameTransfers(p, rest) /\ SameTokens(p, rest) /\ SameSeqs(p, rest)
  <2>2. CASE stage[r] = "Prefill"
    BY <1>8, <2>2 DEF PassType, SameQueues, SameDropped, SameTransfers, SameTokens, SameSeqs
  <2>3. CASE stage[r] # "Prefill"
    BY <1>8, <2>3 DEF PassType, SameQueues, SameDropped, SameTransfers, SameTokens, SameSeqs
  <2> QED BY <2>2, <2>3
<1> HIDE DEF p
<1>12. q \in PassType /\ SameLists(q, p) /\ TokensCharged(q, p, r, n) /\ SameSeqs(q, p)
  BY <1>4, <1>5, <1>10, Charge
<1> HIDE DEF q
<1>13. /\ pass' \in PassType /\ SameLists(pass', q) /\ SameTokens(pass', q)
       /\ IF Chunked THEN SeqsCharged(pass', q, r, GetMaxNumRunningSeqs(r)) ELSE SameSeqs(pass', q)
  <2>1. CASE Chunked
    BY <2>1, <1>4, <1>5, <1>7, <1>12, Charge
  <2>2. CASE ~Chunked
    BY <2>2, <1>7, <1>12 DEF SameLists, SameQueues, SameChosen, SameDropped, SameTransfers,
                              SameTokens, SameSeqs
  <2> QED BY <2>1, <2>2
<1>14. /\ pass'.running = Tail(pass.running)
       /\ pass'.waiting = pass.waiting /\ pass'.swapped = pass.swapped
       /\ pass'.prefills = pass.prefills
       /\ pass'.in_decodes = pass.in_decodes /\ pass'.in_prefills = pass.in_prefills
       /\ SameDropped(pass', pass) /\ SameTransfers(pass', pass)
  BY <1>9, <1>11, <1>12, <1>13 DEF SameLists, SameQueues, SameChosen, SameDropped, SameTransfers
<1>15. /\ stage[r] = "Prefill" => /\ pass'.run_prefills = Append(pass.run_prefills, Entry(r, n))
                                  /\ pass'.run_decodes = pass.run_decodes
       /\ stage[r] # "Prefill" => /\ pass'.run_decodes = Append(pass.run_decodes, Entry(r, 1))
                                  /\ pass'.run_prefills = pass.run_prefills
  BY <1>9, <1>11, <1>12, <1>13 DEF SameLists, SameChosen
<1>16. TokensCharged(pass', pass, r, n)
  BY <1>9, <1>11, <1>12, <1>13 DEF TokensCharged, SameTokens
<1>17. IF Chunked THEN SeqsCharged(pass', pass, r, GetMaxNumRunningSeqs(r)) ELSE SameSeqs(pass', pass)
  BY <1>9, <1>11, <1>12, <1>13 DEF SeqsCharged, SameSeqs
<1> QED BY <1>1, <1>2, <1>4, <1>5, <1>7, <1>13, <1>14, <1>15, <1>16, <1>17

LEMMA SwappedScheduledEffect ==
    ASSUME SeqTypes, PassTypes, SwappedScheduled, cpu_table[SequenceId[Head(pass.swapped)]] \in Nat
    PROVE  \E r \in Requests, n \in Nat :
             /\ r = Head(pass.swapped) /\ n = GetNumTokens(r, "Swapped")
             /\ SwapInAndAppend(r)
             /\ status' = [status EXCEPT ![r] = "Running"]
             /\ pass' \in PassType
             /\ pass'.swapped = Tail(pass.swapped)
             /\ pass'.waiting = pass.waiting /\ pass'.running = pass.running
             /\ pass'.prefills = pass.prefills
             /\ pass'.run_decodes = pass.run_decodes /\ pass'.run_prefills = pass.run_prefills
             /\ stage[r] = "Prefill" => /\ pass'.in_prefills = Append(pass.in_prefills, Entry(r, n))
                                        /\ pass'.in_decodes = pass.in_decodes
             /\ stage[r] # "Prefill" => /\ pass'.in_decodes = Append(pass.in_decodes, Entry(r, 1))
                                        /\ pass'.in_prefills = pass.in_prefills
             /\ SameDropped(pass', pass)
             /\ pass'.blocks_in = pass.blocks_in + cpu_table[SequenceId[r]]
             /\ pass'.blocks_out = pass.blocks_out
             /\ TokensCharged(pass', pass, r, n)
             /\ SeqsCharged(pass', pass, r, GetMaxNumRunningSeqs(r))
<1>1. PICK r : /\ r = Head(pass.swapped) /\ pass.swapped # <<>>
  BY SwappedRun DEF SwappedScheduled
<1>2. PICK n : n = GetNumTokens(r, "Swapped")
  OBVIOUS
<1>2a. PICK c : c = cpu_table[SequenceId[r]] /\ c \in Nat
  BY <1>1
<1>3. /\ pass \in PassType /\ pass.swapped \in Seq(Requests)
      /\ pass.in_prefills \in Seq(Scheduled) /\ pass.in_decodes \in Seq(Scheduled)
      /\ pass.blocks_in \in Nat
  BY DEF PassTypes, PassType
<1>3a. pass.blocks_in + c \in Nat
  BY <1>2a, <1>3
<1>4. r \in Requests /\ Tail(pass.swapped) \in Seq(Requests)
  BY <1>1, <1>3, HeadTail
<1>5. n \in Nat /\ GetMaxNumRunningSeqs(r) \in Nat
  BY <1>2, <1>4, NumTokensType
<1>6. /\ Append(pass.in_prefills, Entry(r, n)) \in Seq(Scheduled)
      /\ Append(pass.in_decodes, Entry(r, 1)) \in Seq(Scheduled)
  BY <1>3, <1>4, <1>5, EntryType, AppendList
<1> DEFINE rest == [pass EXCEPT !.swapped = Tail(pass.swapped), !.blocks_in = pass.blocks_in + c]
           p == IF stage[r] = "Prefill"
                THEN [rest EXCEPT !.in_prefills = Append(rest.in_prefills, Entry(r, n))]
                ELSE [rest EXCEPT !.in_decodes = Append(rest.in_decodes, Entry(r, 1))]
           q == ChargeTokens(p, r, n)
<1>7. /\ SwapInAndAppend(r) /\ status' = [status EXCEPT ![r] = "Running"]
      /\ pass' = ChargeSeqs(q, r)
  BY <1>1, <1>2, <1>2a DEF SwappedScheduled
<1>8. rest \in PassType
  BY <1>3, <1>3a, <1>4 DEF PassType
<1>9. /\ rest.swapped = Tail(pass.swapped)
      /\ rest.waiting = pass.waiting /\ rest.running = pass.running
      /\ SameChosen(rest, pass) /\ SameDropped(rest, pass)
      /\ rest.blocks_in = pass.blocks_in + c /\ rest.blocks_out = pass.blocks_out
      /\ SameTokens(rest, pass) /\ SameSeqs(rest, pass)
  BY <1>3 DEF PassType, SameDropped, SameChosen, SameTokens, SameSeqs
<1> HIDE DEF rest
<1>10. p \in PassType
  <2>1. /\ Append(rest.in_prefills, Entry(r, n)) \in Seq(Scheduled)
        /\ Append(rest.in_decodes, Entry(r, 1)) \in Seq(Scheduled)
    BY <1>6, <1>9 DEF SameChosen
  <2>2. CASE stage[r] = "Prefill"
    BY <1>8, <2>1, <2>2 DEF PassType
  <2>3. CASE stage[r] # "Prefill"
    BY <1>8, <2>1, <2>3 DEF PassType
  <2> QED BY <2>2, <2>3
<1>11. /\ SameQueues(p, rest) /\ p.prefills = rest.prefills
       /\ p.run_decodes = rest.run_decodes /\ p.run_prefills = rest.run_prefills
       /\ stage[r] = "Prefill" => /\ p.in_prefills = Append(rest.in_prefills, Entry(r, n))
                                  /\ p.in_decodes = rest.in_decodes
       /\ stage[r] # "Prefill" => /\ p.in_decodes = Append(rest.in_decodes, Entry(r, 1))
                                  /\ p.in_prefills = rest.in_prefills
       /\ SameDropped(p, rest) /\ SameTransfers(p, rest) /\ SameTokens(p, rest) /\ SameSeqs(p, rest)
  <2>2. CASE stage[r] = "Prefill"
    BY <1>8, <2>2 DEF PassType, SameQueues, SameDropped, SameTransfers, SameTokens, SameSeqs
  <2>3. CASE stage[r] # "Prefill"
    BY <1>8, <2>3 DEF PassType, SameQueues, SameDropped, SameTransfers, SameTokens, SameSeqs
  <2> QED BY <2>2, <2>3
<1> HIDE DEF p
<1>12. q \in PassType /\ SameLists(q, p) /\ TokensCharged(q, p, r, n) /\ SameSeqs(q, p)
  BY <1>4, <1>5, <1>10, Charge
<1> HIDE DEF q
<1>13. /\ pass' \in PassType /\ SameLists(pass', q) /\ SameTokens(pass', q)
       /\ SeqsCharged(pass', q, r, GetMaxNumRunningSeqs(r))
  BY <1>4, <1>5, <1>7, <1>12, Charge
<1>14. /\ pass'.swapped = Tail(pass.swapped)
       /\ pass'.waiting = pass.waiting /\ pass'.running = pass.running
       /\ pass'.prefills = pass.prefills
       /\ pass'.run_decodes = pass.run_decodes /\ pass'.run_prefills = pass.run_prefills
       /\ SameDropped(pass', pass)
  BY <1>9, <1>11, <1>12, <1>13 DEF SameLists, SameQueues, SameChosen, SameDropped
<1>15. /\ stage[r] = "Prefill" => /\ pass'.in_prefills = Append(pass.in_prefills, Entry(r, n))
                                  /\ pass'.in_decodes = pass.in_decodes
       /\ stage[r] # "Prefill" => /\ pass'.in_decodes = Append(pass.in_decodes, Entry(r, 1))
                                  /\ pass'.in_prefills = pass.in_prefills
  BY <1>9, <1>11, <1>12, <1>13 DEF SameLists, SameChosen
<1>15a. pass'.blocks_in = pass.blocks_in + c /\ pass'.blocks_out = pass.blocks_out
  BY <1>9, <1>11, <1>12, <1>13 DEF SameLists, SameTransfers
<1>16. TokensCharged(pass', pass, r, n)
  BY <1>9, <1>11, <1>12, <1>13 DEF TokensCharged, SameTokens
<1>17. SeqsCharged(pass', pass, r, GetMaxNumRunningSeqs(r))
  BY <1>9, <1>11, <1>12, <1>13 DEF SeqsCharged, SameSeqs
<1> QED BY <1>1, <1>2, <1>2a, <1>4, <1>5, <1>7, <1>13, <1>14, <1>15, <1>15a, <1>16, <1>17

LEMMA LastOf ==
    ASSUME NEW A, NEW q \in Seq(A), q # <<>>
    PROVE  /\ Last(q) \in A /\ Last(q) \in Range(q)
           /\ Len(q) \in DOMAIN q /\ Last(q) = q[Len(q)]
<1>1. Len(q) \in 1..Len(q) /\ DOMAIN q = 1..Len(q)
  OBVIOUS
<1> QED BY <1>1 DEF Last, Range

(* What preempting v does: by recomputation, and by swapping *)
Recomputed(v) ==
    /\ ByRecompute(v) /\ status[v] = "Running"
    /\ FreeSequence(v)
    /\ status' = [status EXCEPT ![v] = "Waiting"]
    /\ computed' = [computed EXCEPT ![v] = 0]
    /\ stage' = [stage EXCEPT ![v] = "Prefill"]
    /\ pass'.preempted = Append(pass.preempted, v) /\ pass'.swapped_out = pass.swapped_out
    /\ pass'.blocks_out = pass.blocks_out

SwappedOut(v) ==
    /\ ~ByRecompute(v) /\ CanSwapOut(v)
    /\ SwapOut(v)
    /\ status' = [status EXCEPT ![v] = "Swapped"]
    /\ UNCHANGED <<computed, stage>>
    /\ pass'.swapped_out = Append(pass.swapped_out, v) /\ pass'.preempted = pass.preempted
    /\ pass'.blocks_out = pass.blocks_out + gpu_table[SequenceId[v]]

LEMMA PreemptEffect ==
    ASSUME SeqTypes, PassTypes, Preempt, \A v \in Requests : gpu_table[SequenceId[v]] \in Nat
    PROVE  \E r, v \in Requests, n \in Nat :
             /\ r = Head(pass.running) /\ n = GetNumTokens(r, "Running") /\ status[r] = "Running"
             /\ pass.running # <<>> /\ v = Last(pass.running)
             /\ Recomputed(v) \/ SwappedOut(v)
             /\ pass' \in PassType
             /\ pass'.running = Keep(pass.running, Requests \ {v})
             /\ pass'.waiting = pass.waiting /\ pass'.swapped = pass.swapped
             /\ SameChosen(pass', pass)
             /\ pass'.ignored = pass.ignored /\ pass'.infeasible = pass.infeasible
             /\ pass'.blocks_in = pass.blocks_in
             /\ pass'.token_ids = pass.token_ids \ {r}
             /\ pass'.tokens = IF r \in pass.token_ids THEN pass.tokens - n ELSE pass.tokens
             /\ pass'.seq_ids = pass.seq_ids \ {r}
             /\ pass'.num_seqs = IF r \in pass.seq_ids
                                 THEN pass.num_seqs - GetMaxNumRunningSeqs(r) ELSE pass.num_seqs
<1>1. PICK r, v : /\ r = Head(pass.running) /\ pass.running # <<>>
                  /\ v = Victim(pass.running) /\ status[r] = "Running" /\ PreemptError(v) = "none"
  BY RunningPreempt DEF Preempt
<1>2. PICK n : n = GetNumTokens(r, "Running")
  OBVIOUS
<1>3. pass \in PassType /\ pass.running \in Seq(Requests)
  BY DEF PassTypes, PassType
<1>4. r \in Requests /\ v \in Requests /\ v = Last(pass.running)
  BY <1>1, <1>3, HeadTail, LastOf DEF Victim
<1>5. n \in Nat /\ GetMaxNumRunningSeqs(r) \in Nat
  BY <1>2, <1>4, NumTokensType
<1>q. PICK q : q = RefundSeqs(RefundTokens(pass, r, n), r)
  OBVIOUS
<1>r. Refunded(q, pass, r, n)
  <2>1. n \in Int /\ GetMaxNumRunningSeqs(r) \in Int
    BY <1>5
  <2> QED BY <1>q, <2>1, <1>3, <1>4, Refund
<1>6. /\ q = RefundSeqs(RefundTokens(pass, r, n), r)
      /\ q \in PassType
      /\ SameLists(q, pass)
      /\ q.token_ids = pass.token_ids \ {r}
      /\ q.tokens = IF r \in pass.token_ids THEN pass.tokens - n ELSE pass.tokens
      /\ q.seq_ids = pass.seq_ids \ {r}
      /\ q.num_seqs = IF r \in pass.seq_ids THEN pass.num_seqs - GetMaxNumRunningSeqs(r)
                      ELSE pass.num_seqs
  BY <1>q, <1>r DEF Refunded
<1> DEFINE p == [q EXCEPT !.running = Keep(q.running, Requests \ {v})]
<1>7. /\ ByRecompute(v) =>
            /\ FreeSequence(v)
            /\ status' = [status EXCEPT ![v] = "Waiting"]
            /\ computed' = [computed EXCEPT ![v] = 0]
            /\ stage' = [stage EXCEPT ![v] = "Prefill"]
            /\ pass' = [p EXCEPT !.preempted = Append(p.preempted, v)]
      /\ ~ByRecompute(v) =>
            /\ SwapOut(v)
            /\ status' = [status EXCEPT ![v] = "Swapped"]
            /\ pass' = [p EXCEPT !.swapped_out = Append(p.swapped_out, v),
                                 !.blocks_out = p.blocks_out + gpu_table[SequenceId[v]]]
            /\ UNCHANGED <<computed, stage>>
  BY <1>1, <1>2, <1>6 DEF Preempt
<1>8. q.running = pass.running /\ Keep(pass.running, Requests \ {v}) \in Seq(Requests)
  BY <1>3, <1>6, KeepRange DEF SameLists, SameQueues
<1>9. p \in PassType
  BY <1>6, <1>8 DEF PassType
<1>10. /\ p.running = Keep(pass.running, Requests \ {v})
       /\ p.waiting = q.waiting /\ p.swapped = q.swapped
       /\ SameChosen(p, q) /\ SameDropped(p, q) /\ SameTransfers(p, q) /\ SameTokens(p, q) /\ SameSeqs(p, q)
  BY <1>6, <1>8 DEF PassType, SameChosen, SameDropped, SameTransfers, SameTokens, SameSeqs
<1> HIDE DEF p
<1>11. /\ p.preempted \in Seq(Requests) /\ p.swapped_out \in Seq(Requests)
       /\ Append(p.preempted, v) \in Seq(Requests) /\ Append(p.swapped_out, v) \in Seq(Requests)
       /\ p.blocks_out \in Nat
  <2>1. p.preempted \in Seq(Requests) /\ p.swapped_out \in Seq(Requests) /\ p.blocks_out \in Nat
    BY <1>9 DEF PassType
  <2> QED BY <2>1, <1>4, AppendList
<1>12. p.blocks_out + gpu_table[SequenceId[v]] \in Nat
  BY <1>4, <1>11
<1>13. /\ pass' \in PassType
       /\ SameQueues(pass', p) /\ SameChosen(pass', p)
       /\ pass'.ignored = p.ignored /\ pass'.infeasible = p.infeasible
       /\ pass'.blocks_in = p.blocks_in /\ SameTokens(pass', p) /\ SameSeqs(pass', p)
  <2>1. CASE ByRecompute(v)
    <3>1. pass' \in PassType
      BY <2>1, <1>7, <1>9, <1>11 DEF PassType
    <3> QED BY <2>1, <3>1, <1>7, <1>9 DEF PassType, SameQueues, SameChosen, SameTokens, SameSeqs
  <2>2. CASE ~ByRecompute(v)
    <3>0. PICK n_out \in Nat : n_out = p.blocks_out + gpu_table[SequenceId[v]]
      BY <1>12
    <3>a. pass' = [p EXCEPT !.swapped_out = Append(p.swapped_out, v), !.blocks_out = n_out]
      BY <2>2, <1>7, <3>0
    <3>1. pass' \in PassType
      BY <3>a, <1>9, <1>11 DEF PassType
    <3> QED BY <2>2, <3>1, <1>7, <1>9 DEF PassType, SameQueues, SameChosen, SameTokens, SameSeqs
  <2> QED BY <2>1, <2>2
<1>14. p.preempted = pass.preempted /\ p.swapped_out = pass.swapped_out /\ p.blocks_out = pass.blocks_out
  BY <1>6, <1>10 DEF SameLists, SameDropped, SameTransfers
<1>15. Recomputed(v) \/ SwappedOut(v)
  <2>1. CASE ByRecompute(v)
    <3>1. status[v] = "Running"
      BY <1>1, <2>1 DEF PreemptError
    <3>2. /\ pass'.preempted = Append(p.preempted, v) /\ pass'.swapped_out = p.swapped_out
          /\ pass'.blocks_out = p.blocks_out
      BY <2>1, <1>7, <1>9 DEF PassType
    <3> QED BY <2>1, <3>1, <3>2, <1>7, <1>14 DEF Recomputed
  <2>2. CASE ~ByRecompute(v)
    <3>1. CanSwapOut(v)
      BY <1>1, <2>2 DEF PreemptError
    <3>2. /\ pass'.swapped_out = Append(p.swapped_out, v) /\ pass'.preempted = p.preempted
          /\ pass'.blocks_out = p.blocks_out + gpu_table[SequenceId[v]]
      BY <2>2, <1>7, <1>9 DEF PassType
    <3> QED BY <2>2, <3>1, <3>2, <1>7, <1>14 DEF SwappedOut
  <2> QED BY <2>1, <2>2
<1>16. /\ pass'.running = Keep(pass.running, Requests \ {v})
       /\ pass'.waiting = pass.waiting /\ pass'.swapped = pass.swapped
       /\ SameChosen(pass', pass)
       /\ pass'.ignored = pass.ignored /\ pass'.infeasible = pass.infeasible
       /\ pass'.blocks_in = pass.blocks_in
  BY <1>6, <1>10, <1>13 DEF SameLists, SameQueues, SameChosen, SameDropped, SameTransfers
<1>17. /\ pass'.token_ids = pass.token_ids \ {r}
       /\ pass'.tokens = IF r \in pass.token_ids THEN pass.tokens - n ELSE pass.tokens
       /\ pass'.seq_ids = pass.seq_ids \ {r}
       /\ pass'.num_seqs = IF r \in pass.seq_ids
                           THEN pass.num_seqs - GetMaxNumRunningSeqs(r) ELSE pass.num_seqs
  BY <1>6, <1>10, <1>13 DEF SameTokens, SameSeqs
<1> QED BY <1>1, <1>2, <1>4, <1>5, <1>13, <1>15, <1>16, <1>17

-----------------------------------------------------------------------------
(* The start of a pass *)

(* s has the members of q, in order of arrival *)
InOrder(s) == \A i, j \in 1..Len(s) : i < j => s[i] <= s[j]

LEMMA SortOf ==
    ASSUME NEW A, NEW q \in Seq(A), NEW s \in SortByPriority(q)
    PROVE  /\ s \in Seq(A) /\ Range(s) = Range(q) /\ InOrder(s)
           /\ IsInjective(q) => IsInjective(s)
<1> DEFINE n == Len(q)
<1>1. PICK p \in Bijection(1..n, 1..n) : s = [i \in 1..n |-> q[p[i]]]
  BY DEF SortByPriority
<1>2. \A i, j \in 1..n : i < j => s[i] <= s[j]
  BY DEF SortByPriority
<1>3. n \in Nat /\ DOMAIN q = 1..n /\ \A i \in 1..n : q[i] \in A
  OBVIOUS
<1> HIDE DEF n
<1>4. /\ p \in [1..n -> 1..n] /\ (\A i, j \in 1..n : p[i] = p[j] => i = j)
      /\ \A k \in 1..n : \E i \in 1..n : p[i] = k
  BY DEF Bijection, Injection, Surjection, IsInjective
<1>5. s \in [1..n -> A]
  BY <1>1, <1>3, <1>4
<1>6. s \in Seq(A) /\ Len(s) = n
  BY <1>3, <1>5
<1>7. Range(s) = Range(q)
  <2>1. ASSUME NEW x \in Range(s) PROVE x \in Range(q)
    <3>1. PICK i \in 1..n : x = s[i]
      BY <1>5 DEF Range
    <3> QED BY <1>1, <1>3, <1>4, <3>1 DEF Range
  <2>2. ASSUME NEW x \in Range(q) PROVE x \in Range(s)
    <3>1. PICK k \in 1..n : x = q[k]
      BY <1>3 DEF Range
    <3>2. PICK i \in 1..n : p[i] = k
      BY <1>4
    <3>3. i \in DOMAIN s /\ s[i] = x
      BY <1>1, <3>1, <3>2
    <3> QED BY <3>3 DEF Range
  <2> QED BY <2>1, <2>2
<1>8. ASSUME IsInjective(q) PROVE IsInjective(s)
  <2>1. \A i, j \in 1..n : s[i] = s[j] => i = j
    BY <1>1, <1>3, <1>4, <1>8 DEF IsInjective
  <2> QED BY <1>5, <2>1 DEF IsInjective
<1> QED BY <1>2, <1>6, <1>7, <1>8 DEF InOrder

(* The sequences charged for the running groups *)
LEMMA RunningCharge ==
    ASSUME SeqTypes, NEW S \in SUBSET Requests
    PROVE  /\ MapThenSumSet(GetMaxNumRunningSeqs, S) \in Nat
           /\ (\A r \in S : status[r] \in Live)
                => MapThenSumSet(GetMaxNumRunningSeqs, S) = Total(BestOf, S)
<1> DEFINE W == [r \in Requests |-> GetMaxNumRunningSeqs(r)]
           Q(g) == g = [s \in SUBSET S |-> IF s = {} THEN 0 ELSE GetMaxNumRunningSeqs(Pick(s)) + g[s \ {Pick(s)}]]
           g0 == CHOOSE g : Q(g)
<1>1. IsFiniteSet(S)
  BY RequestsAssumption, FS_Subset
<1>2. MapThenSumSet(GetMaxNumRunningSeqs, S) = g0[S]
  BY DEF MapThenSumSet, MapThenFoldSet, Pick
<1>3. W \in [Requests -> Nat] /\ W \in [Requests -> Nat]
  BY RequestsAssumption DEF GetMaxNumRunningSeqs, SeqTypes
<1>4. \A s \in SUBSET S : s # {} => Pick(s) \in Requests /\ W[Pick(s)] = GetMaxNumRunningSeqs(Pick(s))
  BY DEF Pick
<1> HIDE DEF W
<1>5. PICK g : IsTotal(g, W, SUBSET S)
  BY <1>1, TotalExists
<1>6. Q(g)
  <2>1. \A s \in SUBSET S : g[s] = IF s = {} THEN 0 ELSE GetMaxNumRunningSeqs(Pick(s)) + g[s \ {Pick(s)}]
    BY <1>4, <1>5 DEF IsTotal, SumNext
  <2>2. g = [s \in SUBSET S |-> g[s]]
    BY <1>5 DEF IsTotal
  <2> QED BY <2>1, <2>2
<1>7. Q(g0)
  BY <1>6
<1> HIDE DEF g0
<1>8. \A s \in SUBSET S : g0[s] = SumNext(g0, W, s)
  BY <1>4, <1>7 DEF SumNext
<1>9. Total(W, S) = g0[S]
  BY <1>1, <1>8, TotalUnique
<1>10. Total(W, S) \in Nat
  BY <1>1, <1>3, TotalType
<1>11. ASSUME \A r \in S : status[r] \in Live PROVE Total(W, S) = Total(BestOf, S)
  <2>1. \A r \in S : W[r] = BestOf[r]
    BY <1>11, RequestsAssumption DEF W, GetMaxNumRunningSeqs, SeqTypes
  <2>2. \A s \in SUBSET S : g0[s] = SumNext(g0, BestOf, s)
    <3> TAKE s \in SUBSET S
    <3>1. s # {} => Pick(s) \in S
      BY DEF Pick
    <3> QED BY <1>8, <2>1, <3>1 DEF SumNext
  <2> QED BY <1>1, <1>9, <2>2, TotalUnique
<1> QED BY <1>2, <1>9, <1>10, <1>11

QueueTypes == waiting \in Seq(Requests) /\ running \in Seq(Requests) /\ swapped \in Seq(Requests)

LEMMA StartPassEffect ==
    ASSUME SeqTypes, QueueTypes, StartPass
    PROVE  /\ pass' \in PassType
           /\ phase' = IF ~Chunked /\ swapped = <<>> THEN "prefills" ELSE "running"
           /\ pass'.waiting = waiting
           /\ pass'.running \in SortByPriority(running) /\ pass'.swapped \in SortByPriority(swapped)
           /\ SameChosen(pass', EmptyPass) /\ SameDropped(pass', EmptyPass)
           /\ SameTransfers(pass', EmptyPass) /\ SameTokens(pass', EmptyPass)
           /\ IF Chunked THEN SameSeqs(pass', EmptyPass)
              ELSE /\ pass'.seq_ids = Range(running)
                   /\ pass'.num_seqs = MapThenSumSet(GetMaxNumRunningSeqs, Range(running))
<1>1. PICK run \in SortByPriority(running), swap \in SortByPriority(swapped) :
        LET p == [EmptyPass EXCEPT !.waiting = waiting, !.running = run, !.swapped = swap]
        IN  pass' = IF Chunked THEN p
                    ELSE [p EXCEPT !.num_seqs = MapThenSumSet(GetMaxNumRunningSeqs, Range(running)),
                                   !.seq_ids = Range(running)]
  BY DEF StartPass
<1>2. run \in Seq(Requests) /\ swap \in Seq(Requests) /\ Range(running) \in SUBSET Requests
  BY SortOf, RangeOfList DEF QueueTypes
<1>3. MapThenSumSet(GetMaxNumRunningSeqs, Range(running)) \in Int
  BY <1>2, RunningCharge
<1> DEFINE p == [EmptyPass EXCEPT !.waiting = waiting, !.running = run, !.swapped = swap]
           m == MapThenSumSet(GetMaxNumRunningSeqs, Range(running))
<1>4. p \in PassType
  BY <1>2, EmptyPassType DEF PassType, QueueTypes
<1>5. /\ p.waiting = waiting /\ p.running = run /\ p.swapped = swap
      /\ SameChosen(p, EmptyPass) /\ SameDropped(p, EmptyPass)
      /\ SameTransfers(p, EmptyPass) /\ SameTokens(p, EmptyPass) /\ SameSeqs(p, EmptyPass)
  BY DEF EmptyPass, SameChosen, SameDropped, SameTransfers, SameTokens, SameSeqs
<1>6. pass' = IF Chunked THEN p ELSE [p EXCEPT !.num_seqs = m, !.seq_ids = Range(running)]
  BY <1>1
<1> HIDE DEF p, m
<1>7. m \in Int
  BY <1>3 DEF m
<1>8. pass' \in PassType
  <2>1. [p EXCEPT !.num_seqs = m, !.seq_ids = Range(running)] \in PassType
    BY <1>2, <1>4, <1>7 DEF PassType
  <2> QED BY <1>4, <1>6, <2>1
<1>9. /\ pass'.waiting = p.waiting /\ pass'.running = p.running /\ pass'.swapped = p.swapped
      /\ SameChosen(pass', p) /\ SameDropped(pass', p)
      /\ SameTransfers(pass', p) /\ SameTokens(pass', p)
  BY <1>4, <1>6 DEF PassType, SameChosen, SameDropped, SameTransfers, SameTokens
<1>10. IF Chunked THEN SameSeqs(pass', p) ELSE pass'.seq_ids = Range(running) /\ pass'.num_seqs = m
  BY <1>4, <1>6 DEF PassType, SameSeqs
<1>11. phase' = IF ~Chunked /\ swapped = <<>> THEN "prefills" ELSE "running"
  BY DEF StartPass
<1>12. /\ SameChosen(pass', EmptyPass) /\ SameDropped(pass', EmptyPass)
       /\ SameTransfers(pass', EmptyPass) /\ SameTokens(pass', EmptyPass)
       /\ Chunked => SameSeqs(pass', EmptyPass)
  BY <1>5, <1>9, <1>10 DEF SameChosen, SameDropped, SameTransfers, SameTokens, SameSeqs
<1> QED BY <1>1, <1>5, <1>8, <1>9, <1>10, <1>11, <1>12 DEF m

-----------------------------------------------------------------------------
(* The block accounts *)

GpuTotal == free_gpu + Total(gpu_table, Ids)

CpuTotal == free_cpu + Total(cpu_table, Ids)

(* No pool is overdrawn.  (Without distinct sequence ids blocks can get lost.) *)
BlockTypes ==
    /\ gpu_table \in [Ids -> Nat] /\ cpu_table \in [Ids -> Nat]
    /\ free_gpu \in Nat /\ free_cpu \in Nat
    /\ GpuTotal <= NumGpuBlocks /\ CpuTotal <= NumCpuBlocks

LEMMA IdsFinite == IsFiniteSet(Ids) /\ \A r \in Requests : SequenceId[r] \in Ids
<1>1. SequenceId \in Surjection(Requests, Ids)
  BY SequenceIdAssumption DEF Surjection, Range, Ids
<1>2. \A r \in Requests : SequenceId[r] \in Ids
  BY SequenceIdAssumption DEF Ids, Range
<1> QED BY <1>1, <1>2, FS_Surjection, RequestsAssumption

LEMMA DivBounds ==
    ASSUME NEW a \in Nat, NEW b \in Nat \ {0}
    PROVE  a \div b \in Nat /\ (a \div b) * b <= a /\ a < (a \div b) * b + b
<1>1. a \div b \in Nat
  OBVIOUS
<1>2. (a \div b) * b <= a
  OBVIOUS
<1>3. a < (a \div b) * b + b
  OBVIOUS
<1> QED BY <1>1, <1>2, <1>3

(* A group's logical blocks are just enough for its tokens. *)
LEMMA LogicalBlocksType ==
    ASSUME SeqTypes, NEW r \in Requests
    PROVE  /\ LogicalBlocks(r) \in Nat
           /\ length[r] <= LogicalBlocks(r) * BlockSize
           /\ LogicalBlocks(r) * BlockSize <= length[r] + BlockSize - 1
           /\ length[r] # 0 => LogicalBlocks(r) # 0
<1> DEFINE a == length[r] + BlockSize - 1
           n == LogicalBlocks(r)
<1>1. length[r] \in Nat /\ BlockSize \in Nat \ {0} /\ a \in Nat
  BY CapacityAssumption DEF SeqTypes
<1>2. n \in Nat /\ n * BlockSize <= a /\ a < n * BlockSize + BlockSize
  BY <1>1, DivBounds DEF LogicalBlocks
<1> HIDE DEF n
<1>3. PICK m \in Nat : m = n * BlockSize
  BY <1>1, <1>2
<1>4. n = 0 => m = 0
  BY <1>1, <1>3
<1>5. length[r] <= m /\ m <= length[r] + BlockSize - 1
  BY <1>1, <1>2, <1>3
<1>6. length[r] # 0 => n # 0
  BY <1>1, <1>4, <1>5
<1> QED BY <1>2, <1>3, <1>5, <1>6 DEF n

LEMMA TableUpdate ==
    ASSUME NEW t \in [Ids -> Nat], NEW h \in [Ids -> Nat], NEW i \in Ids,
           \A j \in Ids : j # i => h[j] = t[j]
    PROVE  /\ Total(t, Ids) \in Nat /\ t[i] \in Nat
           /\ Total(h, Ids) = Total(t, Ids) - t[i] + h[i]
<1>1. IsFiniteSet(Ids)
  BY IdsFinite
<1>2. /\ Total(t, Ids) \in Nat /\ Total(h, Ids) \in Nat
      /\ Total(h, Ids) - h[i] = Total(t, Ids) - t[i]
  BY <1>1, TotalUpdate, Zenon
<1>3. t[i] \in Nat /\ h[i] \in Nat
  OBVIOUS
<1> QED BY <1>2, <1>3

LEMMA AllocateBlocks ==
    ASSUME BlockTypes, NEW r \in Requests, Allocate(r),
           LogicalBlocks(r) \in Nat, LogicalBlocks(r) <= free_gpu
    PROVE  /\ BlockTypes'
           /\ GpuTotal' = GpuTotal - gpu_table[SequenceId[r]]
           /\ CpuTotal' = CpuTotal - cpu_table[SequenceId[r]]
<1>1. PICK i \in Ids : i = SequenceId[r]
  BY IdsFinite
<1>2. PICK n \in Nat : n = LogicalBlocks(r)
  OBVIOUS
<1>3. /\ gpu_table' = [gpu_table EXCEPT ![i] = n] /\ cpu_table' = [cpu_table EXCEPT ![i] = 0]
      /\ free_gpu' = free_gpu - n /\ free_cpu' = free_cpu
  BY <1>1, <1>2 DEF Allocate
<1>4. /\ gpu_table' \in [Ids -> Nat] /\ cpu_table' \in [Ids -> Nat]
      /\ gpu_table[i] \in Nat /\ cpu_table[i] \in Nat
      /\ Total(gpu_table, Ids) \in Nat /\ Total(cpu_table, Ids) \in Nat
      /\ Total(gpu_table', Ids) = Total(gpu_table, Ids) - gpu_table[i] + n
      /\ Total(cpu_table', Ids) = Total(cpu_table, Ids) - cpu_table[i] + 0
  <2>1. gpu_table \in [Ids -> Nat] /\ cpu_table \in [Ids -> Nat]
    BY DEF BlockTypes
  <2>2. /\ gpu_table' \in [Ids -> Nat] /\ gpu_table[i] \in Nat /\ Total(gpu_table, Ids) \in Nat
        /\ Total(gpu_table', Ids) = Total(gpu_table, Ids) - gpu_table[i] + n
    <3>1. /\ gpu_table' \in [Ids -> Nat] /\ gpu_table'[i] = n
          /\ \A j \in Ids : j # i => gpu_table'[j] = gpu_table[j]
      BY <1>3, <2>1
    <3>2. Total(gpu_table, Ids) \in Nat /\ gpu_table[i] \in Nat
      BY <2>1, <3>1, TableUpdate, Zenon
    <3>3. Total(gpu_table', Ids) = Total(gpu_table, Ids) - gpu_table[i] + gpu_table'[i]
      BY <2>1, <3>1, TableUpdate, Zenon
    <3> QED BY <3>1, <3>2, <3>3
  <2>3. /\ cpu_table' \in [Ids -> Nat] /\ cpu_table[i] \in Nat /\ Total(cpu_table, Ids) \in Nat
        /\ Total(cpu_table', Ids) = Total(cpu_table, Ids) - cpu_table[i] + 0
    <3>1. /\ cpu_table' \in [Ids -> Nat] /\ cpu_table'[i] = 0
          /\ \A j \in Ids : j # i => cpu_table'[j] = cpu_table[j]
      BY <1>3, <2>1
    <3>2. Total(cpu_table, Ids) \in Nat /\ cpu_table[i] \in Nat
      BY <2>1, <3>1, TableUpdate, Zenon
    <3>3. Total(cpu_table', Ids) = Total(cpu_table, Ids) - cpu_table[i] + cpu_table'[i]
      BY <2>1, <3>1, TableUpdate, Zenon
    <3> QED BY <3>1, <3>2, <3>3
  <2> QED BY <2>2, <2>3
<1>5. free_gpu' \in Nat /\ free_cpu' \in Nat
  BY <1>2, <1>3 DEF BlockTypes
<1>6. GpuTotal' = GpuTotal - gpu_table[i] /\ CpuTotal' = CpuTotal - cpu_table[i]
  BY <1>3, <1>4 DEF GpuTotal, CpuTotal, BlockTypes
<1>7. GpuTotal \in Nat /\ CpuTotal \in Nat
  BY <1>4 DEF GpuTotal, CpuTotal, BlockTypes
<1>8. GpuTotal' <= NumGpuBlocks /\ CpuTotal' <= NumCpuBlocks
  BY <1>4, <1>6, <1>7, CapacityAssumption DEF BlockTypes
<1> QED BY <1>1, <1>4, <1>5, <1>6, <1>8 DEF BlockTypes

LEMMA SlotsAppendedType ==
    ASSUME NEW r, NEW n
    PROVE  SlotsAppended(r, n) \in {0, 1} /\ (n = 0 => SlotsAppended(r, n) = 0)
BY DEF SlotsAppended

LEMMA AppendBlocks ==
    ASSUME BlockTypes, NEW r \in Requests, AppendSlots(r), free_gpu >= 1
    PROVE  BlockTypes' /\ GpuTotal' = GpuTotal /\ CpuTotal' = CpuTotal
<1>1. PICK i \in Ids : i = SequenceId[r]
  BY IdsFinite
<1>2. PICK n \in {0, 1} : n = SlotsAppended(r, gpu_table[i])
  BY SlotsAppendedType
<1>3. PICK g \in Nat : g = gpu_table[i] + n /\ gpu_table[i] \in Nat
  BY <1>2 DEF BlockTypes
<1>4. /\ gpu_table' = [gpu_table EXCEPT ![i] = g] /\ cpu_table' = cpu_table
      /\ free_gpu' = free_gpu - n /\ free_cpu' = free_cpu
  BY <1>1, <1>2, <1>3 DEF AppendSlots, BlockTypes
<1>5. /\ gpu_table' \in [Ids -> Nat] /\ Total(gpu_table, Ids) \in Nat
      /\ Total(gpu_table', Ids) = Total(gpu_table, Ids) - gpu_table[i] + g
  <2>1. gpu_table \in [Ids -> Nat] /\ cpu_table \in [Ids -> Nat]
    BY DEF BlockTypes
  <2>2. /\ gpu_table' \in [Ids -> Nat] /\ gpu_table[i] \in Nat /\ Total(gpu_table, Ids) \in Nat
        /\ Total(gpu_table', Ids) = Total(gpu_table, Ids) - gpu_table[i] + g
    <3>1. /\ gpu_table' \in [Ids -> Nat] /\ gpu_table'[i] = g
          /\ \A j \in Ids : j # i => gpu_table'[j] = gpu_table[j]
      BY <1>4, <2>1
    <3>2. Total(gpu_table, Ids) \in Nat /\ gpu_table[i] \in Nat
      BY <2>1, <3>1, TableUpdate, Zenon
    <3>3. Total(gpu_table', Ids) = Total(gpu_table, Ids) - gpu_table[i] + gpu_table'[i]
      BY <2>1, <3>1, TableUpdate, Zenon
    <3> QED BY <3>1, <3>2, <3>3
  <2> QED BY <2>2
<1>6. free_gpu' \in Nat
  BY <1>2, <1>4 DEF BlockTypes
<1>7. GpuTotal' = GpuTotal
  BY <1>2, <1>3, <1>4, <1>5 DEF GpuTotal, BlockTypes
<1>8. CpuTotal' = CpuTotal
  BY <1>4 DEF CpuTotal
<1> QED BY <1>4, <1>5, <1>6, <1>7, <1>8 DEF BlockTypes

LEMMA SwapInBlocks ==
    ASSUME BlockTypes, NEW r \in Requests, SwapInAndAppend(r), TableLen(r) + 1 <= free_gpu
    PROVE  /\ BlockTypes'
           /\ GpuTotal' = GpuTotal - gpu_table[SequenceId[r]]
           /\ CpuTotal' = CpuTotal
<1>1. PICK i \in Ids : i = SequenceId[r]
  BY IdsFinite
<1>2. PICK c \in Nat : c = cpu_table[i]
  BY DEF BlockTypes
<1>3. PICK n \in Nat : n = c + SlotsAppended(r, c) /\ n <= c + 1
  BY <1>2, SlotsAppendedType
<1>4. /\ gpu_table' = [gpu_table EXCEPT ![i] = n] /\ cpu_table' = [cpu_table EXCEPT ![i] = 0]
      /\ free_gpu' = free_gpu - n /\ free_cpu' = free_cpu + c
  BY <1>1, <1>2, <1>3 DEF SwapInAndAppend
<1>5. /\ gpu_table' \in [Ids -> Nat] /\ cpu_table' \in [Ids -> Nat]
      /\ gpu_table[i] \in Nat
      /\ Total(gpu_table, Ids) \in Nat /\ Total(cpu_table, Ids) \in Nat
      /\ Total(gpu_table', Ids) = Total(gpu_table, Ids) - gpu_table[i] + n
      /\ Total(cpu_table', Ids) = Total(cpu_table, Ids) - c + 0
  <2>1. gpu_table \in [Ids -> Nat] /\ cpu_table \in [Ids -> Nat]
    BY DEF BlockTypes
  <2>2. /\ gpu_table' \in [Ids -> Nat] /\ gpu_table[i] \in Nat /\ Total(gpu_table, Ids) \in Nat
        /\ Total(gpu_table', Ids) = Total(gpu_table, Ids) - gpu_table[i] + n
    <3>1. /\ gpu_table' \in [Ids -> Nat] /\ gpu_table'[i] = n
          /\ \A j \in Ids : j # i => gpu_table'[j] = gpu_table[j]
      BY <1>4, <2>1
    <3>2. Total(gpu_table, Ids) \in Nat /\ gpu_table[i] \in Nat
      BY <2>1, <3>1, TableUpdate, Zenon
    <3>3. Total(gpu_table', Ids) = Total(gpu_table, Ids) - gpu_table[i] + gpu_table'[i]
      BY <2>1, <3>1, TableUpdate, Zenon
    <3> QED BY <3>1, <3>2, <3>3
  <2>3. /\ cpu_table' \in [Ids -> Nat] /\ cpu_table[i] \in Nat /\ Total(cpu_table, Ids) \in Nat
        /\ Total(cpu_table', Ids) = Total(cpu_table, Ids) - cpu_table[i] + 0
    <3>1. /\ cpu_table' \in [Ids -> Nat] /\ cpu_table'[i] = 0
          /\ \A j \in Ids : j # i => cpu_table'[j] = cpu_table[j]
      BY <1>4, <2>1
    <3>2. Total(cpu_table, Ids) \in Nat /\ cpu_table[i] \in Nat
      BY <2>1, <3>1, TableUpdate, Zenon
    <3>3. Total(cpu_table', Ids) = Total(cpu_table, Ids) - cpu_table[i] + cpu_table'[i]
      BY <2>1, <3>1, TableUpdate, Zenon
    <3> QED BY <3>1, <3>2, <3>3
  <2> QED BY <1>2, <2>2, <2>3
<1>6. free_gpu' \in Nat /\ free_cpu' \in Nat
  BY <1>1, <1>2, <1>3, <1>4, <1>5 DEF BlockTypes, TableLen
<1>7. GpuTotal' = GpuTotal - gpu_table[i] /\ CpuTotal' = CpuTotal
  BY <1>4, <1>5 DEF GpuTotal, CpuTotal, BlockTypes
<1>8. GpuTotal \in Nat
  BY <1>5 DEF GpuTotal, BlockTypes
<1>9. GpuTotal' <= NumGpuBlocks /\ CpuTotal' <= NumCpuBlocks
  BY <1>5, <1>7, <1>8, CapacityAssumption DEF BlockTypes
<1> QED BY <1>1, <1>5, <1>6, <1>7, <1>9 DEF BlockTypes

LEMMA SwapOutBlocks ==
    ASSUME BlockTypes, NEW r \in Requests, SwapOut(r), CanSwapOut(r)
    PROVE  /\ BlockTypes'
           /\ GpuTotal' = GpuTotal
           /\ CpuTotal' = CpuTotal - cpu_table[SequenceId[r]]
<1>1. PICK i \in Ids : i = SequenceId[r]
  BY IdsFinite
<1>2. PICK g \in Nat : g = gpu_table[i]
  BY DEF BlockTypes
<1>4. /\ gpu_table' = [gpu_table EXCEPT ![i] = 0] /\ cpu_table' = [cpu_table EXCEPT ![i] = g]
      /\ free_gpu' = free_gpu + g /\ free_cpu' = free_cpu - g
  BY <1>1, <1>2 DEF SwapOut
<1>5. /\ gpu_table' \in [Ids -> Nat] /\ cpu_table' \in [Ids -> Nat]
      /\ cpu_table[i] \in Nat
      /\ Total(gpu_table, Ids) \in Nat /\ Total(cpu_table, Ids) \in Nat
      /\ Total(gpu_table', Ids) = Total(gpu_table, Ids) - g + 0
      /\ Total(cpu_table', Ids) = Total(cpu_table, Ids) - cpu_table[i] + g
  <2>1. gpu_table \in [Ids -> Nat] /\ cpu_table \in [Ids -> Nat]
    BY DEF BlockTypes
  <2>2. /\ gpu_table' \in [Ids -> Nat] /\ gpu_table[i] \in Nat /\ Total(gpu_table, Ids) \in Nat
        /\ Total(gpu_table', Ids) = Total(gpu_table, Ids) - gpu_table[i] + 0
    <3>1. /\ gpu_table' \in [Ids -> Nat] /\ gpu_table'[i] = 0
          /\ \A j \in Ids : j # i => gpu_table'[j] = gpu_table[j]
      BY <1>4, <2>1
    <3>2. Total(gpu_table, Ids) \in Nat /\ gpu_table[i] \in Nat
      BY <2>1, <3>1, TableUpdate, Zenon
    <3>3. Total(gpu_table', Ids) = Total(gpu_table, Ids) - gpu_table[i] + gpu_table'[i]
      BY <2>1, <3>1, TableUpdate, Zenon
    <3> QED BY <3>1, <3>2, <3>3
  <2>3. /\ cpu_table' \in [Ids -> Nat] /\ cpu_table[i] \in Nat /\ Total(cpu_table, Ids) \in Nat
        /\ Total(cpu_table', Ids) = Total(cpu_table, Ids) - cpu_table[i] + g
    <3>1. /\ cpu_table' \in [Ids -> Nat] /\ cpu_table'[i] = g
          /\ \A j \in Ids : j # i => cpu_table'[j] = cpu_table[j]
      BY <1>4, <2>1
    <3>2. Total(cpu_table, Ids) \in Nat /\ cpu_table[i] \in Nat
      BY <2>1, <3>1, TableUpdate, Zenon
    <3>3. Total(cpu_table', Ids) = Total(cpu_table, Ids) - cpu_table[i] + cpu_table'[i]
      BY <2>1, <3>1, TableUpdate, Zenon
    <3> QED BY <3>1, <3>2, <3>3
  <2> QED BY <1>2, <2>2, <2>3
<1>6. free_gpu' \in Nat /\ free_cpu' \in Nat
  BY <1>1, <1>2, <1>4, <1>5 DEF BlockTypes, TableLen, CanSwapOut
<1>7. GpuTotal' = GpuTotal /\ CpuTotal' = CpuTotal - cpu_table[i]
  BY <1>4, <1>5 DEF GpuTotal, CpuTotal, BlockTypes
<1>8. CpuTotal \in Nat
  BY <1>5 DEF CpuTotal, BlockTypes
<1>9. GpuTotal' <= NumGpuBlocks /\ CpuTotal' <= NumCpuBlocks
  BY <1>5, <1>7, <1>8, CapacityAssumption DEF BlockTypes
<1> QED BY <1>1, <1>5, <1>6, <1>7, <1>9 DEF BlockTypes

LEMMA FreeBlocks ==
    ASSUME BlockTypes, NEW r \in Requests, FreeSequence(r)
    PROVE  BlockTypes' /\ GpuTotal' = GpuTotal /\ CpuTotal' = CpuTotal
<1>1. PICK i \in Ids : i = SequenceId[r]
  BY IdsFinite
<1>2. PICK g \in Nat, c \in Nat : g = gpu_table[i] /\ c = cpu_table[i]
  BY DEF BlockTypes
<1>4. /\ gpu_table' = [gpu_table EXCEPT ![i] = 0] /\ cpu_table' = [cpu_table EXCEPT ![i] = 0]
      /\ free_gpu' = free_gpu + g /\ free_cpu' = free_cpu + c
  BY <1>1, <1>2 DEF FreeSequence
<1>5. /\ gpu_table' \in [Ids -> Nat] /\ cpu_table' \in [Ids -> Nat]
      /\ Total(gpu_table, Ids) \in Nat /\ Total(cpu_table, Ids) \in Nat
      /\ Total(gpu_table', Ids) = Total(gpu_table, Ids) - g + 0
      /\ Total(cpu_table', Ids) = Total(cpu_table, Ids) - c + 0
  <2>1. gpu_table \in [Ids -> Nat] /\ cpu_table \in [Ids -> Nat]
    BY DEF BlockTypes
  <2>2. /\ gpu_table' \in [Ids -> Nat] /\ gpu_table[i] \in Nat /\ Total(gpu_table, Ids) \in Nat
        /\ Total(gpu_table', Ids) = Total(gpu_table, Ids) - gpu_table[i] + 0
    <3>1. /\ gpu_table' \in [Ids -> Nat] /\ gpu_table'[i] = 0
          /\ \A j \in Ids : j # i => gpu_table'[j] = gpu_table[j]
      BY <1>4, <2>1
    <3>2. Total(gpu_table, Ids) \in Nat /\ gpu_table[i] \in Nat
      BY <2>1, <3>1, TableUpdate, Zenon
    <3>3. Total(gpu_table', Ids) = Total(gpu_table, Ids) - gpu_table[i] + gpu_table'[i]
      BY <2>1, <3>1, TableUpdate, Zenon
    <3> QED BY <3>1, <3>2, <3>3
  <2>3. /\ cpu_table' \in [Ids -> Nat] /\ cpu_table[i] \in Nat /\ Total(cpu_table, Ids) \in Nat
        /\ Total(cpu_table', Ids) = Total(cpu_table, Ids) - cpu_table[i] + 0
    <3>1. /\ cpu_table' \in [Ids -> Nat] /\ cpu_table'[i] = 0
          /\ \A j \in Ids : j # i => cpu_table'[j] = cpu_table[j]
      BY <1>4, <2>1
    <3>2. Total(cpu_table, Ids) \in Nat /\ cpu_table[i] \in Nat
      BY <2>1, <3>1, TableUpdate, Zenon
    <3>3. Total(cpu_table', Ids) = Total(cpu_table, Ids) - cpu_table[i] + cpu_table'[i]
      BY <2>1, <3>1, TableUpdate, Zenon
    <3> QED BY <3>1, <3>2, <3>3
  <2> QED BY <1>2, <2>2, <2>3
<1>6. free_gpu' \in Nat /\ free_cpu' \in Nat
  BY <1>4 DEF BlockTypes
<1>7. GpuTotal' = GpuTotal /\ CpuTotal' = CpuTotal
  BY <1>4, <1>5 DEF GpuTotal, CpuTotal, BlockTypes
<1> QED BY <1>5, <1>6, <1>7 DEF BlockTypes


-----------------------------------------------------------------------------
(* Lists of entries and their requests *)

LEMMA ListOf ==
    ASSUME NEW A, NEW n \in Nat, NEW f \in [1..n -> A]
    PROVE  f \in Seq(A) /\ Len(f) = n
OBVIOUS

LEMMA RequestsOfList ==
    ASSUME NEW L \in Seq(Scheduled)
    PROVE  /\ RequestsOf(L) \in Seq(Requests) /\ Len(RequestsOf(L)) = Len(L)
           /\ DOMAIN L = 1..Len(L)
           /\ \A i \in 1..Len(L) : RequestsOf(L)[i] = L[i].id /\ L[i] \in Scheduled
           /\ RequestsOf(L) = <<>> <=> L = <<>>
<1> DEFINE n == Len(L)
           f == [i \in 1..n |-> L[i].id]
<1>1. n \in Nat /\ DOMAIN L = 1..n /\ \A i \in 1..n : L[i] \in Scheduled
  OBVIOUS
<1>2. RequestsOf(L) = f
  BY <1>1 DEF RequestsOf
<1>3. \A i \in 1..n : L[i].id \in Requests
  BY <1>1 DEF Scheduled
<1>4. f \in [1..n -> Requests]
  BY <1>3
<1>5. f \in Seq(Requests) /\ Len(f) = n
  BY <1>1, <1>4, ListOf
<1>6. f = <<>> <=> Len(f) = 0
  BY <1>5
<1>7. L = <<>> <=> n = 0
  OBVIOUS
<1> QED BY <1>1, <1>2, <1>5, <1>6, <1>7

(* The requests of a batch are the ids of its entries. *)
LEMMA RequestsOfRange ==
    ASSUME NEW L \in Seq(Scheduled)
    PROVE  /\ Range(RequestsOf(L)) \subseteq Requests
           /\ \A e \in Range(L) : e \in Scheduled /\ e.id \in Range(RequestsOf(L))
           /\ \A r \in Range(RequestsOf(L)) : \E e \in Range(L) : e.id = r
<1>1. /\ RequestsOf(L) \in Seq(Requests) /\ Len(RequestsOf(L)) = Len(L)
      /\ DOMAIN L = 1..Len(L)
      /\ \A i \in 1..Len(L) : RequestsOf(L)[i] = L[i].id /\ L[i] \in Scheduled
  BY RequestsOfList
<1>2. DOMAIN RequestsOf(L) = 1..Len(L)
  BY <1>1
<1>3. Range(RequestsOf(L)) \subseteq Requests
  BY <1>1, RangeOfList
<1> QED BY <1>1, <1>2, <1>3 DEF Range

LEMMA RequestsOfAppend ==
    ASSUME NEW L \in Seq(Scheduled), NEW e \in Scheduled
    PROVE  RequestsOf(Append(L, e)) = Append(RequestsOf(L), e.id)
<1> DEFINE n == Len(L)
           M == Append(L, e)
           R == RequestsOf(L)
           X == Append(R, e.id)
<1>1. n \in Nat /\ M \in Seq(Scheduled) /\ Len(M) = n + 1 /\ M[n + 1] = e
      /\ \A i \in 1..n : M[i] = L[i]
  OBVIOUS
<1>2. e.id \in Requests
  BY DEF Scheduled
<1>3. R \in Seq(Requests) /\ Len(R) = n /\ \A i \in 1..n : R[i] = L[i].id
  BY RequestsOfList
<1>4. X \in Seq(Requests) /\ Len(X) = n + 1 /\ X[n + 1] = e.id /\ \A i \in 1..n : X[i] = R[i]
  BY <1>2, <1>3
<1>5. /\ RequestsOf(M) \in Seq(Requests) /\ Len(RequestsOf(M)) = n + 1
      /\ \A i \in 1..(n + 1) : RequestsOf(M)[i] = M[i].id
  BY <1>1, RequestsOfList
<1> HIDE DEF M, X, R
<1>6. \A i \in 1..(n + 1) : RequestsOf(M)[i] = X[i]
  <2> TAKE i \in 1..(n + 1)
  <2>1. CASE i = n + 1
    BY <1>1, <1>4, <1>5, <2>1
  <2>2. CASE i # n + 1
    <3>1. i \in 1..n
      BY <1>1, <2>2
    <3> QED BY <1>1, <1>3, <1>4, <1>5, <3>1
  <2> QED BY <2>1, <2>2
<1>7. RequestsOf(M) = X
  BY <1>4, <1>5, <1>6
<1> QED BY <1>7 DEF M, X, R

-----------------------------------------------------------------------------
(* Types *)

Phases == {"idle", "prefills", "running", "swapped", "commit"}

BatchTypes ==
    /\ outputs \in [scheduled : Seq(Scheduled), ignored : Seq(Requests),
                    blocks_in : Nat, blocks_out : Nat]
    /\ in_flight \in BOOLEAN

Types == SeqTypes /\ QueueTypes /\ PassTypes /\ BlockTypes /\ BatchTypes /\ phase \in Phases

(* What the engine around the scheduler does to it besides calling it: nothing,
   or give up the batch in flight, perhaps with an error of its own. *)
Dropped ==
    /\ in_flight' \in {in_flight, FALSE}
    /\ UNCHANGED <<queues, seqs, blocks, phase, pass, outputs>>
    /\ err # "none" => err' # "none"

LEMMA StatusTypes ==
    ASSUME SeqTypes, NEW r \in Requests, NEW st \in Statuses \ {"Unborn"},
           status' = [status EXCEPT ![r] = st], UNCHANGED <<prompt_len, length, computed, stage>>
    PROVE  SeqTypes'
BY DEF SeqTypes

LEMMA OutputsType ==
    ASSUME NEW p \in PassType
    PROVE  /\ NewWaiting(p) \in Seq(Requests) /\ NewRunning(p) \in Seq(Requests)
           /\ NewSwapped(p) \in Seq(Requests)
           /\ NewOutputs(p) \in [scheduled : Seq(Scheduled), ignored : Seq(Requests),
                                 blocks_in : Nat, blocks_out : Nat]
<1>1. /\ p.waiting \in Seq(Requests) /\ p.running \in Seq(Requests) /\ p.swapped \in Seq(Requests)
      /\ p.preempted \in Seq(Requests) /\ p.swapped_out \in Seq(Requests)
      /\ p.ignored \in Seq(Requests) /\ p.infeasible \in Seq(Requests)
      /\ p.blocks_in \in Nat /\ p.blocks_out \in Nat
  BY DEF PassType
<1>2. /\ p.prefills \in Seq(Scheduled) /\ p.run_decodes \in Seq(Scheduled)
      /\ p.run_prefills \in Seq(Scheduled) /\ p.in_decodes \in Seq(Scheduled)
      /\ p.in_prefills \in Seq(Scheduled)
  BY DEF PassType
<1>3. \A L \in Seq(Scheduled) : RequestsOf(L) \in Seq(Requests)
  BY RequestsOfList
<1>4. \A a, b \in Seq(Requests) : a \o b \in Seq(Requests)
  OBVIOUS
<1>5. \A a, b \in Seq(Scheduled) : a \o b \in Seq(Scheduled)
  OBVIOUS
<1>6. NewWaiting(p) \in Seq(Requests) /\ NewSwapped(p) \in Seq(Requests)
  BY <1>1, <1>4 DEF NewWaiting, NewSwapped
<1>7. NewRunning(p) \in Seq(Requests)
  <2>1. /\ RequestsOf(p.prefills) \in Seq(Requests) /\ RequestsOf(p.run_decodes) \in Seq(Requests)
        /\ RequestsOf(p.in_decodes) \in Seq(Requests)
        /\ (IF Chunked THEN RequestsOf(p.in_prefills) ELSE <<>>) \in Seq(Requests)
    BY <1>2, <1>3
  <2>2. p.running \o RequestsOf(p.prefills) \in Seq(Requests)
    BY <1>1, <1>4, <2>1
  <2>3. p.running \o RequestsOf(p.prefills) \o RequestsOf(p.run_decodes) \in Seq(Requests)
    BY <1>4, <2>1, <2>2
  <2>4. p.running \o RequestsOf(p.prefills) \o RequestsOf(p.run_decodes) \o RequestsOf(p.in_decodes) \in Seq(Requests)
    BY <1>4, <2>1, <2>3
  <2> QED BY <1>4, <2>1, <2>4 DEF NewRunning
<1>8. NewOutputs(p).scheduled \in Seq(Scheduled)
  <2>1. (IF Chunked THEN p.run_prefills \o p.in_prefills ELSE <<>>) \in Seq(Scheduled)
    BY <1>2, <1>5
  <2>2. p.prefills \o (IF Chunked THEN p.run_prefills \o p.in_prefills ELSE <<>>) \in Seq(Scheduled)
    BY <1>2, <1>5, <2>1
  <2>3. p.prefills \o (IF Chunked THEN p.run_prefills \o p.in_prefills ELSE <<>>) \o p.run_decodes \in Seq(Scheduled)
    BY <1>2, <1>5, <2>2
  <2> QED BY <1>2, <1>5, <2>3 DEF NewOutputs
<1>9. NewOutputs(p).ignored \in Seq(Requests)
  BY <1>1, <1>4 DEF NewOutputs
<1>10. NewOutputs(p) = [scheduled |-> NewOutputs(p).scheduled, ignored |-> NewOutputs(p).ignored,
                        blocks_in |-> p.blocks_in, blocks_out |-> p.blocks_out]
  BY DEF NewOutputs
<1> QED BY <1>1, <1>6, <1>7, <1>8, <1>9, <1>10

LEMMA InitTotals ==
    ASSUME Init PROVE GpuTotal = NumGpuBlocks /\ CpuTotal = NumCpuBlocks
<1>1. IsFiniteSet(Ids)
  BY IdsFinite
<1>2. \A i \in Ids : gpu_table[i] = 0 /\ cpu_table[i] = 0
  BY DEF Init
<1>3. Total(gpu_table, Ids) = 0 /\ Total(cpu_table, Ids) = 0
  BY <1>1, <1>2, TotalZero, Zenon
<1> QED BY <1>3, CapacityAssumption DEF Init, GpuTotal, CpuTotal

LEMMA TypesInit == Init => Types
<1> SUFFICES ASSUME Init PROVE Types
  OBVIOUS
<1>1. SeqTypes
  BY DEF Init, SeqTypes, Statuses
<1>2. QueueTypes
  BY DEF Init, QueueTypes
<1>3. PassTypes
  BY EmptyPassType, ConfigAssumption DEF Init, PassTypes, EmptyPass
<1>4. BlockTypes
  <2>1. gpu_table \in [Ids -> Nat] /\ cpu_table \in [Ids -> Nat]
    BY DEF Init
  <2>2. free_gpu \in Nat /\ free_cpu \in Nat
    BY CapacityAssumption DEF Init
  <2>3. GpuTotal <= NumGpuBlocks /\ CpuTotal <= NumCpuBlocks
    BY InitTotals, CapacityAssumption
  <2> QED BY <2>1, <2>2, <2>3 DEF BlockTypes
<1>5. BatchTypes
  <2>1. <<>> \in Seq(Scheduled) /\ <<>> \in Seq(Requests)
    OBVIOUS
  <2> QED BY <2>1 DEF Init, BatchTypes, EmptyOutputs
<1> QED BY <1>1, <1>2, <1>3, <1>4, <1>5 DEF Types, Init, Phases

(* What processing the outputs of a batch does to the sequences. *)
OutputsProcessed(stopped) ==
    /\ length' \in [Requests -> Nat]
    /\ \A r \in Requests : length'[r] = IF r \in Sampled THEN length[r] + 1 ELSE length[r]
    /\ computed' \in [Requests -> Nat]
    /\ \A r \in Requests : computed'[r] <= length[r]
    /\ \A r \in Requests : (~\E e \in Batch : e.id = r) => computed'[r] = computed[r]
    /\ \A r \in Requests : status[r] \notin Live => computed'[r] = computed[r]
    /\ \A r \in Requests :
            status[r] \in Live /\ (\E e \in Batch : e.id = r)
                => \E e \in Batch : e.id = r /\ computed'[r] = computed[r] + e.chunk
    /\ stage' \in [Requests -> {"Prefill", "Decode"}]
    /\ \A r \in Requests :
            stage'[r] # stage[r] =>
                /\ stage'[r] = "Decode" /\ computed'[r] = length[r]
                /\ status[r] \in Live /\ \E e \in Batch : e.id = r
    /\ \A r \in Requests :
            status[r] \in Live /\ (\E e \in Batch : e.id = r) /\ computed'[r] = length[r]
                => stage'[r] = "Decode"
    /\ status' \in [Requests -> Statuses]
    /\ \E ended \in SUBSET Sampled :
        /\ stopped \subseteq ended
        /\ \A r \in Sampled : LengthCapped(r, length[r] + 1) => r \in ended
        /\ \A r \in Requests : status'[r] = IF r \in ended THEN "Finished" ELSE status[r]
    /\ running' = Keep(running, {r \in Requests : status'[r] \in Live})
    /\ UNCHANGED <<prompt_len, err>>

LEMMA ProcessOutputsEffect ==
    ASSUME Types, NEW stopped \in SUBSET Sampled, ProcessOutputs(stopped)
    PROVE  /\ Sampled \subseteq Requests
           /\ \A e \in Batch : e \in Scheduled /\ e.id \in Requests /\ e.chunk \in Nat
           /\ \/ /\ UNCHANGED <<running, seqs>>
                 /\ \E e \in Batch : computed[e.id] + e.chunk > length[e.id]
              \/ OutputsProcessed(stopped)
<1> DEFINE computing == {e \in Batch : Computes(e)}
           grown(r) == IF r \in Sampled THEN length[r] + 1 ELSE length[r]
           tokens(r) == IF \E e \in computing : e.id = r
                        THEN UpdateNumComputedTokens(CHOOSE e \in computing : e.id = r)
                        ELSE computed[r]
           ended == stopped \cup {r \in Sampled : LengthCapped(r, grown(r))}
<1>1. \A e \in Batch : e \in Scheduled /\ e.id \in Requests /\ e.chunk \in Nat
  <2>1. outputs.scheduled \in Seq(Scheduled)
    BY DEF Types, BatchTypes
  <2>2. Batch \subseteq Scheduled
    BY <2>1, RangeOfList DEF Batch
  <2> QED BY <2>2 DEF Scheduled
<1>2. Sampled \subseteq Requests
  BY <1>1 DEF Sampled
<1>3. CASE \E e \in computing : tokens(e.id) > length[e.id]
  <2>1. UNCHANGED <<running, seqs>>
    BY <1>3 DEF ProcessOutputs
  <2>2. PICK e \in computing : tokens(e.id) > length[e.id]
    BY <1>3
  <2>3. PICK d \in computing : d = (CHOOSE c \in computing : c.id = e.id) /\ d.id = e.id
    OBVIOUS
  <2>4. tokens(e.id) = computed[d.id] + d.chunk /\ d \in Batch
    BY <2>3 DEF UpdateNumComputedTokens
  <2>5. computed[d.id] + d.chunk > length[d.id]
    <3> HIDE DEF tokens
    <3> QED BY <2>2, <2>3, <2>4
  <2> QED BY <1>1, <1>2, <2>1, <2>4, <2>5
<1>4. CASE ~\E e \in computing : tokens(e.id) > length[e.id]
  <2>1. /\ length' = [r \in Requests |-> grown(r)]
        /\ computed' = [r \in Requests |-> tokens(r)]
        /\ stage' = [r \in Requests |->
                        IF (\E e \in computing : e.id = r) /\ tokens(r) = length[r]
                        THEN "Decode" ELSE stage[r]]
        /\ status' = [r \in Requests |-> IF r \in ended THEN "Finished" ELSE status[r]]
        /\ running' = RemoveFinishedSequences(running, status')
        /\ UNCHANGED <<prompt_len, err>>
    BY <1>4 DEF ProcessOutputs
  <2>2. SeqTypes
    BY DEF Types
  <2>3. \A r \in Requests : grown(r) \in Nat
    BY <2>2 DEF SeqTypes
  <2>4. ASSUME NEW r \in Requests, \E e \in computing : e.id = r
        PROVE  /\ \E e \in Batch : e.id = r /\ tokens(r) = computed[r] + e.chunk
               /\ tokens(r) \in Nat /\ tokens(r) <= length[r]
    <3>1. PICK e \in computing : e = (CHOOSE d \in computing : d.id = r) /\ e.id = r
      BY <2>4
    <3>2. tokens(r) = computed[r] + e.chunk
      BY <2>4, <3>1 DEF UpdateNumComputedTokens
    <3>3. tokens(r) \in Nat
      BY <1>1, <2>2, <3>1, <3>2 DEF SeqTypes
    <3>3a. e \in Batch
      BY <3>1
    <3> HIDE DEF tokens, computing
    <3>4. ~(tokens(r) > length[r])
      BY <1>4, <3>1
    <3>5. length[r] \in Nat
      BY <2>2 DEF SeqTypes
    <3>6. tokens(r) <= length[r]
      BY <3>3, <3>4, <3>5
    <3> QED BY <3>1, <3>2, <3>3, <3>3a, <3>6
  <2>5. ASSUME NEW r \in Requests, ~\E e \in computing : e.id = r
        PROVE  tokens(r) = computed[r] /\ tokens(r) \in Nat /\ tokens(r) <= length[r]
    BY <2>2, <2>5 DEF SeqTypes
  <2>6. \A r \in Requests : tokens(r) \in Nat /\ tokens(r) <= length[r]
    BY <2>4, <2>5
  <2>7. \A e \in computing : status[e.id] \in Live /\ e \in Batch
    BY DEF Computes
  <2>8. \A e \in Batch : status[e.id] \in Live => e \in computing
    BY DEF Computes
  <2>9. \A r \in Requests : (~\E e \in Batch : e.id = r) => tokens(r) = computed[r]
    BY <2>5, <2>7
  <2>10. \A r \in Requests : status[r] \notin Live => tokens(r) = computed[r]
    BY <2>5, <2>7
  <2>11. \A r \in Requests : status[r] \in Live /\ (\E e \in Batch : e.id = r)
                => \E e \in Batch : e.id = r /\ tokens(r) = computed[r] + e.chunk
    BY <2>4, <2>8
  <2>12. \A r \in Requests : status[r] \in Live /\ (\E e \in Batch : e.id = r)
                => \E e \in computing : e.id = r
    BY <2>8
  <2>13. \A r \in Requests : computed'[r] = tokens(r) /\ length'[r] = grown(r)
    BY <2>1
  <2> HIDE DEF computing, tokens
  <2>14. length' \in [Requests -> Nat] /\ computed' \in [Requests -> Nat]
    BY <2>1, <2>3, <2>6
  <2>15. stage' \in [Requests -> {"Prefill", "Decode"}] /\ status' \in [Requests -> Statuses]
    <3>1. stage \in [Requests -> {"Prefill", "Decode"}] /\ status \in [Requests -> Statuses]
      BY <2>2 DEF SeqTypes
    <3>2. "Finished" \in Statuses
      BY DEF Statuses
    <3> QED BY <2>1, <3>1, <3>2
  <2>16a. \A r \in Requests : stage'[r] # stage[r] =>
            stage'[r] = "Decode" /\ computed'[r] = length[r] /\ \E e \in computing : e.id = r
    BY <2>1, <2>13
  <2>16. \A r \in Requests : stage'[r] # stage[r] =>
            /\ stage'[r] = "Decode" /\ computed'[r] = length[r]
            /\ status[r] \in Live /\ \E e \in Batch : e.id = r
    BY <2>7, <2>16a
  <2>17. \A r \in Requests : (\E e \in computing : e.id = r) /\ computed'[r] = length[r]
                => stage'[r] = "Decode"
    BY <2>1, <2>13
  <2>18. \A r \in Requests : status'[r] = IF r \in ended THEN "Finished" ELSE status[r]
    BY <2>1
  <2>19. /\ ended \in SUBSET Sampled /\ stopped \subseteq ended
         /\ \A r \in Sampled : LengthCapped(r, length[r] + 1) => r \in ended
    OBVIOUS
  <2>20. running' = Keep(running, {r \in Requests : status'[r] \in Live})
    BY <2>1 DEF RemoveFinishedSequences
  <2>21. \A r \in Requests : length'[r] = IF r \in Sampled THEN length[r] + 1 ELSE length[r]
    BY <2>13
  <2> HIDE DEF ended, grown
  <2>22. \A r \in Requests :
            status[r] \in Live /\ (\E e \in Batch : e.id = r) /\ computed'[r] = length[r]
                => stage'[r] = "Decode"
    BY <2>12, <2>17
  <2>23. \E en \in SUBSET Sampled :
            /\ stopped \subseteq en
            /\ \A r \in Sampled : LengthCapped(r, length[r] + 1) => r \in en
            /\ \A r \in Requests : status'[r] = IF r \in en THEN "Finished" ELSE status[r]
    BY <2>18, <2>19
  <2>24. /\ \A r \in Requests : computed'[r] <= length[r]
         /\ \A r \in Requests : (~\E e \in Batch : e.id = r) => computed'[r] = computed[r]
         /\ \A r \in Requests : status[r] \notin Live => computed'[r] = computed[r]
         /\ \A r \in Requests :
                status[r] \in Live /\ (\E e \in Batch : e.id = r)
                    => \E e \in Batch : e.id = r /\ computed'[r] = computed[r] + e.chunk
    BY <2>6, <2>9, <2>10, <2>11, <2>13
  <2>25. OutputsProcessed(stopped)
    BY <2>1, <2>14, <2>15, <2>16, <2>20, <2>21, <2>22, <2>23, <2>24 DEF OutputsProcessed
  <2> QED BY <1>1, <1>2, <2>25
<1> QED BY <1>3, <1>4

TableFacts == \A r \in Requests : gpu_table[SequenceId[r]] \in Nat /\ cpu_table[SequenceId[r]] \in Nat

LEMMA TablesAreNumbers == ASSUME BlockTypes PROVE TableFacts
BY IdsFinite DEF BlockTypes, TableFacts

LEMMA AfterTypes == AfterPrefills \in Phases /\ AfterRunning \in Phases /\ AfterSwapped \in Phases
BY DEF AfterPrefills, AfterRunning, AfterSwapped, Phases

(* A charge of GetNumTokens never overdraws the token budget of a chunked pass. *)
LEMMA ChargedWithin ==
    ASSUME SeqTypes, PassTypes, NEW r \in Requests, NEW st, pass' \in PassType,
           TokensCharged(pass', pass, r, GetNumTokens(r, st))
    PROVE  PassTypes'
<1>1. CASE ~Chunked
  BY <1>1 DEF PassTypes
<1>2. CASE Chunked
  <2>1. pass.tokens + GetNumTokens(r, st) <= MaxBatchedTokens /\ pass.tokens <= MaxBatchedTokens
    BY <1>2, NumTokensType DEF PassTypes
  <2> QED BY <2>1 DEF PassTypes, TokensCharged
<1> QED BY <1>1, <1>2

LEMMA TypesStart ==
    ASSUME Types, StartPass, UNCHANGED <<queues, seqs, blocks, batch>>
    PROVE  Types'
<1>1. pass' \in PassType /\ pass'.tokens = 0 /\ phase' \in Phases
  <2>1. SeqTypes /\ QueueTypes
    BY DEF Types
  <2>2. /\ pass' \in PassType /\ SameTokens(pass', EmptyPass)
        /\ phase' = IF ~Chunked /\ swapped = <<>> THEN "prefills" ELSE "running"
    BY <2>1, StartPassEffect
  <2>3. pass'.tokens = 0
    BY <2>2 DEF SameTokens, EmptyPass
  <2> QED BY <2>2, <2>3 DEF Phases
<1>2. PassTypes'
  BY <1>1, ConfigAssumption DEF PassTypes
<1> QED BY <1>1, <1>2 DEF Types, SeqTypes, QueueTypes, BlockTypes, BatchTypes,
                          GpuTotal, CpuTotal, queues, seqs, blocks, batch

LEMMA TypesAdd ==
    ASSUME Types, NEW r \in Requests, AddSequenceGroup(r)
    PROVE  Types'
<1>1. PICK n \in Nat : /\ prompt_len' = [prompt_len EXCEPT ![r] = n]
                       /\ length' = [length EXCEPT ![r] = n]
                       /\ n \in PromptLens
  BY RequestsAssumption DEF AddSequenceGroup
<1>2. /\ status' = [status EXCEPT ![r] = "Waiting"] /\ status[r] = "Unborn"
      /\ waiting' = Append(waiting, r)
      /\ UNCHANGED <<running, swapped, computed, stage, blocks, phase, pass, batch, err>>
  BY DEF AddSequenceGroup
<1>3. QueueTypes'
  BY <1>2, AppendList DEF QueueTypes, Types
<1>4. /\ status' \in [Requests -> Statuses] /\ prompt_len' \in [Requests -> Nat]
      /\ length' \in [Requests -> Nat]
  BY <1>1, <1>2 DEF Types, SeqTypes, Statuses, Live
<1>5. /\ computed' = computed /\ stage' = stage
      /\ PassTypes' /\ BlockTypes' /\ BatchTypes' /\ phase' \in Phases
  BY <1>2 DEF Types, PassTypes, BlockTypes, GpuTotal, CpuTotal, BatchTypes, blocks, batch
<1>6. SeqTypes'
  <2>1. SeqTypes
    BY DEF Types
  <2>2. ASSUME NEW q \in Requests
        PROVE  /\ computed'[q] <= length'[q]
               /\ status'[q] = "Unborn" => computed'[q] = 0 /\ stage'[q] = "Prefill"
    <3>1. CASE q = r
      BY <1>1, <1>2, <1>5, <2>1, <3>1 DEF SeqTypes
    <3>2. CASE q # r
      BY <1>1, <1>2, <1>5, <2>1, <3>2 DEF SeqTypes
    <3> QED BY <3>1, <3>2
  <2> QED BY <1>4, <1>5, <2>1, <2>2 DEF SeqTypes
<1> QED BY <1>3, <1>5, <1>6 DEF Types

LEMMA TypesProcess ==
    ASSUME Types, NEW stopped \in SUBSET Sampled, ProcessOutputs(stopped)
    PROVE  Types'
<1>1. /\ in_flight' = FALSE /\ UNCHANGED <<waiting, swapped, blocks, phase, pass, outputs>>
  BY DEF ProcessOutputs
<1>2. PassTypes' /\ BlockTypes' /\ BatchTypes' /\ phase' \in Phases
  BY <1>1 DEF Types, PassTypes, BlockTypes, GpuTotal, CpuTotal, BatchTypes, blocks
<1>3. SeqTypes /\ QueueTypes
  BY DEF Types
<1>4. CASE UNCHANGED <<running, seqs>>
  BY <1>1, <1>2, <1>3, <1>4 DEF Types, SeqTypes, QueueTypes, seqs
<1>5. CASE OutputsProcessed(stopped)
  <2>1. QueueTypes'
    BY <1>1, <1>3, <1>5, KeepRange DEF QueueTypes, OutputsProcessed
  <2>2. /\ status' \in [Requests -> Statuses] /\ prompt_len' = prompt_len
        /\ length' \in [Requests -> Nat] /\ computed' \in [Requests -> Nat]
        /\ stage' \in [Requests -> {"Prefill", "Decode"}]
    BY <1>5 DEF OutputsProcessed
  <2>3. ASSUME NEW r \in Requests PROVE computed'[r] <= length'[r]
    <3>1. /\ computed'[r] \in Nat /\ length[r] \in Nat /\ computed'[r] <= length[r]
          /\ length'[r] = length[r] + 1 \/ length'[r] = length[r]
      BY <1>3, <1>5 DEF OutputsProcessed, SeqTypes
    <3> QED BY <3>1
  <2>4. ASSUME NEW r \in Requests, status'[r] = "Unborn"
        PROVE  computed'[r] = 0 /\ stage'[r] = "Prefill"
    <3>1. status[r] = "Unborn"
      BY <1>5, <2>4 DEF OutputsProcessed
    <3>2. computed'[r] = computed[r] /\ computed[r] = 0 /\ stage[r] = "Prefill"
      BY <1>3, <1>5, <3>1 DEF OutputsProcessed, SeqTypes, Live
    <3>3. stage'[r] = stage[r]
      BY <1>5, <3>1 DEF OutputsProcessed, Live
    <3> QED BY <3>2, <3>3
  <2>5. SeqTypes'
    BY <1>3, <2>2, <2>3, <2>4 DEF SeqTypes
  <2> QED BY <1>2, <2>1, <2>5 DEF Types
<1> QED BY <1>4, <1>5, ProcessOutputsEffect

LEMMA SameBlocks == ASSUME BlockTypes, UNCHANGED blocks PROVE BlockTypes' /\ GpuTotal' = GpuTotal /\ CpuTotal' = CpuTotal
BY DEF BlockTypes, GpuTotal, CpuTotal, blocks

LEMMA SameBatch == ASSUME BatchTypes, UNCHANGED batch PROVE BatchTypes'
BY DEF BatchTypes, batch

LEMMA SameQueueTypes == ASSUME QueueTypes, UNCHANGED queues PROVE QueueTypes'
BY DEF QueueTypes, queues

LEMMA SameSeqTypes == ASSUME SeqTypes, UNCHANGED seqs PROVE SeqTypes'
BY DEF SeqTypes, seqs

LEMMA TypesPassStep == ASSUME Types, PassStep PROVE Types'
<1> USE DEF Types
<1>0. SeqTypes /\ QueueTypes /\ PassTypes /\ BlockTypes /\ BatchTypes /\ phase \in Phases
  OBVIOUS
<1>a. /\ Live \cup {"FinishedIgnored"} \subseteq Statuses \ {"Unborn"}
      /\ "FinishedIgnored" \in Statuses \ {"Unborn"} /\ "Running" \in Statuses \ {"Unborn"}
      /\ "Waiting" \in Statuses \ {"Unborn"} /\ "Swapped" \in Statuses \ {"Unborn"}
  BY DEF Statuses, Live
<1>b. TableFacts
  BY TablesAreNumbers
<1> USE <1>0
<1>1. CASE StopPrefills
  BY <1>1, AfterTypes, SameBlocks, SameBatch, SameQueueTypes, SameSeqTypes DEF StopPrefills, PassTypes
<1>2. CASE StopRunning
  BY <1>2, AfterTypes, SameBlocks, SameBatch, SameQueueTypes, SameSeqTypes DEF StopRunning, PassTypes
<1>3. CASE StopSwapped
  BY <1>3, AfterTypes, SameBlocks, SameBatch, SameQueueTypes, SameSeqTypes DEF StopSwapped, PassTypes
<1>4. CASE PassFails
  BY <1>4, SameBlocks, SameBatch, SameQueueTypes, SameSeqTypes DEF PassFails, PassTypes
<1>5. CASE PrefillIgnored
  <2>1. PICK r \in Requests : /\ status' = [status EXCEPT ![r] = "FinishedIgnored"]
                              /\ pass' \in PassType /\ SameTokens(pass', pass)
    BY <1>5, PrefillIgnoredEffect
  <2>2. UNCHANGED <<queues, prompt_len, length, computed, stage, blocks, phase, batch>>
    BY <1>5 DEF PrefillIgnored
  <2>3. SeqTypes'
    BY <1>a, <2>1, <2>2, StatusTypes
  <2>4. PassTypes'
    BY <2>1 DEF PassTypes, SameTokens
  <2> QED BY <2>2, <2>3, <2>4, SameBlocks, SameBatch, SameQueueTypes
<1>6. CASE SwappedIgnored
  <2>1. PICK r \in Requests : /\ status' = [status EXCEPT ![r] = "FinishedIgnored"]
                              /\ pass' \in PassType /\ SameTokens(pass', pass)
    BY <1>6, SwappedIgnoredEffect
  <2>2. UNCHANGED <<queues, prompt_len, length, computed, stage, blocks, phase, batch>>
    BY <1>6 DEF SwappedIgnored
  <2>3. SeqTypes'
    BY <1>a, <2>1, <2>2, StatusTypes
  <2>4. PassTypes'
    BY <2>1 DEF PassTypes, SameTokens
  <2> QED BY <2>2, <2>3, <2>4, SameBlocks, SameBatch, SameQueueTypes
<1>7. CASE PrefillScheduled
  <2>1. PICK r \in Requests : /\ r = Head(pass.waiting)
                              /\ Allocate(r) /\ status' = [status EXCEPT ![r] = "Running"]
                              /\ pass' \in PassType
                              /\ TokensCharged(pass', pass, r, GetNumTokens(r, "Waiting"))
    BY <1>7, PrefillScheduledEffect
  <2>2. UNCHANGED <<queues, prompt_len, length, computed, stage, phase, batch>>
    BY <1>7 DEF PrefillScheduled
  <2>3. SeqTypes'
    BY <1>a, <2>1, <2>2, StatusTypes
  <2>4. PassTypes'
    BY <2>1, ChargedWithin
  <2>5. LogicalBlocks(r) <= free_gpu
    BY <1>7, <2>1, PrefillRun DEF PrefillScheduled
  <2>6. BlockTypes'
    BY <2>1, <2>5, LogicalBlocksType, AllocateBlocks
  <2> QED BY <2>2, <2>3, <2>4, <2>6, SameBatch, SameQueueTypes
<1>8. CASE RunningScheduled
  <2>1. PICK r \in Requests : /\ r = Head(pass.running) /\ AppendSlots(r)
                              /\ pass' \in PassType
                              /\ TokensCharged(pass', pass, r, GetNumTokens(r, "Running"))
    BY <1>8, RunningScheduledEffect
  <2>2. UNCHANGED <<queues, seqs, phase, batch>>
    BY <1>8 DEF RunningScheduled
  <2>3. SeqTypes'
    BY <2>2, SameSeqTypes
  <2>4. PassTypes'
    BY <2>1, ChargedWithin
  <2>5. free_gpu >= 1
    BY <1>8, <2>1, RunningRun DEF RunningScheduled, CanAppendSlots
  <2>6. BlockTypes'
    BY <2>1, <2>5, AppendBlocks
  <2> QED BY <2>2, <2>3, <2>4, <2>6, SameBatch, SameQueueTypes
<1>9. CASE SwappedScheduled
  <2>0. pass.swapped # <<>> /\ pass.swapped \in Seq(Requests)
    BY <1>9, SwappedRun DEF SwappedScheduled, PassTypes, PassType
  <2>0a. cpu_table[SequenceId[Head(pass.swapped)]] \in Nat
    BY <1>b, <2>0, HeadTail DEF TableFacts
  <2>1. PICK r \in Requests : /\ r = Head(pass.swapped)
                              /\ SwapInAndAppend(r) /\ status' = [status EXCEPT ![r] = "Running"]
                              /\ pass' \in PassType
                              /\ TokensCharged(pass', pass, r, GetNumTokens(r, "Swapped"))
    BY <1>9, <2>0a, SwappedScheduledEffect
  <2>2. UNCHANGED <<queues, prompt_len, length, computed, stage, phase, batch>>
    BY <1>9 DEF SwappedScheduled
  <2>3. SeqTypes'
    BY <1>a, <2>1, <2>2, StatusTypes
  <2>4. PassTypes'
    BY <2>1, ChargedWithin
  <2>5. TableLen(r) + 1 <= free_gpu
    BY <1>9, <2>1, SwappedRun DEF SwappedScheduled
  <2>6. BlockTypes'
    BY <2>1, <2>5, SwapInBlocks
  <2> QED BY <2>2, <2>3, <2>4, <2>6, SameBatch, SameQueueTypes
<1>10. CASE Preempt
  <2>0. \A v \in Requests : gpu_table[SequenceId[v]] \in Nat
    BY <1>b DEF TableFacts
  <2>1. PICK r, v \in Requests, n \in Nat :
             /\ Recomputed(v) \/ SwappedOut(v)
             /\ pass' \in PassType
             /\ pass'.tokens = IF r \in pass.token_ids THEN pass.tokens - n ELSE pass.tokens
    BY <1>10, <2>0, PreemptEffect
  <2>2. UNCHANGED <<queues, prompt_len, length, phase, batch>>
    BY <1>10 DEF Preempt
  <2>3. PassTypes'
    <3>1. pass.tokens \in Int /\ MaxBatchedTokens \in Nat
      BY ConfigAssumption DEF PassTypes, PassType
    <3> QED BY <2>1, <3>1 DEF PassTypes
  <2>4. CASE Recomputed(v)
    <3>1. /\ status' = [status EXCEPT ![v] = "Waiting"]
          /\ computed' = [computed EXCEPT ![v] = 0]
          /\ stage' = [stage EXCEPT ![v] = "Prefill"] /\ FreeSequence(v)
      BY <2>4 DEF Recomputed
    <3>2. status' \in [Requests -> Statuses] /\ computed' \in [Requests -> Nat]
          /\ stage' \in [Requests -> {"Prefill", "Decode"}]
      BY <1>a, <3>1 DEF SeqTypes
    <3>3. ASSUME NEW q \in Requests
          PROVE  /\ computed'[q] <= length[q]
                 /\ status'[q] = "Unborn" => computed'[q] = 0 /\ stage'[q] = "Prefill"
      <4>1. CASE q = v
        BY <3>1, <4>1 DEF SeqTypes
      <4>2. CASE q # v
        BY <3>1, <4>2 DEF SeqTypes
      <4> QED BY <4>1, <4>2
    <3>4. SeqTypes'
      BY <2>2, <3>2, <3>3 DEF SeqTypes
    <3>5. BlockTypes'
      BY <3>1, FreeBlocks
    <3> QED BY <2>2, <2>3, <3>4, <3>5, SameBatch, SameQueueTypes
  <2>5. CASE SwappedOut(v)
    <3>1. /\ status' = [status EXCEPT ![v] = "Swapped"] /\ UNCHANGED <<computed, stage>>
          /\ SwapOut(v) /\ CanSwapOut(v)
      BY <2>5 DEF SwappedOut
    <3>2. SeqTypes'
      BY <1>a, <2>2, <3>1, StatusTypes
    <3>3. BlockTypes'
      BY <3>1, SwapOutBlocks
    <3> QED BY <2>2, <2>3, <3>2, <3>3, SameBatch, SameQueueTypes
  <2> QED BY <2>1, <2>4, <2>5
<1>11. CASE Commit
  <2>1. UNCHANGED <<seqs, blocks>>
    BY <1>11 DEF Commit
  <2>2. pass \in PassType
    BY DEF PassTypes
  <2>3. QueueTypes'
    <3>1. \/ waiting' = NewWaiting(pass) /\ running' = NewRunning(pass) /\ swapped' = NewSwapped(pass)
          \/ UNCHANGED queues
      BY <1>11 DEF Commit
    <3> QED BY <2>2, <3>1, OutputsType, SameQueueTypes DEF QueueTypes
  <2>4. BatchTypes' /\ PassTypes' /\ phase' \in Phases
    <3>1. CASE err' = "none"
      <4>1. /\ outputs' = NewOutputs(pass) /\ in_flight' = ~OutputsEmpty(outputs')
            /\ phase' = "idle" /\ pass' = EmptyPass
        BY <1>11, <3>1 DEF Commit
      <4>2. BatchTypes'
        BY <2>2, <4>1, OutputsType DEF BatchTypes
      <4>3. PassTypes'
        BY <4>1, EmptyPassType, ConfigAssumption DEF PassTypes, EmptyPass
      <4> QED BY <4>1, <4>2, <4>3 DEF Phases
    <3>2. CASE err' # "none"
      <4>1. UNCHANGED <<batch, phase, pass>>
        BY <1>11, <3>2 DEF Commit
      <4> QED BY <4>1, SameBatch DEF PassTypes
    <3> QED BY <3>1, <3>2
  <2> QED BY <2>1, <2>3, <2>4, SameSeqTypes, SameBlocks
<1> QED BY <1>1, <1>2, <1>3, <1>4, <1>5, <1>6, <1>7, <1>8, <1>9, <1>10, <1>11 DEF PassStep

LEMMA TypesNext == ASSUME Types, Next \/ Dropped PROVE Types'
<1>1. CASE \E r \in Requests : AddSequenceGroup(r)
  BY <1>1, TypesAdd
<1>2. CASE Schedule
  BY <1>2, TypesStart DEF Schedule
<1>3. CASE PassStep
  BY <1>3, TypesPassStep
<1>4. CASE \E stopped \in SUBSET Sampled : ProcessOutputs(stopped)
  BY <1>4, TypesProcess
<1>5. CASE Dropped
  <2>1. BatchTypes'
    BY <1>5 DEF Dropped, Types, BatchTypes
  <2> QED BY <1>5, <2>1, SameBlocks, SameQueueTypes, SameSeqTypes DEF Dropped, Types, PassTypes
<1> QED BY <1>1, <1>2, <1>3, <1>4, <1>5 DEF Next

-----------------------------------------------------------------------------
(* Where the requests are *)

(* An entry is added to a list of the batch. *)
LEMMA EntryAdded ==
    ASSUME NEW L \in Seq(Scheduled), NEW e \in Scheduled, NEW r \in Requests, e.id = r
    PROVE  /\ Range(RequestsOf(Append(L, e))) = Range(RequestsOf(L)) \cup {r}
           /\ IsInjective(RequestsOf(L)) /\ r \notin Range(RequestsOf(L))
                => IsInjective(RequestsOf(Append(L, e)))
<1>1. RequestsOf(Append(L, e)) = Append(RequestsOf(L), r)
  BY RequestsOfAppend
<1>2. RequestsOf(L) \in Seq(Requests)
  BY RequestsOfList
<1> QED BY <1>1, <1>2, AppendList

(* The group at the front leaves a queue; the group at the back is preempted. *)
LEMMA FrontLeaves ==
    ASSUME NEW q \in Seq(Requests), q # <<>>, IsInjective(q)
    PROVE  /\ Head(q) \in Range(q) /\ Range(Tail(q)) = Range(q) \ {Head(q)} /\ IsInjective(Tail(q))
BY HeadTail

LEMMA VictimLeaves ==
    ASSUME NEW q \in Seq(Requests), q # <<>>, IsInjective(q)
    PROVE  /\ Last(q) \in Range(q)
           /\ Range(Keep(q, Requests \ {Last(q)})) = Range(q) \ {Last(q)}
           /\ IsInjective(Keep(q, Requests \ {Last(q)}))
<1>1. Last(q) \in Range(q) /\ Range(q) \subseteq Requests
  BY LastOf, RangeOfList
<1>2. Range(Keep(q, Requests \ {Last(q)})) = Range(q) \cap (Requests \ {Last(q)})
  BY KeepRange
<1>3. IsInjective(Keep(q, Requests \ {Last(q)}))
  BY KeepInjective
<1> QED BY <1>1, <1>2, <1>3

Apart(A, B) == \A x \in A : x \notin B

SixApart(A, B, C, D, E, F) ==
    /\ Apart(A, B) /\ Apart(A, C) /\ Apart(A, D) /\ Apart(A, E) /\ Apart(A, F)
    /\ Apart(B, C) /\ Apart(B, D) /\ Apart(B, E) /\ Apart(B, F)
    /\ Apart(C, D) /\ Apart(C, E) /\ Apart(C, F)
    /\ Apart(D, E) /\ Apart(D, F) /\ Apart(E, F)

LEMMA SixJoin ==
    ASSUME NEW A, NEW B, NEW C, NEW D, NEW E, NEW F, SixApart(A, B, C, D, E, F),
           NEW x, x \notin A, x \notin B, x \notin C, x \notin D, x \notin E, x \notin F
    PROVE  /\ SixApart(A, B \cup {x}, C, D, E, F) /\ SixApart(A, B, C \cup {x}, D, E, F)
           /\ SixApart(A, B, C, D \cup {x}, E, F) /\ SixApart(A, B, C, D, E \cup {x}, F)
           /\ SixApart(A, B, C, D, E, F \cup {x})
<1>1. SixApart(A, B \cup {x}, C, D, E, F)
  BY DEF SixApart, Apart
<1>2. SixApart(A, B, C \cup {x}, D, E, F)
  BY DEF SixApart, Apart
<1>3. SixApart(A, B, C, D \cup {x}, E, F)
  BY DEF SixApart, Apart
<1>4. SixApart(A, B, C, D, E \cup {x}, F)
  BY DEF SixApart, Apart
<1>5. SixApart(A, B, C, D, E, F \cup {x})
  BY DEF SixApart, Apart
<1> QED BY <1>1, <1>2, <1>3, <1>4, <1>5

LEMMA SixLeave ==
    ASSUME NEW A, NEW B, NEW C, NEW D, NEW E, NEW F, SixApart(A, B, C, D, E, F), NEW x \in A
    PROVE  /\ SixApart(A \ {x}, B, C, D, E, F)
           /\ x \notin B /\ x \notin C /\ x \notin D /\ x \notin E /\ x \notin F
<1>1. SixApart(A \ {x}, B, C, D, E, F)
  BY DEF SixApart, Apart
<1>2. x \notin B /\ x \notin C /\ x \notin D /\ x \notin E /\ x \notin F
  BY DEF SixApart, Apart
<1> QED BY <1>1, <1>2

(* The requests of the lists of a pass *)
Prefilled(p) == Range(RequestsOf(p.prefills))
Decoding(p) == Range(RequestsOf(p.run_decodes))
Continued(p) == Range(RequestsOf(p.run_prefills))
BroughtIn(p) == Range(RequestsOf(p.in_decodes))
Resumed(p) == Range(RequestsOf(p.in_prefills))

NoDuplicates(p) ==
    /\ IsInjective(p.waiting) /\ IsInjective(p.running) /\ IsInjective(p.swapped)
    /\ IsInjective(p.preempted) /\ IsInjective(p.swapped_out)
    /\ IsInjective(RequestsOf(p.prefills))
    /\ IsInjective(RequestsOf(p.run_decodes)) /\ IsInjective(RequestsOf(p.run_prefills))
    /\ IsInjective(RequestsOf(p.in_decodes)) /\ IsInjective(RequestsOf(p.in_prefills))

ListsApart(p) ==
    /\ Apart(Range(p.waiting), Range(p.preempted))
    /\ Apart(Range(p.swapped), Range(p.swapped_out))
    /\ SixApart(Range(p.running), Prefilled(p), Decoding(p), Continued(p), BroughtIn(p), Resumed(p))

StatusOf(p, st) ==
    /\ \A r \in Range(p.waiting) : st[r] = "Waiting"
    /\ \A r \in Range(p.preempted) : st[r] = "Waiting"
    /\ \A r \in Range(p.swapped) : st[r] = "Swapped"
    /\ \A r \in Range(p.swapped_out) : st[r] = "Swapped"
    /\ \A r \in Range(p.running) : st[r] = "Running"
    /\ \A r \in Prefilled(p) : st[r] = "Running"
    /\ \A r \in Decoding(p) : st[r] = "Running"
    /\ \A r \in Continued(p) : st[r] = "Running"
    /\ \A r \in BroughtIn(p) : st[r] = "Running"
    /\ \A r \in Resumed(p) : st[r] = "Running"

NothingLost(p, st) ==
    \A r \in Requests :
        /\ st[r] = "Waiting" => r \in Range(p.waiting) \cup Range(p.preempted)
        /\ st[r] = "Swapped" => r \in Range(p.swapped) \cup Range(p.swapped_out)
        /\ st[r] = "Running" /\ ~Chunked =>
              r \in Range(p.running) \cup Prefilled(p) \cup Decoding(p) \cup Continued(p)
                      \cup BroughtIn(p) \cup Resumed(p)

(* The lists of a pass: each request is in one list, the list of its status. *)
PassFiled(p, st) == NoDuplicates(p) /\ ListsApart(p) /\ StatusOf(p, st) /\ NothingLost(p, st)

(* Between passes: the same of the queues, and the batch in flight runs, but for
   what was aborted since.  (The chunked policy drops the prefills it continued
   from the running queue.) *)
QueuesFiled ==
    /\ IsInjective(waiting) /\ IsInjective(running) /\ IsInjective(swapped)
    /\ \A r \in Requests : r \in Range(waiting) <=> status[r] = "Waiting"
    /\ \A r \in Requests : r \in Range(swapped) <=> status[r] = "Swapped"
    /\ \A r \in Range(running) : status[r] = "Running"
    /\ \A r \in Requests : status[r] = "Running" /\ ~Chunked => r \in Range(running)

BatchFiled ==
    in_flight => /\ IsInjective(RequestsOf(outputs.scheduled))
                 /\ \A e \in Batch : status[e.id] \in {"Running", "FinishedAborted"}

NoneFinished ==
    \A r \in Range(waiting) \cup Range(running) \cup Range(swapped) : status[r] # "Finished"

Filed ==
    /\ phase = "idle" => QueuesFiled
    /\ phase # "idle" => PassFiled(pass, status) /\ ~in_flight
    /\ BatchFiled
    /\ NoneFinished

LEMMA FiledInit == Init => Filed
<1> SUFFICES ASSUME Init PROVE Filed
  OBVIOUS
<1>1. QueuesFiled
  BY EmptyList DEF Init, QueuesFiled
<1>2. NoneFinished
  BY EmptyList DEF Init, NoneFinished
<1> QED BY <1>1, <1>2 DEF Init, Filed, BatchFiled

(* The requests of the lists of a pass are requests. *)
LEMMA PassLists ==
    ASSUME NEW p \in PassType
    PROVE  /\ p.waiting \in Seq(Requests) /\ p.running \in Seq(Requests) /\ p.swapped \in Seq(Requests)
           /\ p.preempted \in Seq(Requests) /\ p.swapped_out \in Seq(Requests)
           /\ p.prefills \in Seq(Scheduled) /\ p.run_decodes \in Seq(Scheduled)
           /\ p.run_prefills \in Seq(Scheduled) /\ p.in_decodes \in Seq(Scheduled)
           /\ p.in_prefills \in Seq(Scheduled)
           /\ p.ignored \in Seq(Requests) /\ p.infeasible \in Seq(Requests)
BY DEF PassType

PassRequests(p) ==
    /\ Range(p.waiting) \subseteq Requests /\ Range(p.running) \subseteq Requests
    /\ Range(p.swapped) \subseteq Requests
    /\ Range(p.preempted) \subseteq Requests /\ Range(p.swapped_out) \subseteq Requests
    /\ Prefilled(p) \subseteq Requests /\ Decoding(p) \subseteq Requests
    /\ Continued(p) \subseteq Requests /\ BroughtIn(p) \subseteq Requests
    /\ Resumed(p) \subseteq Requests

LEMMA PassMembers == ASSUME NEW p \in PassType PROVE PassRequests(p)
BY PassLists, RangeOfList, RequestsOfRange
   DEF PassRequests, Prefilled, Decoding, Continued, BroughtIn, Resumed

LEMMA FiledStart ==
    ASSUME Types, QueuesFiled, StartPass
    PROVE  PassFiled(pass', status) /\ phase' # "idle"
<1>1. /\ pass' \in PassType
      /\ phase' = IF ~Chunked /\ swapped = <<>> THEN "prefills" ELSE "running"
      /\ pass'.waiting = waiting
      /\ pass'.running \in SortByPriority(running) /\ pass'.swapped \in SortByPriority(swapped)
      /\ SameChosen(pass', EmptyPass) /\ SameDropped(pass', EmptyPass)
  BY StartPassEffect DEF Types
<1>2. waiting \in Seq(Requests) /\ running \in Seq(Requests) /\ swapped \in Seq(Requests)
  BY DEF Types, QueueTypes
<1>3. /\ Range(pass'.running) = Range(running) /\ IsInjective(pass'.running)
      /\ Range(pass'.swapped) = Range(swapped) /\ IsInjective(pass'.swapped)
  BY <1>1, <1>2, SortOf DEF QueuesFiled
<1>4. RequestsOf(<<>>) = <<>> /\ Range(<<>>) = {} /\ IsInjective(<<>>)
  <2>1. <<>> \in Seq(Scheduled)
    OBVIOUS
  <2> QED BY <2>1, RequestsOfList, EmptyList
<1>5. /\ pass'.prefills = <<>> /\ pass'.run_decodes = <<>> /\ pass'.run_prefills = <<>>
      /\ pass'.in_decodes = <<>> /\ pass'.in_prefills = <<>>
      /\ pass'.preempted = <<>> /\ pass'.swapped_out = <<>>
  BY <1>1 DEF SameChosen, SameDropped, EmptyPass
<1>6. /\ Prefilled(pass') = {} /\ Decoding(pass') = {} /\ Continued(pass') = {}
      /\ BroughtIn(pass') = {} /\ Resumed(pass') = {}
      /\ Range(pass'.preempted) = {} /\ Range(pass'.swapped_out) = {}
  BY <1>4, <1>5 DEF Prefilled, Decoding, Continued, BroughtIn, Resumed
<1>7. NoDuplicates(pass')
  BY <1>1, <1>3, <1>4, <1>5 DEF NoDuplicates, QueuesFiled
<1>8. ListsApart(pass')
  BY <1>6 DEF ListsApart, SixApart, Apart
<1>9. StatusOf(pass', status)
  <2>1. Range(waiting) \subseteq Requests /\ Range(swapped) \subseteq Requests
    BY <1>2, RangeOfList
  <2> QED BY <1>1, <1>3, <1>6, <2>1 DEF StatusOf, QueuesFiled
<1>10. NothingLost(pass', status)
  BY <1>1, <1>3, <1>6 DEF NothingLost, QueuesFiled
<1> QED BY <1>1, <1>7, <1>8, <1>9, <1>10 DEF PassFiled

LEMMA FiledPrefillIgnored ==
    ASSUME Types, PassFiled(pass, status), PrefillIgnored
    PROVE  PassFiled(pass', status')
<1>0. SeqTypes /\ PassTypes /\ pass \in PassType /\ status \in [Requests -> Statuses]
  BY DEF Types, PassTypes, SeqTypes
<1>1. PICK r \in Requests :
             /\ r = Head(pass.waiting) /\ pass.waiting # <<>> /\ status[r] = "Waiting"
             /\ status' = [status EXCEPT ![r] = "FinishedIgnored"]
             /\ pass' \in PassType
             /\ pass'.waiting = Tail(pass.waiting)
             /\ pass'.running = pass.running /\ pass'.swapped = pass.swapped
             /\ pass'.preempted = pass.preempted /\ pass'.swapped_out = pass.swapped_out
             /\ SameChosen(pass', pass)
  BY <1>0, PrefillIgnoredEffect
<1>2. pass.waiting \in Seq(Requests) /\ IsInjective(pass.waiting)
  BY <1>0, PassLists DEF PassFiled, NoDuplicates
<1>3. /\ Range(pass'.waiting) = Range(pass.waiting) \ {r} /\ IsInjective(pass'.waiting)
      /\ r \in Range(pass.waiting)
  BY <1>1, <1>2, FrontLeaves
<1>4. /\ Prefilled(pass') = Prefilled(pass) /\ Decoding(pass') = Decoding(pass)
      /\ Continued(pass') = Continued(pass) /\ BroughtIn(pass') = BroughtIn(pass)
      /\ Resumed(pass') = Resumed(pass)
  BY <1>1 DEF SameChosen, Prefilled, Decoding, Continued, BroughtIn, Resumed
<1>5. NoDuplicates(pass')
  BY <1>1, <1>3 DEF NoDuplicates, PassFiled, SameChosen
<1>6. ListsApart(pass')
  BY <1>1, <1>3, <1>4 DEF ListsApart, PassFiled, Apart
<1>7. /\ \A q \in Requests : q # r => status'[q] = status[q]
      /\ status'[r] = "FinishedIgnored"
  BY <1>0, <1>1
<1>8. StatusOf(pass', status')
  <2>1. r \notin Range(pass.preempted)
    BY <1>3 DEF PassFiled, ListsApart, Apart
  <2>2. PassRequests(pass)
    BY <1>0, PassMembers
  <2> QED BY <1>1, <1>3, <1>4, <1>7, <2>1, <2>2 DEF PassFiled, StatusOf, PassRequests
<1>9. NothingLost(pass', status')
  BY <1>1, <1>3, <1>4, <1>7 DEF PassFiled, NothingLost
<1> QED BY <1>5, <1>6, <1>8, <1>9 DEF PassFiled

LEMMA FiledSwappedIgnored ==
    ASSUME Types, PassFiled(pass, status), SwappedIgnored
    PROVE  PassFiled(pass', status')
<1>0. SeqTypes /\ PassTypes /\ pass \in PassType /\ status \in [Requests -> Statuses]
  BY DEF Types, PassTypes, SeqTypes
<1>1. PICK r \in Requests :
             /\ r = Head(pass.swapped) /\ pass.swapped # <<>>
             /\ status' = [status EXCEPT ![r] = "FinishedIgnored"]
             /\ pass' \in PassType
             /\ pass'.swapped = Tail(pass.swapped)
             /\ pass'.waiting = pass.waiting /\ pass'.running = pass.running
             /\ pass'.preempted = pass.preempted /\ pass'.swapped_out = pass.swapped_out
             /\ SameChosen(pass', pass)
  BY <1>0, SwappedIgnoredEffect
<1>2. pass.swapped \in Seq(Requests) /\ IsInjective(pass.swapped)
  BY <1>0, PassLists DEF PassFiled, NoDuplicates
<1>3. /\ Range(pass'.swapped) = Range(pass.swapped) \ {r} /\ IsInjective(pass'.swapped)
      /\ r \in Range(pass.swapped)
  BY <1>1, <1>2, FrontLeaves
<1>4. /\ Prefilled(pass') = Prefilled(pass) /\ Decoding(pass') = Decoding(pass)
      /\ Continued(pass') = Continued(pass) /\ BroughtIn(pass') = BroughtIn(pass)
      /\ Resumed(pass') = Resumed(pass)
  BY <1>1 DEF SameChosen, Prefilled, Decoding, Continued, BroughtIn, Resumed
<1>5. NoDuplicates(pass')
  BY <1>1, <1>3 DEF NoDuplicates, PassFiled, SameChosen
<1>6. ListsApart(pass')
  BY <1>1, <1>3, <1>4 DEF ListsApart, PassFiled, Apart
<1>7. /\ \A q \in Requests : q # r => status'[q] = status[q]
      /\ status'[r] = "FinishedIgnored" /\ status[r] = "Swapped"
  BY <1>0, <1>1, <1>3 DEF PassFiled, StatusOf
<1>8. StatusOf(pass', status')
  <2>1. r \notin Range(pass.swapped_out)
    BY <1>3 DEF PassFiled, ListsApart, Apart
  <2>2. PassRequests(pass)
    BY <1>0, PassMembers
  <2> QED BY <1>1, <1>3, <1>4, <1>7, <2>1, <2>2 DEF PassFiled, StatusOf, PassRequests
<1>9. NothingLost(pass', status')
  BY <1>1, <1>3, <1>4, <1>7 DEF PassFiled, NothingLost
<1> QED BY <1>5, <1>6, <1>8, <1>9 DEF PassFiled

LEMMA FiledPrefillScheduled ==
    ASSUME Types, PassFiled(pass, status), PrefillScheduled
    PROVE  PassFiled(pass', status')
<1>0. SeqTypes /\ PassTypes /\ pass \in PassType /\ status \in [Requests -> Statuses]
  BY DEF Types, PassTypes, SeqTypes
<1>1. PICK r \in Requests, n \in Nat :
             /\ r = Head(pass.waiting)
             /\ status' = [status EXCEPT ![r] = "Running"]
             /\ pass' \in PassType
             /\ pass'.waiting = Tail(pass.waiting)
             /\ pass'.running = pass.running /\ pass'.swapped = pass.swapped
             /\ pass'.prefills = Append(pass.prefills, Entry(r, n))
             /\ pass'.run_decodes = pass.run_decodes /\ pass'.run_prefills = pass.run_prefills
             /\ pass'.in_decodes = pass.in_decodes /\ pass'.in_prefills = pass.in_prefills
             /\ SameDropped(pass', pass)
  BY <1>0, PrefillScheduledEffect
<1>2. /\ pass.waiting # <<>> /\ status[r] = "Waiting"
  BY <1>1, PrefillRun DEF PrefillScheduled
<1>2a. /\ pass.waiting \in Seq(Requests) /\ IsInjective(pass.waiting)
       /\ pass.prefills \in Seq(Scheduled) /\ IsInjective(RequestsOf(pass.prefills))
  BY <1>0, PassLists DEF PassFiled, NoDuplicates
<1>3. /\ Range(pass'.waiting) = Range(pass.waiting) \ {r} /\ IsInjective(pass'.waiting)
      /\ r \in Range(pass.waiting)
  BY <1>1, <1>2, <1>2a, FrontLeaves
<1>4. /\ Decoding(pass') = Decoding(pass)
      /\ Continued(pass') = Continued(pass) /\ BroughtIn(pass') = BroughtIn(pass)
      /\ Resumed(pass') = Resumed(pass)
  BY <1>1 DEF Prefilled, Decoding, Continued, BroughtIn, Resumed
<1>4a. /\ r \notin Range(pass.running) /\ r \notin Prefilled(pass) /\ r \notin Decoding(pass)
       /\ r \notin Continued(pass) /\ r \notin BroughtIn(pass) /\ r \notin Resumed(pass)
       /\ r \notin Range(pass.swapped) /\ r \notin Range(pass.swapped_out)
  BY <1>2 DEF PassFiled, StatusOf
<1>4b. r \notin Range(pass.preempted)
  BY <1>3 DEF PassFiled, ListsApart, Apart
<1>4c. Prefilled(pass') = Prefilled(pass) \cup {r} /\ IsInjective(RequestsOf(pass'.prefills))
  <2>1. PICK e \in Scheduled : e = Entry(r, n) /\ e.id = r
    BY <1>0, EntryType
  <2>2. pass'.prefills = Append(pass.prefills, e)
    BY <1>1, <2>1
  <2> QED BY <1>2a, <1>4a, <2>1, <2>2, EntryAdded DEF Prefilled
<1>5. NoDuplicates(pass')
  BY <1>1, <1>3, <1>4c DEF NoDuplicates, PassFiled, SameDropped
<1>6. ListsApart(pass')
  <2>1. SixApart(Range(pass.running), Prefilled(pass) \cup {r}, Decoding(pass), Continued(pass), BroughtIn(pass), Resumed(pass))
    BY <1>4a, SixJoin DEF PassFiled, ListsApart
  <2> QED BY <1>1, <1>3, <1>4, <1>4c, <2>1 DEF ListsApart, PassFiled, Apart, SameDropped
<1>7. /\ \A q \in Requests : q # r => status'[q] = status[q]
      /\ status'[r] = "Running"
  BY <1>0, <1>1
<1>8. StatusOf(pass', status')
  <2>2. PassRequests(pass)
    BY <1>0, PassMembers
  <2> QED BY <1>1, <1>3, <1>4, <1>4a, <1>4b, <1>4c, <1>7, <2>2 DEF PassFiled, StatusOf, PassRequests, SameDropped
<1>9. NothingLost(pass', status')
  BY <1>1, <1>3, <1>4, <1>4c, <1>7 DEF PassFiled, NothingLost, SameDropped
<1> QED BY <1>5, <1>6, <1>8, <1>9 DEF PassFiled

LEMMA FiledRunningScheduled ==
    ASSUME Types, PassFiled(pass, status), RunningScheduled
    PROVE  PassFiled(pass', status')
<1>0. SeqTypes /\ PassTypes /\ pass \in PassType /\ status \in [Requests -> Statuses] /\ status' = status
  BY DEF Types, PassTypes, SeqTypes, RunningScheduled, seqs
<1>1. PICK r \in Requests, n \in Nat :
             /\ r = Head(pass.running)
             /\ pass' \in PassType
             /\ pass'.running = Tail(pass.running)
             /\ pass'.waiting = pass.waiting /\ pass'.swapped = pass.swapped
             /\ pass'.prefills = pass.prefills
             /\ stage[r] = "Prefill" => /\ pass'.run_prefills = Append(pass.run_prefills, Entry(r, n))
                                        /\ pass'.run_decodes = pass.run_decodes
             /\ stage[r] # "Prefill" => /\ pass'.run_decodes = Append(pass.run_decodes, Entry(r, 1))
                                        /\ pass'.run_prefills = pass.run_prefills
             /\ pass'.in_decodes = pass.in_decodes /\ pass'.in_prefills = pass.in_prefills
             /\ SameDropped(pass', pass)
  BY <1>0, RunningScheduledEffect
<1>2. pass.running # <<>> /\ status[r] = "Running"
  BY <1>1, RunningRun DEF RunningScheduled
<1>2a. /\ pass.running \in Seq(Requests) /\ IsInjective(pass.running)
       /\ pass.run_prefills \in Seq(Scheduled) /\ IsInjective(RequestsOf(pass.run_prefills))
       /\ pass.run_decodes \in Seq(Scheduled) /\ IsInjective(RequestsOf(pass.run_decodes))
  BY <1>0, PassLists DEF PassFiled, NoDuplicates
<1>3. /\ Range(pass'.running) = Range(pass.running) \ {r} /\ IsInjective(pass'.running)
      /\ r \in Range(pass.running)
  BY <1>1, <1>2, <1>2a, FrontLeaves
<1>4. /\ Prefilled(pass') = Prefilled(pass) /\ BroughtIn(pass') = BroughtIn(pass)
      /\ Resumed(pass') = Resumed(pass)
  BY <1>1 DEF Prefilled, Decoding, Continued, BroughtIn, Resumed
<1>4a. /\ SixApart(Range(pass'.running), Prefilled(pass), Decoding(pass), Continued(pass), BroughtIn(pass), Resumed(pass))
       /\ r \notin Prefilled(pass) /\ r \notin Decoding(pass)
       /\ r \notin Continued(pass) /\ r \notin BroughtIn(pass) /\ r \notin Resumed(pass)
       /\ r \notin Range(pass'.running)
  BY <1>3, SixLeave DEF PassFiled, ListsApart
<1>4b. Entry(r, n) \in Scheduled /\ Entry(r, n).id = r /\ Entry(r, 1) \in Scheduled /\ Entry(r, 1).id = r
  BY <1>0, EntryType
<1>5. /\ IsInjective(RequestsOf(pass'.run_prefills)) /\ IsInjective(RequestsOf(pass'.run_decodes))
      /\ \/ Continued(pass') = Continued(pass) \cup {r} /\ Decoding(pass') = Decoding(pass)
         \/ Continued(pass') = Continued(pass) /\ Decoding(pass') = Decoding(pass) \cup {r}
  <2>1. CASE stage[r] = "Prefill"
    <3>1. PICK e \in Scheduled : e = Entry(r, n) /\ e.id = r
      BY <1>4b
    <3>2. pass'.run_prefills = Append(pass.run_prefills, e) /\ pass'.run_decodes = pass.run_decodes
      BY <1>1, <2>1, <3>1
    <3>3. /\ Range(RequestsOf(pass'.run_prefills)) = Range(RequestsOf(pass.run_prefills)) \cup {r}
          /\ IsInjective(RequestsOf(pass'.run_prefills))
      BY <1>2a, <1>4a, <3>1, <3>2, EntryAdded DEF Continued
    <3> QED BY <1>2a, <3>2, <3>3 DEF Continued, Decoding
  <2>2. CASE stage[r] # "Prefill"
    <3>1. PICK e \in Scheduled : e = Entry(r, 1) /\ e.id = r
      BY <1>4b
    <3>2. pass'.run_decodes = Append(pass.run_decodes, e) /\ pass'.run_prefills = pass.run_prefills
      BY <1>1, <2>2, <3>1
    <3>3. /\ Range(RequestsOf(pass'.run_decodes)) = Range(RequestsOf(pass.run_decodes)) \cup {r}
          /\ IsInjective(RequestsOf(pass'.run_decodes))
      BY <1>2a, <1>4a, <3>1, <3>2, EntryAdded DEF Decoding
    <3> QED BY <1>2a, <3>2, <3>3 DEF Continued, Decoding
  <2> QED BY <2>1, <2>2
<1>6. NoDuplicates(pass')
  BY <1>1, <1>3, <1>5 DEF NoDuplicates, PassFiled, SameDropped
<1>7. ListsApart(pass')
  <2>1. /\ SixApart(Range(pass'.running), Prefilled(pass), Decoding(pass) \cup {r}, Continued(pass), BroughtIn(pass), Resumed(pass))
        /\ SixApart(Range(pass'.running), Prefilled(pass), Decoding(pass), Continued(pass) \cup {r}, BroughtIn(pass), Resumed(pass))
    BY <1>4a, SixJoin
  <2> QED BY <1>1, <1>4, <1>5, <2>1 DEF ListsApart, PassFiled, SameDropped
<1>8. StatusOf(pass', status')
  BY <1>0, <1>1, <1>2, <1>3, <1>4, <1>5 DEF PassFiled, StatusOf, SameDropped
<1>9. NothingLost(pass', status')
  BY <1>0, <1>1, <1>3, <1>4, <1>5 DEF PassFiled, NothingLost, SameDropped
<1> QED BY <1>6, <1>7, <1>8, <1>9 DEF PassFiled

LEMMA FiledSwappedScheduled ==
    ASSUME Types, PassFiled(pass, status), SwappedScheduled
    PROVE  PassFiled(pass', status')
<1>0. SeqTypes /\ PassTypes /\ pass \in PassType /\ status \in [Requests -> Statuses]
  BY DEF Types, PassTypes, SeqTypes
<1>0a. cpu_table[SequenceId[Head(pass.swapped)]] \in Nat
  <2>1. pass.swapped # <<>> /\ pass.swapped \in Seq(Requests)
    BY <1>0, SwappedRun, PassLists DEF SwappedScheduled
  <2> QED BY <2>1, HeadTail, TablesAreNumbers DEF TableFacts, Types
<1>1. PICK r \in Requests, n \in Nat :
             /\ r = Head(pass.swapped)
             /\ status' = [status EXCEPT ![r] = "Running"]
             /\ pass' \in PassType
             /\ pass'.swapped = Tail(pass.swapped)
             /\ pass'.waiting = pass.waiting /\ pass'.running = pass.running
             /\ pass'.prefills = pass.prefills
             /\ pass'.run_decodes = pass.run_decodes /\ pass'.run_prefills = pass.run_prefills
             /\ stage[r] = "Prefill" => /\ pass'.in_prefills = Append(pass.in_prefills, Entry(r, n))
                                        /\ pass'.in_decodes = pass.in_decodes
             /\ stage[r] # "Prefill" => /\ pass'.in_decodes = Append(pass.in_decodes, Entry(r, 1))
                                        /\ pass'.in_prefills = pass.in_prefills
             /\ SameDropped(pass', pass)
  BY <1>0, <1>0a, SwappedScheduledEffect
<1>2. pass.swapped # <<>> /\ status[r] = "Swapped"
  BY <1>1, SwappedRun DEF SwappedScheduled
<1>2a. /\ pass.swapped \in Seq(Requests) /\ IsInjective(pass.swapped)
       /\ pass.in_prefills \in Seq(Scheduled) /\ IsInjective(RequestsOf(pass.in_prefills))
       /\ pass.in_decodes \in Seq(Scheduled) /\ IsInjective(RequestsOf(pass.in_decodes))
  BY <1>0, PassLists DEF PassFiled, NoDuplicates
<1>3. /\ Range(pass'.swapped) = Range(pass.swapped) \ {r} /\ IsInjective(pass'.swapped)
      /\ r \in Range(pass.swapped)
  BY <1>1, <1>2, <1>2a, FrontLeaves
<1>4. /\ Prefilled(pass') = Prefilled(pass) /\ Decoding(pass') = Decoding(pass)
      /\ Continued(pass') = Continued(pass)
  BY <1>1 DEF Prefilled, Decoding, Continued
<1>4a. /\ r \notin Range(pass.running) /\ r \notin Prefilled(pass) /\ r \notin Decoding(pass)
       /\ r \notin Continued(pass) /\ r \notin BroughtIn(pass) /\ r \notin Resumed(pass)
       /\ r \notin Range(pass.waiting) /\ r \notin Range(pass.preempted)
  BY <1>2 DEF PassFiled, StatusOf
<1>4b. Entry(r, n) \in Scheduled /\ Entry(r, n).id = r /\ Entry(r, 1) \in Scheduled /\ Entry(r, 1).id = r
  BY <1>0, EntryType
<1>4c. r \notin Range(pass.swapped_out)
  BY <1>3 DEF PassFiled, ListsApart, Apart
<1>5. /\ IsInjective(RequestsOf(pass'.in_prefills)) /\ IsInjective(RequestsOf(pass'.in_decodes))
      /\ \/ Resumed(pass') = Resumed(pass) \cup {r} /\ BroughtIn(pass') = BroughtIn(pass)
         \/ Resumed(pass') = Resumed(pass) /\ BroughtIn(pass') = BroughtIn(pass) \cup {r}
  <2>1. CASE stage[r] = "Prefill"
    <3>1. PICK e \in Scheduled : e = Entry(r, n) /\ e.id = r
      BY <1>4b
    <3>2. pass'.in_prefills = Append(pass.in_prefills, e) /\ pass'.in_decodes = pass.in_decodes
      BY <1>1, <2>1, <3>1
    <3>3. /\ Range(RequestsOf(pass'.in_prefills)) = Range(RequestsOf(pass.in_prefills)) \cup {r}
          /\ IsInjective(RequestsOf(pass'.in_prefills))
      BY <1>2a, <1>4a, <3>1, <3>2, EntryAdded DEF Resumed
    <3> QED BY <1>2a, <3>2, <3>3 DEF Resumed, BroughtIn
  <2>2. CASE stage[r] # "Prefill"
    <3>1. PICK e \in Scheduled : e = Entry(r, 1) /\ e.id = r
      BY <1>4b
    <3>2. pass'.in_decodes = Append(pass.in_decodes, e) /\ pass'.in_prefills = pass.in_prefills
      BY <1>1, <2>2, <3>1
    <3>3. /\ Range(RequestsOf(pass'.in_decodes)) = Range(RequestsOf(pass.in_decodes)) \cup {r}
          /\ IsInjective(RequestsOf(pass'.in_decodes))
      BY <1>2a, <1>4a, <3>1, <3>2, EntryAdded DEF BroughtIn
    <3> QED BY <1>2a, <3>2, <3>3 DEF Resumed, BroughtIn
  <2> QED BY <2>1, <2>2
<1>6. NoDuplicates(pass')
  BY <1>1, <1>3, <1>5 DEF NoDuplicates, PassFiled, SameDropped
<1>7. ListsApart(pass')
  <2>1. /\ SixApart(Range(pass.running), Prefilled(pass), Decoding(pass), Continued(pass), BroughtIn(pass) \cup {r}, Resumed(pass))
        /\ SixApart(Range(pass.running), Prefilled(pass), Decoding(pass), Continued(pass), BroughtIn(pass), Resumed(pass) \cup {r})
    BY <1>4a, SixJoin DEF PassFiled, ListsApart
  <2>2. Apart(Range(pass'.swapped), Range(pass'.swapped_out)) /\ Apart(Range(pass'.waiting), Range(pass'.preempted))
    BY <1>1, <1>3 DEF PassFiled, ListsApart, Apart, SameDropped
  <2> QED BY <1>1, <1>4, <1>5, <2>1, <2>2 DEF ListsApart
<1>7a. /\ \A q \in Requests : q # r => status'[q] = status[q]
       /\ status'[r] = "Running"
  BY <1>0, <1>1
<1>8. StatusOf(pass', status')
  <2>2. PassRequests(pass)
    BY <1>0, PassMembers
  <2> QED BY <1>1, <1>3, <1>4, <1>4a, <1>4c, <1>5, <1>7a, <2>2 DEF PassFiled, StatusOf, PassRequests, SameDropped
<1>9. NothingLost(pass', status')
  BY <1>1, <1>3, <1>4, <1>5, <1>7a DEF PassFiled, NothingLost, SameDropped
<1> QED BY <1>6, <1>7, <1>8, <1>9 DEF PassFiled

LEMMA FiledPreempt ==
    ASSUME Types, PassFiled(pass, status), Preempt
    PROVE  PassFiled(pass', status')
<1>0. SeqTypes /\ PassTypes /\ pass \in PassType /\ status \in [Requests -> Statuses]
  BY DEF Types, PassTypes, SeqTypes
<1>0a. \A v \in Requests : gpu_table[SequenceId[v]] \in Nat
  BY TablesAreNumbers DEF TableFacts, Types
<1>1. PICK v \in Requests :
             /\ pass.running # <<>> /\ v = Last(pass.running)
             /\ Recomputed(v) \/ SwappedOut(v)
             /\ pass' \in PassType
             /\ pass'.running = Keep(pass.running, Requests \ {v})
             /\ pass'.waiting = pass.waiting /\ pass'.swapped = pass.swapped
             /\ SameChosen(pass', pass)
  BY <1>0, <1>0a, PreemptEffect
<1>2. /\ pass.running \in Seq(Requests) /\ IsInjective(pass.running)
      /\ pass.preempted \in Seq(Requests) /\ IsInjective(pass.preempted)
      /\ pass.swapped_out \in Seq(Requests) /\ IsInjective(pass.swapped_out)
  BY <1>0, PassLists DEF PassFiled, NoDuplicates
<1>3. /\ Range(pass'.running) = Range(pass.running) \ {v} /\ IsInjective(pass'.running)
      /\ v \in Range(pass.running)
  BY <1>1, <1>2, VictimLeaves
<1>4. /\ Prefilled(pass') = Prefilled(pass) /\ Decoding(pass') = Decoding(pass)
      /\ Continued(pass') = Continued(pass) /\ BroughtIn(pass') = BroughtIn(pass)
      /\ Resumed(pass') = Resumed(pass)
  BY <1>1 DEF SameChosen, Prefilled, Decoding, Continued, BroughtIn, Resumed
<1>5. /\ SixApart(Range(pass'.running), Prefilled(pass), Decoding(pass), Continued(pass), BroughtIn(pass), Resumed(pass))
      /\ v \notin Prefilled(pass) /\ v \notin Decoding(pass)
      /\ v \notin Continued(pass) /\ v \notin BroughtIn(pass) /\ v \notin Resumed(pass)
  BY <1>3, SixLeave DEF PassFiled, ListsApart
<1>6. status[v] = "Running"
  BY <1>3 DEF PassFiled, StatusOf
<1>7. /\ v \notin Range(pass.waiting) /\ v \notin Range(pass.preempted)
      /\ v \notin Range(pass.swapped) /\ v \notin Range(pass.swapped_out)
  BY <1>6 DEF PassFiled, StatusOf
<1>8. \/ /\ Range(pass'.preempted) = Range(pass.preempted) \cup {v} /\ IsInjective(pass'.preempted)
         /\ pass'.swapped_out = pass.swapped_out /\ status' = [status EXCEPT ![v] = "Waiting"]
      \/ /\ Range(pass'.swapped_out) = Range(pass.swapped_out) \cup {v} /\ IsInjective(pass'.swapped_out)
         /\ pass'.preempted = pass.preempted /\ status' = [status EXCEPT ![v] = "Swapped"]
  <2>1. CASE Recomputed(v)
    BY <1>2, <1>7, <2>1, AppendList DEF Recomputed
  <2>2. CASE SwappedOut(v)
    BY <1>2, <1>7, <2>2, AppendList DEF SwappedOut
  <2> QED BY <1>1, <2>1, <2>2
<1>9. NoDuplicates(pass')
  BY <1>1, <1>3, <1>8 DEF NoDuplicates, PassFiled, SameChosen
<1>10. ListsApart(pass')
  <2>1. Apart(Range(pass'.swapped), Range(pass'.swapped_out)) /\ Apart(Range(pass'.waiting), Range(pass'.preempted))
    BY <1>1, <1>7, <1>8 DEF PassFiled, ListsApart, Apart
  <2> QED BY <1>1, <1>4, <1>5, <2>1 DEF ListsApart
<1>11. PassRequests(pass)
  BY <1>0, PassMembers
<1>12. StatusOf(pass', status')
  <2>1. \A q \in Requests : q # v => status'[q] = status[q]
    BY <1>0, <1>8
  <2>2. /\ \A q \in Range(pass'.preempted) : status'[q] = "Waiting"
        /\ \A q \in Range(pass'.swapped_out) : status'[q] = "Swapped"
    BY <1>0, <1>7, <1>8, <1>11, <2>1 DEF PassFiled, StatusOf, PassRequests
  <2>3. /\ \A q \in Range(pass'.waiting) : status'[q] = "Waiting"
        /\ \A q \in Range(pass'.swapped) : status'[q] = "Swapped"
        /\ \A q \in Range(pass'.running) : status'[q] = "Running"
    BY <1>1, <1>3, <1>7, <1>11, <2>1 DEF PassFiled, StatusOf, PassRequests
  <2>4. /\ \A q \in Prefilled(pass) \cup Decoding(pass) \cup Continued(pass) : status'[q] = "Running"
        /\ \A q \in BroughtIn(pass) \cup Resumed(pass) : status'[q] = "Running"
    BY <1>5, <1>11, <2>1 DEF PassFiled, StatusOf, PassRequests
  <2> QED BY <1>4, <2>2, <2>3, <2>4 DEF StatusOf
<1>13. NothingLost(pass', status')
  <2>1. \A q \in Requests : q # v => status'[q] = status[q]
    BY <1>0, <1>8
  <2>2. CASE status' = [status EXCEPT ![v] = "Waiting"]
    <3>1. status'[v] = "Waiting" /\ v \in Range(pass'.preempted)
      BY <1>0, <1>8, <2>2
    <3>2. \A q \in Requests : q # v => /\ q \in Range(pass.preempted) => q \in Range(pass'.preempted)
                                       /\ q \in Range(pass.swapped_out) => q \in Range(pass'.swapped_out)
      BY <1>8
    <3> QED BY <1>1, <1>3, <1>4, <2>1, <3>1, <3>2 DEF PassFiled, NothingLost
  <2>3. CASE status' = [status EXCEPT ![v] = "Swapped"]
    <3>1. status'[v] = "Swapped" /\ v \in Range(pass'.swapped_out)
      BY <1>0, <1>8, <2>3
    <3>2. \A q \in Requests : q # v => /\ q \in Range(pass.preempted) => q \in Range(pass'.preempted)
                                       /\ q \in Range(pass.swapped_out) => q \in Range(pass'.swapped_out)
      BY <1>8
    <3> QED BY <1>1, <1>3, <1>4, <2>1, <3>1, <3>2 DEF PassFiled, NothingLost
  <2> QED BY <1>8, <2>2, <2>3
<1> QED BY <1>9, <1>10, <1>12, <1>13 DEF PassFiled

LEMMA RequestsOfConcat ==
    ASSUME NEW L \in Seq(Scheduled), NEW M \in Seq(Scheduled)
    PROVE  L \o M \in Seq(Scheduled) /\ RequestsOf(L \o M) = RequestsOf(L) \o RequestsOf(M)
<1> DEFINE m == Len(L)
           n == Len(M)
           N == L \o M
           a == RequestsOf(L)
           b == RequestsOf(M)
           c == a \o b
           d == RequestsOf(N)
<1>1. /\ m \in Nat /\ n \in Nat /\ N \in Seq(Scheduled) /\ Len(N) = m + n
      /\ \A k \in 1..m : N[k] = L[k]
      /\ \A k \in 1..n : N[m + k] = M[k]
  BY ConcatList
<1>2. /\ a \in Seq(Requests) /\ Len(a) = m /\ \A k \in 1..m : a[k] = L[k].id
      /\ b \in Seq(Requests) /\ Len(b) = n /\ \A k \in 1..n : b[k] = M[k].id
  BY RequestsOfList
<1>3. d \in Seq(Requests) /\ Len(d) = m + n /\ \A k \in 1..(m + n) : d[k] = N[k].id
  BY <1>1, RequestsOfList
<1> HIDE DEF a, b, d, N, m, n
<1>4. /\ c \in Seq(Requests) /\ Len(c) = m + n
      /\ \A k \in 1..m : c[k] = a[k]
      /\ \A k \in 1..n : c[m + k] = b[k]
  <2>0. a \in Seq(Requests) /\ b \in Seq(Requests)
    BY <1>2
  <2>1. /\ c \in Seq(Requests) /\ Len(c) = Len(a) + Len(b)
        /\ \A k \in 1..Len(a) : c[k] = a[k]
        /\ \A k \in 1..Len(b) : c[Len(a) + k] = b[k]
    BY <2>0, ConcatList
  <2> QED BY <1>2, <2>1
<1> HIDE DEF c
<1>5. \A k \in 1..(m + n) : d[k] = c[k]
  <2> TAKE k \in 1..(m + n)
  <2>1. CASE k <= m
    <3>1. k \in 1..m
      BY <1>1, <2>1
    <3>2. d[k] = N[k].id /\ N[k] = L[k]
      BY <1>1, <1>3, <3>1
    <3>3. c[k] = a[k] /\ a[k] = L[k].id
      BY <1>2, <1>4, <3>1
    <3> QED BY <3>2, <3>3
  <2>2. CASE ~(k <= m)
    <3>1. k - m \in 1..n /\ k = m + (k - m)
      BY <1>1, <2>2
    <3>2. PICK j \in 1..n : k = m + j
      BY <3>1
    <3>3. d[k] = N[k].id /\ N[k] = M[j]
      BY <1>1, <1>3, <3>2
    <3>4. c[k] = b[j] /\ b[j] = M[j].id
      BY <1>2, <1>4, <3>2
    <3> QED BY <3>3, <3>4
  <2> QED BY <2>1, <2>2
<1>6. d = c
  BY <1>3, <1>4, <1>5
<1> QED BY <1>1, <1>6 DEF a, b, c, d, N

(* The commit of a pass puts every list back. *)
LEMMA CommitLists ==
    ASSUME NEW p \in PassType, NoDuplicates(p), ListsApart(p)
    PROVE  /\ Range(NewWaiting(p)) = Range(p.waiting) \cup Range(p.preempted)
           /\ IsInjective(NewWaiting(p))
           /\ Range(NewSwapped(p)) = Range(p.swapped) \cup Range(p.swapped_out)
           /\ IsInjective(NewSwapped(p))
           /\ Range(NewRunning(p)) = Range(p.running) \cup Prefilled(p) \cup Decoding(p) \cup BroughtIn(p)
                                        \cup (IF Chunked THEN Resumed(p) ELSE {})
           /\ IsInjective(NewRunning(p))
           /\ IsInjective(RequestsOf(NewOutputs(p).scheduled))
           /\ Range(RequestsOf(NewOutputs(p).scheduled))
                = Prefilled(p) \cup Decoding(p) \cup BroughtIn(p)
                    \cup (IF Chunked THEN Continued(p) \cup Resumed(p) ELSE {})
<1>1. /\ p.waiting \in Seq(Requests) /\ p.running \in Seq(Requests) /\ p.swapped \in Seq(Requests)
      /\ p.preempted \in Seq(Requests) /\ p.swapped_out \in Seq(Requests)
      /\ p.prefills \in Seq(Scheduled) /\ p.run_decodes \in Seq(Scheduled)
      /\ p.run_prefills \in Seq(Scheduled) /\ p.in_decodes \in Seq(Scheduled)
      /\ p.in_prefills \in Seq(Scheduled)
  BY PassLists
<1>2. /\ RequestsOf(p.prefills) \in Seq(Requests) /\ RequestsOf(p.run_decodes) \in Seq(Requests)
      /\ RequestsOf(p.run_prefills) \in Seq(Requests) /\ RequestsOf(p.in_decodes) \in Seq(Requests)
      /\ RequestsOf(p.in_prefills) \in Seq(Requests)
  BY <1>1, RequestsOfList
<1>3. PICK R, P, D, C, I, J : /\ R = Range(p.running) /\ P = Prefilled(p) /\ D = Decoding(p)
                              /\ C = Continued(p) /\ I = BroughtIn(p) /\ J = Resumed(p)
  OBVIOUS
<1>4. SixApart(R, P, D, C, I, J)
  BY <1>3 DEF ListsApart
<1>5. /\ Range(NewWaiting(p)) = Range(p.waiting) \cup Range(p.preempted)
      /\ IsInjective(NewWaiting(p))
  <2>1. /\ Range(NewWaiting(p)) = Range(p.preempted) \cup Range(p.waiting)
        /\ IsInjective(p.preempted) /\ IsInjective(p.waiting)
             /\ (\A x \in Range(p.preempted) : x \notin Range(p.waiting)) => IsInjective(NewWaiting(p))
    BY <1>1, ConcatRange DEF NewWaiting
  <2>2. \A x \in Range(p.preempted) : x \notin Range(p.waiting)
    BY DEF ListsApart, Apart
  <2> QED BY <2>1, <2>2 DEF NoDuplicates
<1>6. /\ Range(NewSwapped(p)) = Range(p.swapped) \cup Range(p.swapped_out)
      /\ IsInjective(NewSwapped(p))
  <2>1. /\ Range(NewSwapped(p)) = Range(p.swapped) \cup Range(p.swapped_out)
        /\ IsInjective(p.swapped) /\ IsInjective(p.swapped_out)
             /\ (\A x \in Range(p.swapped) : x \notin Range(p.swapped_out)) => IsInjective(NewSwapped(p))
    BY <1>1, ConcatRange DEF NewSwapped
  <2>2. \A x \in Range(p.swapped) : x \notin Range(p.swapped_out)
    BY DEF ListsApart, Apart
  <2> QED BY <2>1, <2>2 DEF NoDuplicates
<1>7. /\ Range(NewRunning(p)) = R \cup P \cup D \cup I \cup (IF Chunked THEN J ELSE {})
      /\ IsInjective(NewRunning(p))
  <2> DEFINE a == p.running \o RequestsOf(p.prefills)
             b == a \o RequestsOf(p.run_decodes)
             c == b \o RequestsOf(p.in_decodes)
             last == IF Chunked THEN RequestsOf(p.in_prefills) ELSE <<>>
  <2>1. a \in Seq(Requests) /\ Range(a) = R \cup P /\ IsInjective(a)
    <3>1. \A x \in R : x \notin P
      BY <1>4 DEF SixApart, Apart
    <3>2. Range(p.running) = R /\ Range(RequestsOf(p.prefills)) = P
      BY <1>3 DEF Prefilled
    <3>3. IsInjective(p.running) /\ IsInjective(RequestsOf(p.prefills))
      BY DEF NoDuplicates
    <3>4. PICK u \in Seq(Requests), v \in Seq(Requests) : u = p.running /\ v = RequestsOf(p.prefills)
      BY <1>1, <1>2
    <3>5. u \o v \in Seq(Requests) /\ Range(u \o v) = R \cup P /\ IsInjective(u \o v)
      BY <3>1, <3>2, <3>3, <3>4, ConcatRange
    <3> QED BY <3>4, <3>5
  <2> HIDE DEF a
  <2>2. b \in Seq(Requests) /\ Range(b) = R \cup P \cup D /\ IsInjective(b)
    <3>1. \A x \in R \cup P : x \notin D
      BY <1>4 DEF SixApart, Apart
    <3>2. Range(RequestsOf(p.run_decodes)) = D
      BY <1>3 DEF Decoding
    <3>3. IsInjective(RequestsOf(p.run_decodes))
      BY DEF NoDuplicates
    <3> QED BY <1>2, <2>1, <3>1, <3>2, <3>3, ConcatRange
  <2> HIDE DEF b
  <2>3. c \in Seq(Requests) /\ Range(c) = R \cup P \cup D \cup I /\ IsInjective(c)
    <3>1. \A x \in R \cup P \cup D : x \notin I
      BY <1>4 DEF SixApart, Apart
    <3>2. Range(RequestsOf(p.in_decodes)) = I
      BY <1>3 DEF BroughtIn
    <3>3. IsInjective(RequestsOf(p.in_decodes))
      BY DEF NoDuplicates
    <3> QED BY <1>2, <2>2, <3>1, <3>2, <3>3, ConcatRange
  <2> HIDE DEF c
  <2>4. /\ last \in Seq(Requests) /\ Range(last) = (IF Chunked THEN J ELSE {}) /\ IsInjective(last)
        /\ \A x \in Range(c) : x \notin Range(last)
    <3>1. \A x \in R \cup P \cup D \cup I : x \notin J
      BY <1>4 DEF SixApart, Apart
    <3>2. Range(RequestsOf(p.in_prefills)) = J
      BY <1>3 DEF Resumed
    <3>3. IsInjective(RequestsOf(p.in_prefills))
      BY DEF NoDuplicates
    <3>4. CASE Chunked
      <4>1. last = RequestsOf(p.in_prefills)
        BY <3>4
      <4> QED BY <1>2, <2>3, <3>1, <3>2, <3>3, <3>4, <4>1
    <3>5. CASE ~Chunked
      <4>1. last = <<>> /\ last \in Seq(Requests)
        BY <3>5
      <4> QED BY <3>5, <4>1, EmptyList
    <3> QED BY <3>4, <3>5
  <2>5. NewRunning(p) = c \o last
    BY DEF NewRunning, a, b, c
  <2> HIDE DEF last
  <2>6. Range(c \o last) = Range(c) \cup Range(last) /\ IsInjective(c \o last)
    BY <2>3, <2>4, ConcatRange
  <2> QED BY <2>3, <2>4, <2>5, <2>6
<1>8. /\ IsInjective(RequestsOf(NewOutputs(p).scheduled))
      /\ Range(RequestsOf(NewOutputs(p).scheduled)) = P \cup D \cup I \cup (IF Chunked THEN C \cup J ELSE {})
  <2> DEFINE cont == IF Chunked THEN p.run_prefills \o p.in_prefills ELSE <<>>
             a == p.prefills \o cont
             b == a \o p.run_decodes
             c == b \o p.in_decodes
             K == IF Chunked THEN C \cup J ELSE {}
  <2>1. /\ cont \in Seq(Scheduled) /\ Range(RequestsOf(cont)) = K /\ IsInjective(RequestsOf(cont))
    <3>1. CASE Chunked
      <4>1. cont = p.run_prefills \o p.in_prefills /\ K = C \cup J
        BY <3>1
      <4>2. \A x \in C : x \notin J
        BY <1>4 DEF SixApart, Apart
      <4>3. Range(RequestsOf(p.run_prefills)) = C /\ Range(RequestsOf(p.in_prefills)) = J
        BY <1>3 DEF Continued, Resumed
      <4>4. IsInjective(RequestsOf(p.run_prefills)) /\ IsInjective(RequestsOf(p.in_prefills))
        BY DEF NoDuplicates
      <4>5. cont \in Seq(Scheduled) /\ RequestsOf(cont) = RequestsOf(p.run_prefills) \o RequestsOf(p.in_prefills)
        BY <1>1, <4>1, RequestsOfConcat
      <4> HIDE DEF cont, K
      <4>6. /\ Range(RequestsOf(p.run_prefills) \o RequestsOf(p.in_prefills)) = C \cup J
            /\ IsInjective(RequestsOf(p.run_prefills) \o RequestsOf(p.in_prefills))
        BY <1>2, <4>2, <4>3, <4>4, ConcatRange
      <4> QED BY <4>1, <4>5, <4>6
    <3>2. CASE ~Chunked
      <4>1. cont = <<>> /\ K = {} /\ cont \in Seq(Scheduled)
        BY <3>2
      <4>2. RequestsOf(cont) = <<>>
        BY <4>1, RequestsOfList
      <4> QED BY <4>1, <4>2, EmptyList
    <3> QED BY <3>1, <3>2
  <2>2. K \subseteq C \cup J
    OBVIOUS
  <2> HIDE DEF cont, K
  <2>3. a \in Seq(Scheduled) /\ Range(RequestsOf(a)) = P \cup K /\ IsInjective(RequestsOf(a))
    <3>1. \A x \in P : x \notin K
      BY <1>4, <2>2 DEF SixApart, Apart
    <3>2. Range(RequestsOf(p.prefills)) = P /\ IsInjective(RequestsOf(p.prefills))
      BY <1>3 DEF Prefilled, NoDuplicates
    <3>3. a \in Seq(Scheduled) /\ RequestsOf(a) = RequestsOf(p.prefills) \o RequestsOf(cont)
      BY <1>1, <2>1, RequestsOfConcat
    <3>4. RequestsOf(cont) \in Seq(Requests)
      BY <2>1, RequestsOfList
    <3> QED BY <1>2, <2>1, <3>1, <3>2, <3>3, <3>4, ConcatRange
  <2> HIDE DEF a
  <2>4. b \in Seq(Scheduled) /\ Range(RequestsOf(b)) = P \cup K \cup D /\ IsInjective(RequestsOf(b))
    <3>1. \A x \in P \cup K : x \notin D
      BY <1>4, <2>2 DEF SixApart, Apart
    <3>2. Range(RequestsOf(p.run_decodes)) = D /\ IsInjective(RequestsOf(p.run_decodes))
      BY <1>3 DEF Decoding, NoDuplicates
    <3>3. b \in Seq(Scheduled) /\ RequestsOf(b) = RequestsOf(a) \o RequestsOf(p.run_decodes)
      BY <1>1, <2>3, RequestsOfConcat
    <3>4. RequestsOf(a) \in Seq(Requests)
      BY <2>3, RequestsOfList
    <3> QED BY <1>2, <2>3, <3>1, <3>2, <3>3, <3>4, ConcatRange
  <2> HIDE DEF b
  <2>5. c \in Seq(Scheduled) /\ Range(RequestsOf(c)) = P \cup K \cup D \cup I /\ IsInjective(RequestsOf(c))
    <3>1. \A x \in P \cup K \cup D : x \notin I
      BY <1>4, <2>2 DEF SixApart, Apart
    <3>2. Range(RequestsOf(p.in_decodes)) = I /\ IsInjective(RequestsOf(p.in_decodes))
      BY <1>3 DEF BroughtIn, NoDuplicates
    <3>3. c \in Seq(Scheduled) /\ RequestsOf(c) = RequestsOf(b) \o RequestsOf(p.in_decodes)
      BY <1>1, <2>4, RequestsOfConcat
    <3>4. RequestsOf(b) \in Seq(Requests)
      BY <2>4, RequestsOfList
    <3> QED BY <1>2, <2>4, <3>1, <3>2, <3>3, <3>4, ConcatRange
  <2>6. NewOutputs(p).scheduled = c
    BY DEF NewOutputs, a, b, cont
  <2> HIDE DEF c
  <2>7. Range(RequestsOf(c)) = P \cup D \cup I \cup K
    BY <2>5
  <2> QED BY <2>5, <2>6, <2>7 DEF K
<1> QED BY <1>3, <1>5, <1>6, <1>7, <1>8

LEMMA FiledCommit ==
    ASSUME Types, Filed, Commit
    PROVE  Filed'
<1>0. /\ phase = "commit" /\ PassFiled(pass, status) /\ ~in_flight /\ pass \in PassType
      /\ status' = status
  BY DEF Commit, Filed, Types, PassTypes, seqs
<1>1. /\ NoDuplicates(pass) /\ ListsApart(pass) /\ StatusOf(pass, status) /\ NothingLost(pass, status)
      /\ PassRequests(pass)
  BY <1>0, PassMembers DEF PassFiled
<1>2. PICK w, s, n, b : /\ w = NewWaiting(pass) /\ s = NewSwapped(pass) /\ n = NewRunning(pass)
                        /\ b = NewOutputs(pass).scheduled
  OBVIOUS
<1>3. /\ Range(w) = Range(pass.waiting) \cup Range(pass.preempted) /\ IsInjective(w)
      /\ Range(s) = Range(pass.swapped) \cup Range(pass.swapped_out) /\ IsInjective(s)
      /\ Range(n) = Range(pass.running) \cup Prefilled(pass) \cup Decoding(pass) \cup BroughtIn(pass)
                                        \cup (IF Chunked THEN Resumed(pass) ELSE {})
      /\ IsInjective(n)
      /\ IsInjective(RequestsOf(b))
      /\ Range(RequestsOf(b))
                = Prefilled(pass) \cup Decoding(pass) \cup BroughtIn(pass)
                    \cup (IF Chunked THEN Continued(pass) \cup Resumed(pass) ELSE {})
  BY <1>0, <1>1, <1>2, CommitLists
<1>4. /\ \A r \in Range(w) : r \in Requests /\ status[r] = "Waiting"
      /\ \A r \in Range(s) : r \in Requests /\ status[r] = "Swapped"
      /\ \A r \in Range(n) : r \in Requests /\ status[r] = "Running"
      /\ \A r \in Range(RequestsOf(b)) : status[r] = "Running"
  <2>1. \A r \in Range(w) : r \in Requests /\ status[r] = "Waiting"
    BY <1>1, <1>3 DEF StatusOf, PassRequests
  <2>2. \A r \in Range(s) : r \in Requests /\ status[r] = "Swapped"
    BY <1>1, <1>3 DEF StatusOf, PassRequests
  <2>3. \A r \in Range(n) : r \in Requests /\ status[r] = "Running"
    BY <1>1, <1>3 DEF StatusOf, PassRequests
  <2>4. \A r \in Range(RequestsOf(b)) : status[r] = "Running"
    BY <1>1, <1>3 DEF StatusOf, PassRequests
  <2> QED BY <2>1, <2>2, <2>3, <2>4
<1>5. NoneFinished'
  <2>1. CASE waiting' = w /\ running' = n /\ swapped' = s
    BY <1>0, <1>4, <2>1 DEF NoneFinished
  <2>2. CASE UNCHANGED queues
    BY <1>0, <2>2 DEF Filed, NoneFinished, queues
  <2> QED BY <1>2, <2>1, <2>2 DEF Commit
<1>6. CASE err' = "none"
  <2>1. /\ waiting' = w /\ running' = n /\ swapped' = s
        /\ outputs' = NewOutputs(pass) /\ phase' = "idle" /\ CommitError(pass) = "none"
    BY <1>2, <1>6 DEF Commit
  <2>2. outputs'.scheduled = b
    BY <1>2, <2>1
  <2>3. ~Chunked => pass.run_prefills = <<>> /\ pass.in_prefills = <<>>
    BY <2>1 DEF CommitError
  <2>4. ~Chunked => Continued(pass) = {} /\ Resumed(pass) = {}
    <3>1. <<>> \in Seq(Scheduled)
      OBVIOUS
    <3>2. RequestsOf(<<>>) = <<>>
      BY <3>1, RequestsOfList
    <3> QED BY <2>3, <3>2, EmptyList DEF Continued, Resumed
  <2>5. /\ \A r \in Requests : status[r] = "Waiting" => r \in Range(w)
        /\ \A r \in Requests : status[r] = "Swapped" => r \in Range(s)
        /\ \A r \in Requests : status[r] = "Running" /\ ~Chunked => r \in Range(n)
    <3>1. \A r \in Requests : status[r] = "Waiting" => r \in Range(w)
      BY <1>1, <1>3 DEF NothingLost
    <3>2. \A r \in Requests : status[r] = "Swapped" => r \in Range(s)
      BY <1>1, <1>3 DEF NothingLost
    <3>3. \A r \in Requests : status[r] = "Running" /\ ~Chunked => r \in Range(n)
      BY <1>1, <1>3, <2>4 DEF NothingLost
    <3> QED BY <3>1, <3>2, <3>3
  <2>6. QueuesFiled'
    BY <1>0, <1>3, <1>4, <2>1, <2>5 DEF QueuesFiled
  <2>7. BatchFiled'
    <3>1. b \in Seq(Scheduled)
      BY <1>0, <1>2, OutputsType
    <3>2. \A e \in Range(b) : e.id \in Range(RequestsOf(b))
      BY <3>1, RequestsOfRange
    <3> QED BY <1>0, <1>3, <1>4, <2>2, <3>2 DEF BatchFiled, Batch
  <2> QED BY <1>5, <2>1, <2>6, <2>7 DEF Filed
<1>7. CASE err' # "none"
  <2>1. UNCHANGED <<batch, phase, pass>>
    BY <1>7 DEF Commit
  <2>2. BatchFiled'
    BY <1>0, <2>1 DEF BatchFiled, batch
  <2> QED BY <1>0, <1>5, <2>1, <2>2 DEF Filed, batch
<1> QED BY <1>6, <1>7

LEMMA FiledAdd ==
    ASSUME Types, Filed, NEW r \in Requests, AddSequenceGroup(r)
    PROVE  Filed'
<1>0. /\ phase = "idle" /\ QueuesFiled /\ status \in [Requests -> Statuses] /\ status[r] = "Unborn"
      /\ status' = [status EXCEPT ![r] = "Waiting"]
      /\ waiting' = Append(waiting, r)
      /\ UNCHANGED <<running, swapped, phase, outputs, in_flight>>
  BY DEF AddSequenceGroup, Filed, Types, SeqTypes, batch
<1>1. waiting \in Seq(Requests) /\ running \in Seq(Requests) /\ swapped \in Seq(Requests)
  BY DEF Types, QueueTypes
<1>2. /\ Range(waiting) \subseteq Requests /\ Range(running) \subseteq Requests
      /\ Range(swapped) \subseteq Requests
  BY <1>1, RangeOfList
<1>3. r \notin Range(waiting) /\ r \notin Range(running) /\ r \notin Range(swapped)
  BY <1>0 DEF QueuesFiled
<1>4. Range(waiting') = Range(waiting) \cup {r} /\ IsInjective(waiting')
  BY <1>0, <1>1, <1>3, AppendList DEF QueuesFiled
<1>5. (\A q \in Requests : q # r => status'[q] = status[q]) /\ status'[r] = "Waiting"
  BY <1>0
<1>6. QueuesFiled'
  BY <1>0, <1>2, <1>3, <1>4, <1>5 DEF QueuesFiled
<1>7. BatchFiled'
  <2>1. outputs.scheduled \in Seq(Scheduled)
    BY DEF Types, BatchTypes
  <2>2. \A e \in Batch : e.id \in Requests
    BY <2>1, RequestsOfRange DEF Batch
  <2>3. Batch' = Batch
    BY <1>0 DEF Batch
  <2> QED BY <1>0, <1>5, <2>2, <2>3 DEF Filed, BatchFiled
<1>8. NoneFinished'
  BY <1>0, <1>2, <1>4, <1>5 DEF Filed, NoneFinished
<1> QED BY <1>0, <1>6, <1>7, <1>8 DEF Filed

LEMMA FiledProcess ==
    ASSUME Types, Filed, NEW stopped \in SUBSET Sampled, ProcessOutputs(stopped)
    PROVE  Filed'
<1>0. /\ phase = "idle" /\ phase' = "idle" /\ QueuesFiled /\ in_flight /\ in_flight' = FALSE
      /\ status \in [Requests -> Statuses]
      /\ UNCHANGED <<waiting, swapped>>
  BY DEF ProcessOutputs, Filed, Types, SeqTypes
<1>1. waiting \in Seq(Requests) /\ running \in Seq(Requests) /\ swapped \in Seq(Requests)
  BY DEF Types, QueueTypes
<1>2. /\ Range(waiting) \subseteq Requests /\ Range(running) \subseteq Requests
      /\ Range(swapped) \subseteq Requests
  BY <1>1, RangeOfList
<1>3. \A r \in Sampled : r \in Requests /\ status[r] \in {"Running", "FinishedAborted"}
  <2>1. Sampled \subseteq Requests
    BY ProcessOutputsEffect
  <2> QED BY <1>0, <2>1 DEF Filed, BatchFiled, Sampled
<1>4. BatchFiled'
  BY <1>0 DEF BatchFiled
<1>5. CASE UNCHANGED <<running, seqs>>
  <2>1. status' = status /\ running' = running
    BY <1>5 DEF seqs
  <2>2. QueuesFiled' /\ NoneFinished'
    BY <1>0, <2>1 DEF QueuesFiled, NoneFinished, Filed
  <2> QED BY <1>0, <1>4, <2>2 DEF Filed
<1>6. CASE OutputsProcessed(stopped)
  <2>1. PICK ended \in SUBSET Sampled :
            \A r \in Requests : status'[r] = IF r \in ended THEN "Finished" ELSE status[r]
    BY <1>6 DEF OutputsProcessed
  <2>2. PICK S : S = {r \in Requests : status'[r] \in Live}
    OBVIOUS
  <2>3. running' = Keep(running, S)
    BY <1>6, <2>2 DEF OutputsProcessed
  <2>4. Range(running') = Range(running) \cap S /\ IsInjective(running')
    BY <1>0, <1>1, <2>3, KeepRange, KeepInjective DEF QueuesFiled
  <2>5. \A r \in Requests : status'[r] = "Running" <=> status[r] = "Running" /\ r \notin ended
    BY <2>1
  <2>6. \A r \in Requests : /\ status'[r] = "Waiting" <=> status[r] = "Waiting"
                            /\ status'[r] = "Swapped" <=> status[r] = "Swapped"
    BY <1>3, <2>1
  <2>7. \A r \in Range(running') : status'[r] = "Running"
    <3>1. "Finished" \notin Live
      BY DEF Live
    <3> QED BY <1>0, <1>2, <2>1, <2>2, <2>4, <3>1 DEF QueuesFiled
  <2>8. \A r \in Requests : status'[r] = "Running" /\ ~Chunked => r \in Range(running')
    <3>1. "Running" \in Live
      BY DEF Live
    <3> QED BY <1>0, <2>2, <2>4, <2>5, <3>1 DEF QueuesFiled
  <2>9. QueuesFiled'
    BY <1>0, <2>4, <2>6, <2>7, <2>8 DEF QueuesFiled
  <2>10. NoneFinished'
    BY <1>0, <1>2, <2>6, <2>7 DEF NoneFinished, QueuesFiled
  <2> QED BY <1>0, <1>4, <2>9, <2>10 DEF Filed
<1> QED BY <1>5, <1>6, ProcessOutputsEffect

(* A step of a pass that leaves the queues and the batch alone. *)
LEMMA FiledStep ==
    ASSUME Types, Filed, PassFiled(pass', status'), phase # "idle", phase' # "idle",
           UNCHANGED <<queues, batch>>,
           \A r \in Requests : status'[r] = "Finished" => status[r] = "Finished"
    PROVE  Filed'
<1>1. ~in_flight' /\ BatchFiled'
  BY DEF Filed, BatchFiled, batch
<1>2. NoneFinished'
  <2>1. /\ Range(waiting) \subseteq Requests /\ Range(running) \subseteq Requests
        /\ Range(swapped) \subseteq Requests
    BY RangeOfList DEF Types, QueueTypes
  <2> QED BY <2>1 DEF NoneFinished, Filed, queues
<1> QED BY <1>1, <1>2 DEF Filed

LEMMA AfterNotIdle == AfterPrefills # "idle" /\ AfterRunning # "idle" /\ AfterSwapped # "idle"
BY DEF AfterPrefills, AfterRunning, AfterSwapped

LEMMA FiledPassStep == ASSUME Types, Filed, PassStep PROVE Filed'
<1>0. status \in [Requests -> Statuses]
  BY DEF Types, SeqTypes
<1>a. ASSUME phase # "idle", phase' # "idle", UNCHANGED <<queues, seqs, pass, batch>> PROVE Filed'
  <2>1. status' = status /\ pass' = pass
    BY <1>a DEF seqs
  <2>2. PassFiled(pass', status')
    BY <1>a, <2>1 DEF Filed
  <2> QED BY <1>a, <2>1, <2>2, FiledStep
<1>b. ASSUME NEW r \in Requests, NEW st, st # "Finished", status' = [status EXCEPT ![r] = st]
      PROVE  \A q \in Requests : status'[q] = "Finished" => status[q] = "Finished"
  BY <1>0, <1>b
<1>c. SeqTypes /\ PassTypes
  BY DEF Types
<1>1. CASE StopPrefills
  <2>1. phase # "idle" /\ phase' # "idle" /\ UNCHANGED <<queues, seqs, pass, batch>>
    BY <1>1, AfterNotIdle DEF StopPrefills, In, Delayed
  <2> QED BY <1>a, <2>1
<1>2. CASE StopRunning
  <2>1. phase # "idle" /\ phase' # "idle" /\ UNCHANGED <<queues, seqs, pass, batch>>
    BY <1>2, AfterNotIdle DEF StopRunning, In
  <2> QED BY <1>a, <2>1
<1>3. CASE StopSwapped
  <2>1. phase # "idle" /\ phase' # "idle" /\ UNCHANGED <<queues, seqs, pass, batch>>
    BY <1>3, AfterNotIdle DEF StopSwapped, In
  <2> QED BY <1>a, <2>1
<1>4. CASE PassFails
  <2>1. phase # "idle"
    <3>1. Verdict # "none"
      BY <1>4 DEF PassFails, Errors
    <3> QED BY <3>1 DEF Verdict
  <2>2. phase' # "idle" /\ UNCHANGED <<queues, seqs, pass, batch>>
    BY <1>4, <2>1 DEF PassFails
  <2> QED BY <1>a, <2>1, <2>2
<1>5. CASE PrefillIgnored
  <2>1. phase # "idle" /\ phase' # "idle" /\ UNCHANGED <<queues, batch>>
    BY <1>5 DEF PrefillIgnored, In
  <2>2. PassFiled(pass', status')
    BY <1>5, <2>1, FiledPrefillIgnored DEF Filed
  <2>3. \A q \in Requests : status'[q] = "Finished" => status[q] = "Finished"
    <3>1. PICK r \in Requests : status' = [status EXCEPT ![r] = "FinishedIgnored"]
      BY <1>5, <1>c, PrefillIgnoredEffect
    <3> QED BY <1>b, <3>1
  <2> QED BY <2>1, <2>2, <2>3, FiledStep
<1>6. CASE SwappedIgnored
  <2>1. phase # "idle" /\ phase' # "idle" /\ UNCHANGED <<queues, batch>>
    BY <1>6 DEF SwappedIgnored, In
  <2>2. PassFiled(pass', status')
    BY <1>6, <2>1, FiledSwappedIgnored DEF Filed
  <2>3. \A q \in Requests : status'[q] = "Finished" => status[q] = "Finished"
    <3>1. PICK r \in Requests : status' = [status EXCEPT ![r] = "FinishedIgnored"]
      BY <1>6, <1>c, SwappedIgnoredEffect
    <3> QED BY <1>b, <3>1
  <2> QED BY <2>1, <2>2, <2>3, FiledStep
<1>7. CASE PrefillScheduled
  <2>1. phase # "idle" /\ phase' # "idle" /\ UNCHANGED <<queues, batch>>
    BY <1>7 DEF PrefillScheduled, In
  <2>2. PassFiled(pass', status')
    BY <1>7, <2>1, FiledPrefillScheduled DEF Filed
  <2>3. \A q \in Requests : status'[q] = "Finished" => status[q] = "Finished"
    <3>1. PICK r \in Requests : status' = [status EXCEPT ![r] = "Running"]
      BY <1>7, <1>c, PrefillScheduledEffect
    <3> QED BY <1>b, <3>1
  <2> QED BY <2>1, <2>2, <2>3, FiledStep
<1>8. CASE RunningScheduled
  <2>1. phase # "idle" /\ phase' # "idle" /\ UNCHANGED <<queues, seqs, batch>>
    BY <1>8 DEF RunningScheduled, In
  <2>2. PassFiled(pass', status')
    BY <1>8, <2>1, FiledRunningScheduled DEF Filed
  <2>3. status' = status
    BY <2>1 DEF seqs
  <2> QED BY <2>1, <2>2, <2>3, FiledStep
<1>9. CASE SwappedScheduled
  <2>1. phase # "idle" /\ phase' # "idle" /\ UNCHANGED <<queues, batch>>
    BY <1>9 DEF SwappedScheduled, In
  <2>2. PassFiled(pass', status')
    BY <1>9, <2>1, FiledSwappedScheduled DEF Filed
  <2>3. \A q \in Requests : status'[q] = "Finished" => status[q] = "Finished"
    BY <1>0, <1>9 DEF SwappedScheduled
  <2> QED BY <2>1, <2>2, <2>3, FiledStep
<1>10. CASE Preempt
  <2>1. phase # "idle" /\ phase' # "idle" /\ UNCHANGED <<queues, batch>>
    BY <1>10 DEF Preempt, In
  <2>2. PassFiled(pass', status')
    BY <1>10, <2>1, FiledPreempt DEF Filed
  <2>3. \A q \in Requests : status'[q] = "Finished" => status[q] = "Finished"
    BY <1>0, <1>10 DEF Preempt
  <2> QED BY <2>1, <2>2, <2>3, FiledStep
<1>11. CASE Commit
  BY <1>11, FiledCommit
<1> QED BY <1>1, <1>2, <1>3, <1>4, <1>5, <1>6, <1>7, <1>8, <1>9, <1>10, <1>11 DEF PassStep

LEMMA FiledNext == ASSUME Types, Filed, Next \/ Dropped PROVE Filed'
<1>1. CASE \E r \in Requests : AddSequenceGroup(r)
  BY <1>1, FiledAdd
<1>2. CASE Schedule
  <2>1. /\ QueuesFiled /\ StartPass /\ ~in_flight /\ status' = status
        /\ UNCHANGED <<waiting, running, swapped, outputs, in_flight>>
    BY <1>2 DEF Schedule, Filed, queues, seqs, batch
  <2>2. PassFiled(pass', status') /\ phase' # "idle"
    BY <2>1, FiledStart
  <2>3. BatchFiled' /\ NoneFinished' /\ ~in_flight'
    BY <2>1 DEF Filed, BatchFiled, NoneFinished
  <2> QED BY <2>2, <2>3 DEF Filed
<1>3. CASE PassStep
  BY <1>3, FiledPassStep
<1>4. CASE \E stopped \in SUBSET Sampled : ProcessOutputs(stopped)
  BY <1>4, FiledProcess
<1>5. CASE Dropped
  <2>0. UNCHANGED <<waiting, running, swapped, status, pass, phase, outputs>>
    BY <1>5 DEF Dropped, queues, seqs
  <2>0a. in_flight' => in_flight
    BY <1>5 DEF Dropped
  <2>1. /\ UNCHANGED <<waiting, running, swapped, status, pass, phase, outputs>>
        /\ in_flight' => in_flight
    BY <2>0, <2>0a
  <2>2. BatchFiled' /\ NoneFinished' /\ (phase' = "idle" => QueuesFiled')
    BY <2>1 DEF Filed, BatchFiled, NoneFinished, QueuesFiled, Batch
  <2> QED BY <2>1, <2>2 DEF Filed
<1> QED BY <1>1, <1>2, <1>3, <1>4, <1>5 DEF Next

-----------------------------------------------------------------------------
(* Types and Filed are inductive. *)

LEMMA StutterDropped == UNCHANGED vars => Dropped
BY DEF vars, Dropped, queues, seqs, blocks, batch

(* The types, and where each request is filed, hold of every reachable state:
   whatever the queues, sequence lengths and pools, a pass keeps each request in
   exactly one of its lists. *)
THEOREM SchedulerInvariant == Spec => [](Types /\ Filed)
<1>1. Init => Types /\ Filed
  BY TypesInit, FiledInit
<1>2. (Types /\ Filed) /\ [Next]_vars => (Types /\ Filed)'
  BY TypesNext, FiledNext, StutterDropped
<1> QED BY <1>1, <1>2, PTL DEF Spec

LEMMA CountOf ==
    ASSUME NEW q \in Seq(Requests), IsInjective(q), NEW r \in Requests
    PROVE  Count(q, r) = IF r \in Range(q) THEN 1 ELSE 0
<1>1. CASE r \in Range(q)
  <2>1. PICK i \in DOMAIN q : q[i] = r
    BY <1>1 DEF Range
  <2>2. {k \in DOMAIN q : q[k] = r} = {i}
    BY <2>1 DEF IsInjective
  <2>3. Cardinality({i}) = 1
    BY FS_Singleton
  <2> QED BY <1>1, <2>2, <2>3 DEF Count
<1>2. CASE r \notin Range(q)
  <2>1. {k \in DOMAIN q : q[k] = r} = {}
    BY <1>2 DEF Range
  <2> QED BY <1>2, <2>1, FS_EmptySet DEF Count
<1> QED BY <1>1, <1>2

LEMMA QueuesMatch == ASSUME Types, Filed, ~Chunked PROVE QueuesMatchStatus
<1> SUFFICES ASSUME phase = "idle", NEW r \in Requests
             PROVE  /\ Count(waiting, r) = (IF status[r] = "Waiting" THEN 1 ELSE 0)
                    /\ Count(running, r) = (IF status[r] = "Running" THEN 1 ELSE 0)
                    /\ Count(swapped, r) = (IF status[r] = "Swapped" THEN 1 ELSE 0)
  BY DEF QueuesMatchStatus, Between
<1>1. QueuesFiled /\ waiting \in Seq(Requests) /\ running \in Seq(Requests) /\ swapped \in Seq(Requests)
  BY DEF Filed, Types, QueueTypes
<1>2. /\ r \in Range(waiting) <=> status[r] = "Waiting"
      /\ r \in Range(running) <=> status[r] = "Running"
      /\ r \in Range(swapped) <=> status[r] = "Swapped"
  BY <1>1 DEF QueuesFiled
<1>3. /\ Count(waiting, r) = (IF r \in Range(waiting) THEN 1 ELSE 0)
      /\ Count(running, r) = (IF r \in Range(running) THEN 1 ELSE 0)
      /\ Count(swapped, r) = (IF r \in Range(swapped) THEN 1 ELSE 0)
  BY <1>1, CountOf DEF QueuesFiled
<1> QED BY <1>2, <1>3

(* Under the default policy every request that waits, runs or is swapped is in
   the queue of its status between passes, once, and no other request is in a
   queue. *)
THEOREM NothingLostOrDuplicated == ~Chunked => (Spec => []QueuesMatchStatus)
<1> SUFFICES ASSUME ~Chunked PROVE Spec => []QueuesMatchStatus
  OBVIOUS
<1>1. Types /\ Filed => QueuesMatchStatus
  BY QueuesMatch
<1> QED BY <1>1, SchedulerInvariant, PTL

-----------------------------------------------------------------------------
(* Who holds which blocks, when sequence ids are distinct *)

GpuBlocks(r) == gpu_table[SequenceId[r]]

CpuBlocks(r) == cpu_table[SequenceId[r]]

(* What a request holds, by status.  A running or swapped one lacks at most the
   block for the token it last got. *)
Holds(r) ==
    /\ status[r] \in {"Unborn", "Waiting"} => GpuBlocks(r) = 0 /\ CpuBlocks(r) = 0
    /\ status[r] = "Swapped" =>
          GpuBlocks(r) = 0 /\ CpuBlocks(r) # 0 /\ LogicalBlocks(r) <= CpuBlocks(r) + 1
    /\ status[r] = "Running" =>
          CpuBlocks(r) = 0 /\ GpuBlocks(r) # 0 /\ LogicalBlocks(r) <= GpuBlocks(r) + 1
    /\ status[r] # "Unborn" => length[r] # 0

(* What a pass has scheduled so far *)
Chosen(p) == Prefilled(p) \cup Decoding(p) \cup Continued(p) \cup BroughtIn(p) \cup Resumed(p)

Held == \A r \in Requests : Holds(r)

PassBacked == phase # "idle" => \A r \in Chosen(pass) : LogicalBlocks(r) <= GpuBlocks(r)

FlightBacked ==
    in_flight => \A e \in Batch : status[e.id] = "Running" => LogicalBlocks(e.id) <= GpuBlocks(e.id)

Tables ==
    /\ GpuTotal = NumGpuBlocks /\ CpuTotal = NumCpuBlocks
    /\ Held /\ PassBacked /\ FlightBacked

DistinctIds == IsInjective(SequenceId)

(* A table operation on r touches no other request. *)
OthersKeep(r) ==
    \A q \in Requests : q # r => /\ gpu_table'[SequenceId[q]] = gpu_table[SequenceId[q]]
                                 /\ cpu_table'[SequenceId[q]] = cpu_table[SequenceId[q]]

LEMMA TableStep ==
    ASSUME DistinctIds, BlockTypes, NEW r \in Requests, NEW g, NEW c,
           gpu_table' = [gpu_table EXCEPT ![SequenceId[r]] = g],
           cpu_table' = [cpu_table EXCEPT ![SequenceId[r]] = c]
    PROVE  /\ gpu_table'[SequenceId[r]] = g /\ cpu_table'[SequenceId[r]] = c
           /\ OthersKeep(r)
<1>1. \A q \in Requests : SequenceId[q] \in Ids /\ (q # r => SequenceId[q] # SequenceId[r])
  BY IdsFinite, SequenceIdAssumption DEF DistinctIds, IsInjective
<1>2. SequenceId[r] \in DOMAIN gpu_table /\ SequenceId[r] \in DOMAIN cpu_table
  BY <1>1 DEF BlockTypes
<1> QED BY <1>1, <1>2 DEF OthersKeep, BlockTypes

LEMMA HeldStep ==
    ASSUME Held, NEW r \in Requests, length' = length, OthersKeep(r), Holds(r)',
           \A q \in Requests : q # r => status'[q] = status[q]
    PROVE  Held'
<1> SUFFICES ASSUME NEW q \in Requests PROVE Holds(q)'
  BY DEF Held
<1>1. CASE q = r
  BY <1>1
<1>2. CASE q # r
  BY <1>2 DEF Held, Holds, OthersKeep, GpuBlocks, CpuBlocks, LogicalBlocks
<1> QED BY <1>1, <1>2

LEMMA TablesStep ==
    ASSUME Types, Filed, Tables, phase # "idle", UNCHANGED batch,
           NEW r \in Requests, length' = length, OthersKeep(r), Holds(r)',
           \A q \in Requests : q # r => status'[q] = status[q],
           GpuTotal' = GpuTotal, CpuTotal' = CpuTotal,
           \A q \in Chosen(pass') : q \in Chosen(pass) \/ q = r,
           r \in Chosen(pass') => LogicalBlocks(r) <= gpu_table'[SequenceId[r]]
    PROVE  Tables'
<1>1. Held'
  BY HeldStep DEF Tables
<1>2. FlightBacked'
  BY DEF Filed, FlightBacked, batch
<1>3. PassBacked'
  <2> SUFFICES ASSUME NEW q \in Chosen(pass') PROVE LogicalBlocks(q)' <= GpuBlocks(q)'
    BY DEF PassBacked
  <2>1. LogicalBlocks(q)' = LogicalBlocks(q)
    BY DEF LogicalBlocks
  <2>2. CASE q = r
    BY <2>1, <2>2 DEF GpuBlocks
  <2>3. CASE q # r
    <3>1. q \in Chosen(pass) /\ q \in Requests
      <4>1. pass \in PassType
        BY DEF Types, PassTypes
      <4> QED BY <2>3, <4>1, PassMembers DEF Chosen, PassRequests
    <3> QED BY <2>1, <2>3, <3>1 DEF Tables, PassBacked, GpuBlocks, OthersKeep
  <2> QED BY <2>2, <2>3
<1> QED BY <1>1, <1>2, <1>3 DEF Tables

LEMMA TablesInit == Init => Tables
<1> SUFFICES ASSUME Init PROVE Tables
  OBVIOUS
<1>1. \A r \in Requests : SequenceId[r] \in Ids
  BY IdsFinite
<1>2. Held
  BY <1>1 DEF Init, Held, Holds, GpuBlocks, CpuBlocks
<1> QED BY <1>2, InitTotals DEF Init, Tables, PassBacked, FlightBacked

(* One more token needs at most one more block. *)
LEMMA OneMoreToken ==
    ASSUME NEW n \in Nat
    PROVE  (n + 1 + BlockSize - 1) \div BlockSize <= (n + BlockSize - 1) \div BlockSize + 1
<1> DEFINE a == (n + BlockSize - 1) \div BlockSize
           b == (n + 1 + BlockSize - 1) \div BlockSize
<1>1. BlockSize \in Nat \ {0} /\ n + BlockSize - 1 \in Nat /\ n + 1 + BlockSize - 1 \in Nat
  BY CapacityAssumption
<1>2. /\ a \in Nat /\ n + BlockSize - 1 < a * BlockSize + BlockSize
      /\ b \in Nat /\ b * BlockSize <= n + 1 + BlockSize - 1
  BY <1>1, DivBounds
<1> HIDE DEF a, b
<1>3. b * BlockSize <= a * BlockSize + BlockSize
  <2>1. PICK x \in Nat, y \in Nat : x = a * BlockSize /\ y = b * BlockSize
    BY <1>1, <1>2
  <2> QED BY <1>1, <1>2, <2>1
<1>4. ASSUME b >= a + 2 PROVE FALSE
  <2>1. PICK d \in Nat : b = a + 2 + d
    <3>1. b - a - 2 \in Nat /\ b = a + 2 + (b - a - 2)
      BY <1>2, <1>4
    <3> QED BY <3>1
  <2>2. b * BlockSize = a * BlockSize + BlockSize + BlockSize + d * BlockSize
    BY <1>1, <1>2, <2>1
  <2>3. PICK x \in Nat, y \in Nat : x = a * BlockSize /\ y = d * BlockSize
    BY <1>1, <1>2
  <2> QED BY <1>1, <1>3, <2>2, <2>3
<1>5. b <= a + 1
  BY <1>2, <1>4
<1> QED BY <1>5 DEF a, b

LEMMA TablesPrefillScheduled ==
    ASSUME DistinctIds, Types, Filed, Tables, PrefillScheduled
    PROVE  Tables'
<1>0. /\ SeqTypes /\ PassTypes /\ BlockTypes /\ phase # "idle" /\ UNCHANGED batch /\ length' = length
      /\ pass \in PassType
  BY DEF Types, PassTypes, PrefillScheduled, In
<1>1. PICK r \in Requests, n \in Nat :
             /\ r = Head(pass.waiting) /\ Allocate(r)
             /\ status' = [status EXCEPT ![r] = "Running"]
             /\ pass'.prefills = Append(pass.prefills, Entry(r, n))
             /\ pass'.run_decodes = pass.run_decodes /\ pass'.run_prefills = pass.run_prefills
             /\ pass'.in_decodes = pass.in_decodes /\ pass'.in_prefills = pass.in_prefills
  BY <1>0, PrefillScheduledEffect
<1>2. status[r] = "Waiting" /\ LogicalBlocks(r) <= free_gpu
  BY <1>1, PrefillRun DEF PrefillScheduled
<1>3. PICK b : b = LogicalBlocks(r)
  OBVIOUS
<1>4. b \in Nat /\ b # 0
  <2>1. length[r] # 0
    BY <1>2 DEF Tables, Held, Holds
  <2> QED BY <1>0, <1>3, <2>1, LogicalBlocksType
<1>5. gpu_table' = [gpu_table EXCEPT ![SequenceId[r]] = b] /\ cpu_table' = [cpu_table EXCEPT ![SequenceId[r]] = 0]
  BY <1>1, <1>3 DEF Allocate
<1>6. gpu_table'[SequenceId[r]] = b /\ cpu_table'[SequenceId[r]] = 0 /\ OthersKeep(r)
  BY <1>0, <1>5, TableStep
<1>7. GpuTotal' = GpuTotal /\ CpuTotal' = CpuTotal
  <2>1. /\ GpuTotal' = GpuTotal - gpu_table[SequenceId[r]]
        /\ CpuTotal' = CpuTotal - cpu_table[SequenceId[r]]
    BY <1>0, <1>1, <1>2, <1>3, <1>4, AllocateBlocks
  <2>2. gpu_table[SequenceId[r]] = 0 /\ cpu_table[SequenceId[r]] = 0
    BY <1>2 DEF Tables, Held, Holds, GpuBlocks, CpuBlocks
  <2>3. GpuTotal \in Nat /\ CpuTotal \in Nat
    BY CapacityAssumption DEF Tables
  <2> QED BY <2>1, <2>2, <2>3
<1>8. (\A q \in Requests : q # r => status'[q] = status[q]) /\ status'[r] = "Running"
  BY <1>0, <1>1 DEF SeqTypes
<1>9. Holds(r)'
  <2>1. LogicalBlocks(r)' = b
    BY <1>0, <1>3 DEF LogicalBlocks
  <2>2. length[r] # 0
    BY <1>2 DEF Tables, Held, Holds
  <2> QED BY <1>0, <1>4, <1>6, <1>8, <2>1, <2>2 DEF Holds, GpuBlocks, CpuBlocks
<1>10. \A q \in Chosen(pass') : q \in Chosen(pass) \/ q = r
  <2>1. PICK e \in Scheduled : e = Entry(r, n) /\ e.id = r
    BY <1>0, EntryType
  <2>2. Prefilled(pass') = Prefilled(pass) \cup {r}
    <3>1. pass.prefills \in Seq(Scheduled) /\ pass'.prefills = Append(pass.prefills, e)
      BY <1>0, <1>1, <2>1, PassLists
    <3> QED BY <2>1, <3>1, EntryAdded DEF Prefilled
  <2> QED BY <1>1, <2>2 DEF Chosen, Decoding, Continued, BroughtIn, Resumed
<1>11. LogicalBlocks(r) <= gpu_table'[SequenceId[r]]
  BY <1>3, <1>4, <1>6
<1> QED BY <1>0, <1>6, <1>7, <1>8, <1>9, <1>10, <1>11, TablesStep

LEMMA AppendEnough ==
    ASSUME Types, NEW r \in Requests, NEW n \in Nat, n # 0,
           LogicalBlocks(r) <= n + 1
    PROVE  LogicalBlocks(r) <= n + SlotsAppended(r, n) /\ n + SlotsAppended(r, n) \in Nat
<1>1. LogicalBlocks(r) \in Nat
  BY LogicalBlocksType DEF Types
<1> QED BY <1>1 DEF SlotsAppended

LEMMA TablesRunningScheduled ==
    ASSUME DistinctIds, Types, Filed, Tables, RunningScheduled
    PROVE  Tables'
<1>0. /\ SeqTypes /\ PassTypes /\ BlockTypes /\ phase # "idle" /\ UNCHANGED batch /\ length' = length
      /\ pass \in PassType /\ status' = status
  BY DEF Types, PassTypes, RunningScheduled, In, seqs
<1>1. PICK r \in Requests, n \in Nat :
             /\ r = Head(pass.running) /\ AppendSlots(r)
             /\ pass'.prefills = pass.prefills
             /\ stage[r] = "Prefill" => /\ pass'.run_prefills = Append(pass.run_prefills, Entry(r, n))
                                        /\ pass'.run_decodes = pass.run_decodes
             /\ stage[r] # "Prefill" => /\ pass'.run_decodes = Append(pass.run_decodes, Entry(r, 1))
                                        /\ pass'.run_prefills = pass.run_prefills
             /\ pass'.in_decodes = pass.in_decodes /\ pass'.in_prefills = pass.in_prefills
  BY <1>0, RunningScheduledEffect
<1>2. /\ status[r] = "Running" /\ CanAppendSlots(r)
      /\ AppendSlotsError(r, gpu_table[SequenceId[r]], free_gpu) = "none"
  BY <1>1, RunningRun DEF RunningScheduled
<1>3. PICK g : g = gpu_table[SequenceId[r]]
  OBVIOUS
<1>3a. /\ g \in Nat /\ g # 0 /\ LogicalBlocks(r) <= g + 1 /\ cpu_table[SequenceId[r]] = 0
       /\ length[r] # 0
  <2>1. g \in Nat
    BY <1>0, <1>3, TablesAreNumbers DEF TableFacts
  <2> QED BY <1>2, <1>3, <2>1 DEF Tables, Held, Holds, GpuBlocks, CpuBlocks
<1>4. PICK b : b = g + SlotsAppended(r, g)
  OBVIOUS
<1>4a. b \in Nat /\ LogicalBlocks(r) <= b
  BY <1>2, <1>3, <1>3a, <1>4, AppendEnough
<1>4b. b # 0
  BY <1>3a, <1>4, <1>4a, SlotsAppendedType
<1>5. gpu_table' = [gpu_table EXCEPT ![SequenceId[r]] = b] /\ cpu_table' = [cpu_table EXCEPT ![SequenceId[r]] = 0]
  <2>1. gpu_table' = [gpu_table EXCEPT ![SequenceId[r]] = b] /\ cpu_table' = cpu_table
    BY <1>1, <1>3, <1>4 DEF AppendSlots
  <2>2. cpu_table = [cpu_table EXCEPT ![SequenceId[r]] = 0]
    <3>1. cpu_table \in [Ids -> Nat]
      BY <1>0 DEF BlockTypes
    <3> QED BY <1>3a, <3>1
  <2> QED BY <2>1, <2>2
<1>6. gpu_table'[SequenceId[r]] = b /\ cpu_table'[SequenceId[r]] = 0 /\ OthersKeep(r)
  BY <1>0, <1>5, TableStep
<1>7. GpuTotal' = GpuTotal /\ CpuTotal' = CpuTotal
  BY <1>0, <1>1, <1>2, AppendBlocks DEF CanAppendSlots
<1>9. Holds(r)'
  <2>1. LogicalBlocks(r)' = LogicalBlocks(r) /\ LogicalBlocks(r) \in Nat
    BY <1>0, LogicalBlocksType DEF LogicalBlocks
  <2> QED BY <1>0, <1>2, <1>3a, <1>4a, <1>4b, <1>6, <2>1 DEF Holds, GpuBlocks, CpuBlocks
<1>10. \A q \in Chosen(pass') : q \in Chosen(pass) \/ q = r
  <2>0. pass.run_prefills \in Seq(Scheduled) /\ pass.run_decodes \in Seq(Scheduled)
    BY <1>0, PassLists
  <2>1. CASE stage[r] = "Prefill"
    <3>1. PICK e \in Scheduled : e = Entry(r, n) /\ e.id = r
      BY <1>0, EntryType
    <3>2. pass'.run_prefills = Append(pass.run_prefills, e) /\ pass'.run_decodes = pass.run_decodes
      BY <1>1, <2>1, <3>1
    <3>3. Continued(pass') = Continued(pass) \cup {r}
      BY <2>0, <3>1, <3>2, EntryAdded DEF Continued
    <3> QED BY <1>1, <3>2, <3>3 DEF Chosen, Prefilled, Decoding, BroughtIn, Resumed
  <2>2. CASE stage[r] # "Prefill"
    <3>1. PICK e \in Scheduled : e = Entry(r, 1) /\ e.id = r
      BY <1>0, EntryType
    <3>2. pass'.run_decodes = Append(pass.run_decodes, e) /\ pass'.run_prefills = pass.run_prefills
      BY <1>1, <2>2, <3>1
    <3>3. Decoding(pass') = Decoding(pass) \cup {r}
      BY <2>0, <3>1, <3>2, EntryAdded DEF Decoding
    <3> QED BY <1>1, <3>2, <3>3 DEF Chosen, Prefilled, Continued, BroughtIn, Resumed
  <2> QED BY <2>1, <2>2
<1> QED BY <1>0, <1>4a, <1>6, <1>7, <1>9, <1>10, TablesStep

LEMMA TablesSwappedScheduled ==
    ASSUME DistinctIds, Types, Filed, Tables, SwappedScheduled
    PROVE  Tables'
<1>0. /\ SeqTypes /\ PassTypes /\ BlockTypes /\ phase # "idle" /\ UNCHANGED batch /\ length' = length
      /\ pass \in PassType
  BY DEF Types, PassTypes, SwappedScheduled, In
<1>0a. cpu_table[SequenceId[Head(pass.swapped)]] \in Nat
  <2>1. pass.swapped # <<>> /\ pass.swapped \in Seq(Requests)
    BY <1>0, SwappedRun, PassLists DEF SwappedScheduled
  <2> QED BY <1>0, <2>1, HeadTail, TablesAreNumbers DEF TableFacts
<1>1. PICK r \in Requests, n \in Nat :
             /\ r = Head(pass.swapped) /\ SwapInAndAppend(r)
             /\ status' = [status EXCEPT ![r] = "Running"]
             /\ pass'.prefills = pass.prefills
             /\ pass'.run_decodes = pass.run_decodes /\ pass'.run_prefills = pass.run_prefills
             /\ stage[r] = "Prefill" => /\ pass'.in_prefills = Append(pass.in_prefills, Entry(r, n))
                                        /\ pass'.in_decodes = pass.in_decodes
             /\ stage[r] # "Prefill" => /\ pass'.in_decodes = Append(pass.in_decodes, Entry(r, 1))
                                        /\ pass'.in_prefills = pass.in_prefills
  BY <1>0, <1>0a, SwappedScheduledEffect
<1>2. /\ status[r] = "Swapped" /\ TableLen(r) + 1 <= free_gpu
      /\ AppendSlotsError(r, cpu_table[SequenceId[r]], free_gpu - cpu_table[SequenceId[r]]) = "none"
  BY <1>1, SwappedRun DEF SwappedScheduled
<1>3. PICK c : c = cpu_table[SequenceId[r]]
  OBVIOUS
<1>3a. /\ c \in Nat /\ c # 0 /\ LogicalBlocks(r) <= c + 1 /\ gpu_table[SequenceId[r]] = 0
       /\ length[r] # 0
  BY <1>0a, <1>1, <1>2, <1>3 DEF Tables, Held, Holds, GpuBlocks, CpuBlocks
<1>4. PICK b : b = c + SlotsAppended(r, c)
  OBVIOUS
<1>4a. b \in Nat /\ LogicalBlocks(r) <= b
  BY <1>2, <1>3, <1>3a, <1>4, AppendEnough
<1>4b. b # 0
  BY <1>3a, <1>4, <1>4a, SlotsAppendedType
<1>5. gpu_table' = [gpu_table EXCEPT ![SequenceId[r]] = b] /\ cpu_table' = [cpu_table EXCEPT ![SequenceId[r]] = 0]
  BY <1>1, <1>3, <1>4 DEF SwapInAndAppend
<1>6. gpu_table'[SequenceId[r]] = b /\ cpu_table'[SequenceId[r]] = 0 /\ OthersKeep(r)
  BY <1>0, <1>5, TableStep
<1>7. GpuTotal' = GpuTotal /\ CpuTotal' = CpuTotal
  <2>1. GpuTotal' = GpuTotal - gpu_table[SequenceId[r]] /\ CpuTotal' = CpuTotal
    BY <1>0, <1>1, <1>2, SwapInBlocks
  <2>2. GpuTotal \in Nat
    BY CapacityAssumption DEF Tables
  <2> QED BY <1>3a, <2>1, <2>2
<1>8. (\A q \in Requests : q # r => status'[q] = status[q]) /\ status'[r] = "Running"
  BY <1>0, <1>1 DEF SeqTypes
<1>9. Holds(r)'
  <2>1. LogicalBlocks(r)' = LogicalBlocks(r) /\ LogicalBlocks(r) \in Nat
    BY <1>0, LogicalBlocksType DEF LogicalBlocks
  <2> QED BY <1>0, <1>3a, <1>4a, <1>4b, <1>6, <1>8, <2>1 DEF Holds, GpuBlocks, CpuBlocks
<1>10. \A q \in Chosen(pass') : q \in Chosen(pass) \/ q = r
  <2>0. pass.in_prefills \in Seq(Scheduled) /\ pass.in_decodes \in Seq(Scheduled)
    BY <1>0, PassLists
  <2>1. CASE stage[r] = "Prefill"
    <3>1. PICK e \in Scheduled : e = Entry(r, n) /\ e.id = r
      BY <1>0, EntryType
    <3>2. pass'.in_prefills = Append(pass.in_prefills, e) /\ pass'.in_decodes = pass.in_decodes
      BY <1>1, <2>1, <3>1
    <3>3. Resumed(pass') = Resumed(pass) \cup {r}
      BY <2>0, <3>1, <3>2, EntryAdded DEF Resumed
    <3> QED BY <1>1, <3>2, <3>3 DEF Chosen, Prefilled, Decoding, BroughtIn, Continued
  <2>2. CASE stage[r] # "Prefill"
    <3>1. PICK e \in Scheduled : e = Entry(r, 1) /\ e.id = r
      BY <1>0, EntryType
    <3>2. pass'.in_decodes = Append(pass.in_decodes, e) /\ pass'.in_prefills = pass.in_prefills
      BY <1>1, <2>2, <3>1
    <3>3. BroughtIn(pass') = BroughtIn(pass) \cup {r}
      BY <2>0, <3>1, <3>2, EntryAdded DEF BroughtIn
    <3> QED BY <1>1, <3>2, <3>3 DEF Chosen, Prefilled, Decoding, Continued, Resumed
  <2> QED BY <2>1, <2>2
<1> QED BY <1>0, <1>4a, <1>6, <1>7, <1>8, <1>9, <1>10, TablesStep

LEMMA TablesPreempt ==
    ASSUME DistinctIds, Types, Filed, Tables, Preempt
    PROVE  Tables'
<1>0. /\ SeqTypes /\ PassTypes /\ BlockTypes /\ phase # "idle" /\ UNCHANGED batch /\ length' = length
      /\ pass \in PassType /\ PassFiled(pass, status)
  BY DEF Types, PassTypes, Preempt, In, Filed
<1>0a. \A v \in Requests : gpu_table[SequenceId[v]] \in Nat
  BY <1>0, TablesAreNumbers DEF TableFacts
<1>1. PICK v \in Requests :
             /\ pass.running # <<>> /\ v = Last(pass.running)
             /\ Recomputed(v) \/ SwappedOut(v)
             /\ SameChosen(pass', pass)
  BY <1>0, <1>0a, PreemptEffect
<1>2. v \in Range(pass.running)
  BY <1>0, <1>1, PassLists, LastOf
<1>3. status[v] = "Running" /\ v \notin Chosen(pass)
  <2>1. status[v] = "Running"
    BY <1>0, <1>2 DEF PassFiled, StatusOf
  <2>2. /\ v \notin Prefilled(pass) /\ v \notin Decoding(pass) /\ v \notin Continued(pass)
        /\ v \notin BroughtIn(pass) /\ v \notin Resumed(pass)
    BY <1>0, <1>2 DEF PassFiled, ListsApart, SixApart, Apart
  <2> QED BY <2>1, <2>2 DEF Chosen
<1>4. Chosen(pass') = Chosen(pass)
  BY <1>1 DEF SameChosen, Chosen, Prefilled, Decoding, Continued, BroughtIn, Resumed
<1>5. PICK g : g = gpu_table[SequenceId[v]]
  OBVIOUS
<1>6. g \in Nat /\ g # 0 /\ LogicalBlocks(v) <= g + 1 /\ cpu_table[SequenceId[v]] = 0 /\ length[v] # 0
  BY <1>0a, <1>3, <1>5 DEF Tables, Held, Holds, GpuBlocks, CpuBlocks
<1>7. LogicalBlocks(v)' = LogicalBlocks(v)
  BY <1>0 DEF LogicalBlocks
<1>8. CASE Recomputed(v)
  <2>1. /\ FreeSequence(v) /\ status' = [status EXCEPT ![v] = "Waiting"]
        /\ gpu_table' = [gpu_table EXCEPT ![SequenceId[v]] = 0]
        /\ cpu_table' = [cpu_table EXCEPT ![SequenceId[v]] = 0]
    BY <1>8 DEF Recomputed, FreeSequence
  <2>2. gpu_table'[SequenceId[v]] = 0 /\ cpu_table'[SequenceId[v]] = 0 /\ OthersKeep(v)
    BY <1>0, <2>1, TableStep
  <2>3. GpuTotal' = GpuTotal /\ CpuTotal' = CpuTotal
    BY <1>0, <2>1, FreeBlocks
  <2>4. (\A q \in Requests : q # v => status'[q] = status[q]) /\ status'[v] = "Waiting"
    BY <1>0, <2>1 DEF SeqTypes
  <2>5. Holds(v)'
    BY <1>0, <1>6, <2>2, <2>4 DEF Holds, GpuBlocks, CpuBlocks
  <2> QED BY <1>0, <1>3, <1>4, <2>2, <2>3, <2>4, <2>5, TablesStep
<1>9. CASE SwappedOut(v)
  <2>1. /\ SwapOut(v) /\ CanSwapOut(v) /\ status' = [status EXCEPT ![v] = "Swapped"]
        /\ gpu_table' = [gpu_table EXCEPT ![SequenceId[v]] = 0]
        /\ cpu_table' = [cpu_table EXCEPT ![SequenceId[v]] = g]
    BY <1>5, <1>9 DEF SwappedOut, SwapOut
  <2>2. gpu_table'[SequenceId[v]] = 0 /\ cpu_table'[SequenceId[v]] = g /\ OthersKeep(v)
    BY <1>0, <2>1, TableStep
  <2>3. GpuTotal' = GpuTotal /\ CpuTotal' = CpuTotal
    <3>1. GpuTotal' = GpuTotal /\ CpuTotal' = CpuTotal - cpu_table[SequenceId[v]]
      BY <1>0, <2>1, SwapOutBlocks
    <3>2. CpuTotal \in Nat
      BY CapacityAssumption DEF Tables
    <3> QED BY <1>6, <3>1, <3>2
  <2>4. (\A q \in Requests : q # v => status'[q] = status[q]) /\ status'[v] = "Swapped"
    BY <1>0, <2>1 DEF SeqTypes
  <2>5. Holds(v)'
    BY <1>0, <1>6, <1>7, <2>2, <2>4 DEF Holds, GpuBlocks, CpuBlocks
  <2> QED BY <1>0, <1>3, <1>4, <2>2, <2>3, <2>4, <2>5, TablesStep
<1> QED BY <1>1, <1>8, <1>9

LEMMA TablesAdd ==
    ASSUME Types, Filed, Tables, NEW r \in Requests, AddSequenceGroup(r)
    PROVE  Tables'
<1>1. PICK n \in Nat \ {0} : length' = [length EXCEPT ![r] = n]
  BY RequestsAssumption DEF AddSequenceGroup
<1>2. /\ status' = [status EXCEPT ![r] = "Waiting"] /\ status[r] = "Unborn"
      /\ UNCHANGED <<gpu_table, cpu_table, free_gpu, free_cpu, phase, outputs, in_flight>>
      /\ phase = "idle"
  BY DEF AddSequenceGroup, blocks, batch
<1>3. SeqTypes
  BY DEF Types
<1>4. \A q \in Requests : q # r => status'[q] = status[q] /\ length'[q] = length[q]
  BY <1>1, <1>2, <1>3 DEF SeqTypes
<1>5. status'[r] = "Waiting" /\ length'[r] # 0
  BY <1>1, <1>2, <1>3 DEF SeqTypes
<1>6. Held'
  <2> SUFFICES ASSUME NEW q \in Requests PROVE Holds(q)'
    BY DEF Held
  <2>1. CASE q = r
    BY <1>2, <1>5, <2>1 DEF Tables, Held, Holds, GpuBlocks, CpuBlocks
  <2>2. CASE q # r
    BY <1>2, <1>4, <2>2 DEF Tables, Held, Holds, GpuBlocks, CpuBlocks, LogicalBlocks
  <2> QED BY <2>1, <2>2
<1>7. FlightBacked'
  <2> SUFFICES ASSUME in_flight, NEW e \in Batch, status'[e.id] = "Running"
               PROVE  LogicalBlocks(e.id)' <= GpuBlocks(e.id)'
    BY <1>2 DEF FlightBacked, Batch
  <2>1. e.id \in Requests /\ e.id # r
    <3>1. outputs.scheduled \in Seq(Scheduled)
      BY DEF Types, BatchTypes
    <3>2. e.id \in Requests
      BY <3>1, RequestsOfRange DEF Batch
    <3> QED BY <1>2, <3>2 DEF Filed, BatchFiled
  <2> QED BY <1>2, <1>4, <2>1 DEF Tables, FlightBacked, LogicalBlocks, GpuBlocks
<1>8. GpuTotal' = GpuTotal /\ CpuTotal' = CpuTotal
  BY <1>2 DEF GpuTotal, CpuTotal
<1>9. PassBacked'
  BY <1>2 DEF PassBacked
<1> QED BY <1>6, <1>7, <1>8, <1>9 DEF Tables

LEMMA TablesProcess ==
    ASSUME Types, Filed, Tables, NEW stopped \in SUBSET Sampled, ProcessOutputs(stopped)
    PROVE  Tables'
<1>1. /\ UNCHANGED <<gpu_table, cpu_table, free_gpu, free_cpu, phase>> /\ in_flight' = FALSE
      /\ phase = "idle" /\ in_flight
  BY DEF ProcessOutputs, blocks
<1>2. GpuTotal' = GpuTotal /\ CpuTotal' = CpuTotal /\ PassBacked' /\ FlightBacked'
  BY <1>1 DEF GpuTotal, CpuTotal, PassBacked, FlightBacked
<1>3. CASE UNCHANGED <<running, seqs>>
  <2>1. Held'
    BY <1>1, <1>3 DEF Tables, Held, Holds, GpuBlocks, CpuBlocks, LogicalBlocks, seqs
  <2> QED BY <1>2, <2>1 DEF Tables
<1>4. CASE OutputsProcessed(stopped)
  <2>1. Held'
    <3> SUFFICES ASSUME NEW r \in Requests PROVE Holds(r)'
      BY DEF Held
    <3>1. length[r] \in Nat /\ SeqTypes
      BY DEF Types, SeqTypes
    <3>2. status'[r] = "Finished" \/ status'[r] = status[r]
      BY <1>4 DEF OutputsProcessed
    <3>3. GpuBlocks(r)' = GpuBlocks(r) /\ CpuBlocks(r)' = CpuBlocks(r)
      BY <1>1 DEF GpuBlocks, CpuBlocks
    <3>4. CASE r \notin Sampled
      <4>1. length'[r] = length[r] /\ LogicalBlocks(r)' = LogicalBlocks(r)
        BY <1>4, <3>4 DEF OutputsProcessed, LogicalBlocks
      <4>2. status'[r] = status[r]
        BY <1>4, <3>4 DEF OutputsProcessed
      <4>3. Holds(r)
        BY DEF Tables, Held
      <4> QED BY <3>3, <4>1, <4>2, <4>3 DEF Holds
    <3>5. CASE r \in Sampled
      <4>1. length'[r] = length[r] + 1
        BY <1>4, <3>5 DEF OutputsProcessed
      <4>2. PICK e \in Batch : e.id = r
        BY <3>5 DEF Sampled
      <4>a. status[r] \in {"Running", "FinishedAborted"} /\ length'[r] # 0
        BY <1>1, <3>1, <4>1, <4>2 DEF Filed, BatchFiled
      <4>b. CASE status[r] # "Running"
        BY <3>2, <4>a, <4>b DEF Holds
      <4> SUFFICES ASSUME status[r] = "Running" PROVE Holds(r)'
        BY <4>b
      <4>3. status[r] = "Running" /\ LogicalBlocks(r) <= GpuBlocks(r)
        BY <1>1, <4>2 DEF Tables, FlightBacked
      <4>4. CpuBlocks(r) = 0 /\ GpuBlocks(r) # 0
        BY <4>3 DEF Tables, Held, Holds
      <4>5. LogicalBlocks(r)' <= LogicalBlocks(r) + 1
        BY <3>1, <4>1, OneMoreToken DEF LogicalBlocks
      <4>6. GpuBlocks(r) \in Nat
        BY TablesAreNumbers DEF TableFacts, GpuBlocks, Types
      <4>7. LogicalBlocks(r) \in Nat
        BY <3>1, LogicalBlocksType
      <4>8. LogicalBlocks(r)' \in Nat
        <5>1. SeqTypes'
          BY TypesProcess DEF Types
        <5>2. BlockSize \in Nat \ {0} /\ length'[r] \in Nat /\ length'[r] + BlockSize - 1 \in Nat
          BY <3>1, <4>1, CapacityAssumption
        <5> QED BY <5>2, DivBounds DEF LogicalBlocks
      <4>9. LogicalBlocks(r)' <= GpuBlocks(r) + 1
        BY <4>3, <4>5, <4>6, <4>7, <4>8
      <4> QED BY <3>1, <3>2, <3>3, <4>1, <4>3, <4>4, <4>9 DEF Holds
    <3> QED BY <3>4, <3>5
  <2> QED BY <1>2, <2>1 DEF Tables
<1> QED BY <1>3, <1>4, ProcessOutputsEffect

LEMMA TablesStart ==
    ASSUME Types, Tables, StartPass, UNCHANGED <<seqs, blocks, batch>>
    PROVE  Tables'
<1>1. UNCHANGED <<status, length, gpu_table, cpu_table, free_gpu, free_cpu, outputs, in_flight>>
  BY DEF seqs, blocks, batch
<1>2. Chosen(pass') = {}
  <2>1. SameChosen(pass', EmptyPass)
    BY StartPassEffect DEF Types
  <2>2. <<>> \in Seq(Scheduled)
    OBVIOUS
  <2>3. Range(RequestsOf(<<>>)) = {}
    BY <2>2, RequestsOfList, EmptyList
  <2> QED BY <2>1, <2>3 DEF SameChosen, EmptyPass, Chosen, Prefilled, Decoding, Continued, BroughtIn, Resumed
<1>3. GpuTotal' = GpuTotal /\ CpuTotal' = CpuTotal /\ PassBacked'
  BY <1>1, <1>2 DEF GpuTotal, CpuTotal, PassBacked
<1>4. Held' /\ FlightBacked'
  BY <1>1 DEF Tables, Held, Holds, GpuBlocks, CpuBlocks, LogicalBlocks, FlightBacked, Batch
<1> QED BY <1>3, <1>4 DEF Tables

LEMMA TablesCommit ==
    ASSUME Types, Filed, Tables, Commit
    PROVE  Tables'
<1>1. /\ UNCHANGED <<status, length, gpu_table, cpu_table, free_gpu, free_cpu>>
      /\ phase = "commit" /\ PassFiled(pass, status) /\ ~in_flight /\ pass \in PassType
  BY DEF Commit, Filed, Types, PassTypes, seqs, blocks
<1>2. GpuTotal' = GpuTotal /\ CpuTotal' = CpuTotal
  BY <1>1 DEF GpuTotal, CpuTotal
<1>3. Held'
  BY <1>1 DEF Tables, Held, Holds, GpuBlocks, CpuBlocks, LogicalBlocks
<1>4. CASE err' = "none"
  <2>1. outputs' = NewOutputs(pass) /\ phase' = "idle"
    BY <1>4 DEF Commit
  <2>2. FlightBacked'
    <3> SUFFICES ASSUME NEW e \in Batch' PROVE LogicalBlocks(e.id)' <= GpuBlocks(e.id)'
      BY DEF FlightBacked
    <3>1. PICK b : b = NewOutputs(pass).scheduled
      OBVIOUS
    <3>2. b \in Seq(Scheduled) /\ e \in Range(b)
      BY <1>1, <2>1, <3>1, OutputsType DEF Batch
    <3>3. e.id \in Range(RequestsOf(b))
      BY <3>2, RequestsOfRange
    <3>4. e.id \in Chosen(pass)
      <4>1. Range(RequestsOf(b)) = Prefilled(pass) \cup Decoding(pass) \cup BroughtIn(pass)
                    \cup (IF Chunked THEN Continued(pass) \cup Resumed(pass) ELSE {})
        BY <1>1, <3>1, CommitLists DEF PassFiled
      <4> QED BY <3>3, <4>1 DEF Chosen
    <3>5. LogicalBlocks(e.id) <= GpuBlocks(e.id)
      BY <1>1, <3>4 DEF Tables, PassBacked
    <3> QED BY <1>1, <3>5 DEF LogicalBlocks, GpuBlocks
  <2>3. PassBacked'
    BY <2>1 DEF PassBacked
  <2> QED BY <1>2, <1>3, <2>2, <2>3 DEF Tables
<1>5. CASE err' # "none"
  <2>1. UNCHANGED <<phase, pass, outputs, in_flight>>
    BY <1>5 DEF Commit, batch
  <2>2. PassBacked' /\ FlightBacked'
    BY <1>1, <2>1 DEF Tables, PassBacked, FlightBacked, LogicalBlocks, GpuBlocks
  <2> QED BY <1>2, <1>3, <2>2 DEF Tables
<1> QED BY <1>4, <1>5

(* Nothing but the phase, the queues or the error changes. *)
LEMMA TablesSame ==
    ASSUME Tables, UNCHANGED <<status, length, gpu_table, cpu_table, free_gpu, free_cpu, outputs>>,
           phase' # "idle" => phase # "idle" /\ Chosen(pass') = Chosen(pass),
           in_flight' => in_flight
    PROVE  Tables'
<1>1. GpuTotal' = GpuTotal /\ CpuTotal' = CpuTotal
  BY DEF GpuTotal, CpuTotal
<1>2. Held'
  BY DEF Tables, Held, Holds, GpuBlocks, CpuBlocks, LogicalBlocks
<1>3. PassBacked' /\ FlightBacked'
  BY DEF Tables, PassBacked, FlightBacked, LogicalBlocks, GpuBlocks, Batch
<1> QED BY <1>1, <1>2, <1>3 DEF Tables

LEMMA TablesIgnored ==
    ASSUME Types, Filed, Tables, PrefillIgnored \/ SwappedIgnored PROVE Tables'
<1>1. /\ UNCHANGED <<length, gpu_table, cpu_table, free_gpu, free_cpu, outputs, in_flight>>
      /\ phase' = phase
  BY DEF PrefillIgnored, SwappedIgnored, blocks, batch
<1>2. PICK r \in Requests : /\ status' = [status EXCEPT ![r] = "FinishedIgnored"]
                            /\ SameChosen(pass', pass) /\ (status[r] = "Waiting" \/ SwappedIgnored)
  BY PrefillIgnoredEffect, SwappedIgnoredEffect DEF Types
<1>2a. status[r] # "Unborn"
  <2>1. CASE SwappedIgnored
    <3>1. PICK q \in Requests : q = Head(pass.swapped) /\ status' = [status EXCEPT ![q] = "FinishedIgnored"]
                                /\ pass.swapped # <<>>
      BY <2>1, SwappedIgnoredEffect DEF Types
    <3>2. pass.swapped \in Seq(Requests) /\ PassFiled(pass, status)
      BY <2>1 DEF Types, PassTypes, PassType, Filed, SwappedIgnored, In
    <3>3. status[q] = "Swapped"
      BY <3>1, <3>2, HeadTail DEF PassFiled, StatusOf
    <3>4. q = r \/ status'[r] = status[r]
      BY <1>2, <3>1 DEF Types, SeqTypes
    <3>5. status'[r] = "FinishedIgnored"
      BY <1>2 DEF Types, SeqTypes
    <3> QED BY <3>3, <3>4, <3>5
  <2> QED BY <1>2, <2>1
<1>3. (\A q \in Requests : q # r => status'[q] = status[q]) /\ status'[r] = "FinishedIgnored"
  BY <1>2 DEF Types, SeqTypes
<1>4. Held'
  <2> SUFFICES ASSUME NEW q \in Requests PROVE Holds(q)'
    BY DEF Held
  <2>1. CASE q = r
    BY <1>1, <1>2a, <1>3, <2>1 DEF Tables, Held, Holds
  <2>2. CASE q # r
    BY <1>1, <1>3, <2>2 DEF Tables, Held, Holds, GpuBlocks, CpuBlocks, LogicalBlocks
  <2> QED BY <2>1, <2>2
<1>5. GpuTotal' = GpuTotal /\ CpuTotal' = CpuTotal
  BY <1>1 DEF GpuTotal, CpuTotal
<1>6. PassBacked' /\ FlightBacked'
  <2>1. Chosen(pass') = Chosen(pass)
    BY <1>2 DEF SameChosen, Chosen, Prefilled, Decoding, Continued, BroughtIn, Resumed
  <2>2. ~in_flight'
    BY <1>1 DEF Filed, PrefillIgnored, SwappedIgnored, In
  <2> QED BY <1>1, <2>1, <2>2 DEF Tables, PassBacked, FlightBacked, LogicalBlocks, GpuBlocks
<1> QED BY <1>4, <1>5, <1>6 DEF Tables

LEMMA TablesPassStep == ASSUME DistinctIds, Types, Filed, Tables, PassStep PROVE Tables'
<1>a. ASSUME phase # "idle", UNCHANGED <<seqs, blocks, pass, batch>> PROVE Tables'
  BY <1>a, TablesSame DEF seqs, blocks, batch
<1>1. CASE StopPrefills
  BY <1>1, <1>a DEF StopPrefills, In, Delayed
<1>2. CASE StopRunning
  BY <1>2, <1>a DEF StopRunning, In
<1>3. CASE StopSwapped
  BY <1>3, <1>a DEF StopSwapped, In
<1>4. CASE PassFails
  <2>1. Verdict # "none"
    BY <1>4 DEF PassFails, Errors
  <2>2. phase # "idle"
    BY <2>1 DEF Verdict
  <2> QED BY <1>4, <1>a, <2>2 DEF PassFails
<1>5. CASE PrefillIgnored \/ SwappedIgnored
  BY <1>5, TablesIgnored
<1>6. CASE PrefillScheduled
  BY <1>6, TablesPrefillScheduled
<1>7. CASE RunningScheduled
  BY <1>7, TablesRunningScheduled
<1>8. CASE Preempt
  BY <1>8, TablesPreempt
<1>9. CASE SwappedScheduled
  BY <1>9, TablesSwappedScheduled
<1>10. CASE Commit
  BY <1>10, TablesCommit
<1> QED BY <1>1, <1>2, <1>3, <1>4, <1>5, <1>6, <1>7, <1>8, <1>9, <1>10 DEF PassStep

LEMMA TablesNext == ASSUME DistinctIds, Types, Filed, Tables, Next \/ Dropped PROVE Tables'
<1>1. CASE \E r \in Requests : AddSequenceGroup(r)
  BY <1>1, TablesAdd
<1>2. CASE Schedule
  BY <1>2, TablesStart DEF Schedule
<1>3. CASE PassStep
  BY <1>3, TablesPassStep
<1>4. CASE \E stopped \in SUBSET Sampled : ProcessOutputs(stopped)
  BY <1>4, TablesProcess
<1>5. CASE Dropped
  <2>1. UNCHANGED <<status, length, gpu_table, cpu_table, free_gpu, free_cpu, outputs, phase, pass>>
    BY <1>5 DEF Dropped, seqs, blocks
  <2>2. in_flight' => in_flight
    BY <1>5 DEF Dropped
  <2> QED BY <2>1, <2>2, TablesSame
<1> QED BY <1>1, <1>2, <1>3, <1>4, <1>5 DEF Next

(* The accounting invariant and its consequences *)
LEMMA TablesInvariant == DistinctIds => (Spec => [](Types /\ Filed /\ Tables))
<1> SUFFICES ASSUME DistinctIds PROVE Spec => [](Types /\ Filed /\ Tables)
  OBVIOUS
<1>1. Init => Types /\ Filed /\ Tables
  BY TypesInit, FiledInit, TablesInit
<1>2. (Types /\ Filed /\ Tables) /\ [Next]_vars => (Types /\ Filed /\ Tables)'
  BY TypesNext, FiledNext, TablesNext, StutterDropped
<1> QED BY <1>1, <1>2, PTL DEF Spec

LEMMA BlocksSum == Tables => BlocksConserved
BY DEF Tables, GpuTotal, CpuTotal, Total, BlocksConserved

(* Whatever the pools, the requests and the order of steps, blocks are never
   leaked or handed out twice: free blocks and tables add up to each pool. *)
THEOREM BlocksAddUp == DistinctIds => (Spec => []BlocksConserved)
<1> SUFFICES ASSUME DistinctIds PROVE Spec => []BlocksConserved
  OBVIOUS
<1> QED BY BlocksSum, TablesInvariant, PTL

LEMMA NothingHeld == ASSUME Types, Tables PROVE PreemptedHoldNothing
<1> SUFFICES ASSUME NEW r \in Requests
             PROVE  /\ status[r] = "Waiting" => TableLen(r) = 0
                    /\ status[r] = "Swapped" => gpu_table[SequenceId[r]] = 0
  BY DEF PreemptedHoldNothing
<1>1. Holds(r)
  BY DEF Tables, Held
<1> QED BY <1>1 DEF Holds, GpuBlocks, CpuBlocks, TableLen

(* A request that was preempted by recomputation, or not admitted yet, holds no
   block, and a swapped one none of the GPU. *)
THEOREM PreemptionFreesBlocks == DistinctIds => (Spec => []PreemptedHoldNothing)
<1> SUFFICES ASSUME DistinctIds PROVE Spec => []PreemptedHoldNothing
  OBVIOUS
<1>1. Types /\ Tables => PreemptedHoldNothing
  BY NothingHeld
<1> QED BY <1>1, TablesInvariant, PTL

(* As many blocks as the length needs have a slot for every token. *)
LEMMA EnoughSlots ==
    ASSUME NEW n \in Nat, NEW g \in Nat, (n + BlockSize - 1) \div BlockSize <= g
    PROVE  g * BlockSize >= n
<1> DEFINE a == (n + BlockSize - 1) \div BlockSize
<1>1. BlockSize \in Nat \ {0} /\ n + BlockSize - 1 \in Nat
  BY CapacityAssumption
<1>2. a \in Nat /\ n + BlockSize - 1 < a * BlockSize + BlockSize
  BY <1>1, DivBounds
<1>3. a <= g
  OBVIOUS
<1> HIDE DEF a
<1>4. PICK d \in Nat : g = a + d
  <2>1. g - a \in Nat /\ g = a + (g - a)
    BY <1>2, <1>3
  <2> QED BY <2>1
<1>5. PICK x \in Nat, y \in Nat : x = a * BlockSize /\ y = d * BlockSize
  BY <1>1, <1>2
<1>6. g * BlockSize = x + y
  BY <1>1, <1>2, <1>4, <1>5
<1>7. n <= x
  BY <1>1, <1>2, <1>5
<1> QED BY <1>5, <1>6, <1>7

LEMMA Backed == ASSUME Types, Filed, Tables PROVE BatchBacked
<1> SUFFICES ASSUME in_flight, NEW e \in Batch, status[e.id] # "FinishedAborted"
             PROVE  /\ status[e.id] = "Running"
                    /\ gpu_table[SequenceId[e.id]] * BlockSize >= length[e.id]
  BY DEF BatchBacked
<1>1. status[e.id] = "Running"
  BY DEF Filed, BatchFiled
<1>2. e.id \in Requests
  <2>1. outputs.scheduled \in Seq(Scheduled)
    BY DEF Types, BatchTypes
  <2> QED BY <2>1, RequestsOfRange DEF Batch
<1>3. LogicalBlocks(e.id) <= GpuBlocks(e.id)
  BY <1>1 DEF Tables, FlightBacked
<1>4. GpuBlocks(e.id) \in Nat /\ length[e.id] \in Nat
  BY <1>2, TablesAreNumbers DEF TableFacts, GpuBlocks, Types, SeqTypes
<1>5. gpu_table[SequenceId[e.id]] * BlockSize >= length[e.id]
  BY <1>3, <1>4, EnoughSlots DEF LogicalBlocks, GpuBlocks
<1> QED BY <1>1, <1>5

(* Every sequence of the batch in flight is running and has a slot on the GPU
   for each of its tokens, however the pass interleaved appends, preemptions
   and swaps, if no two requests share a sequence id. *)
THEOREM BatchIsBacked == DistinctIds => (Spec => []BatchBacked)
<1> SUFFICES ASSUME DistinctIds PROVE Spec => []BatchBacked
  OBVIOUS
<1>1. Types /\ Filed /\ Tables => BatchBacked
  BY Backed
<1> QED BY <1>1, TablesInvariant, PTL

-----------------------------------------------------------------------------
(* The order of a pass: preemption takes the running queue from the back *)

Rising(s) == \A i, j \in DOMAIN s : i < j => s[i] < s[j]

Below(A, B) == \A x \in A : \A y \in B : x < y

(* What decodes is ahead of what is still queued, and both of what was
   preempted. *)
Ordered(p) ==
    /\ Rising(p.running)
    /\ Below(Decoding(p), Range(p.running))
    /\ Below(Range(p.running), Range(p.preempted) \cup Range(p.swapped_out))
    /\ Below(Decoding(p), Range(p.preempted) \cup Range(p.swapped_out))

(* Where the pass is when it may swap in, and what it has then not done *)
OneWay(ph, p) ==
    /\ ph = "swapped" => p.preempted = <<>> /\ p.swapped_out = <<>>
    /\ p.swapped_out = <<>> => p.blocks_out = 0
    /\ p.blocks_in # 0 => p.swapped_out = <<>> /\ ph # "running" /\ (ph = "prefills" => Chunked)

Paced == (phase # "idle" => Ordered(pass)) /\ OneWay(phase, pass)

LEMMA RisingTail ==
    ASSUME NEW q \in Seq(Requests), q # <<>>, Rising(q)
    PROVE  Rising(Tail(q)) /\ Below({Head(q)}, Range(Tail(q)))
<1>1. /\ Len(q) \in Nat \ {0} /\ Tail(q) \in Seq(Requests) /\ Len(Tail(q)) = Len(q) - 1 /\ Head(q) = q[1]
      /\ \A i \in 1..(Len(q) - 1) : Tail(q)[i] = q[i + 1]
  OBVIOUS
<1>2. /\ DOMAIN q = 1..Len(q) /\ DOMAIN Tail(q) = 1..(Len(q) - 1)
      /\ 1 \in DOMAIN q /\ \A i \in DOMAIN Tail(q) : i + 1 \in DOMAIN q /\ 1 < i + 1 /\ i \in Nat
  BY <1>1
<1>3. \A i, j \in DOMAIN Tail(q) : i < j => i + 1 < j + 1
  BY <1>1
<1>4. Rising(Tail(q))
  BY <1>1, <1>2, <1>3 DEF Rising
<1>5. \A i \in DOMAIN Tail(q) : Head(q) < Tail(q)[i]
  BY <1>1, <1>2 DEF Rising
<1> QED BY <1>4, <1>5 DEF Below, Range

LEMMA RisingFront ==
    ASSUME NEW q \in Seq(Requests), q # <<>>, Rising(q), IsInjective(q)
    PROVE  /\ Rising(Keep(q, Requests \ {Last(q)}))
           /\ Below(Range(Keep(q, Requests \ {Last(q)})), {Last(q)})
<1> DEFINE S == Requests \ {Last(q)}
           n == Len(q) - 1
<1>1. n \in Nat /\ n \in 0..Len(q) /\ DOMAIN q = 1..(n + 1) /\ Last(q) = q[n + 1] /\ n + 1 \in DOMAIN q
  BY LastOf
<1>2. \A k \in 1..Len(q) : q[k] \in S <=> k <= n
  <2> TAKE k \in 1..Len(q)
  <2>1. k \in DOMAIN q /\ q[k] \in Requests
    OBVIOUS
  <2>2. k <= n <=> k # n + 1
    BY <1>1, <2>1
  <2> QED BY <1>1, <2>1, <2>2 DEF IsInjective
<1>3. Len(Keep(q, S)) = n /\ \A k \in 1..n : Keep(q, S)[k] = q[k]
  BY <1>1, <1>2, KeepPrefix
<1>4. DOMAIN Keep(q, S) = 1..n
  BY <1>3, KeepRange
<1>5. \A k \in 1..n : k \in DOMAIN q /\ k < n + 1
  BY <1>1
<1>6. Rising(Keep(q, S))
  <2>1. \A i, j \in 1..n : i < j => q[i] < q[j]
    BY <1>5 DEF Rising
  <2>2. PICK k : k = Keep(q, S)
    OBVIOUS
  <2>3. DOMAIN k = 1..n /\ \A i \in 1..n : k[i] = q[i]
    BY <1>3, <1>4, <2>2
  <2>4. Rising(k)
    BY <2>1, <2>3 DEF Rising
  <2> QED BY <2>2, <2>4
<1>7. \A k \in 1..n : Keep(q, S)[k] < Last(q)
  BY <1>1, <1>3, <1>5 DEF Rising
<1>8. Below(Range(Keep(q, S)), {Last(q)})
  BY <1>4, <1>7 DEF Below, Range
<1> QED BY <1>6, <1>8

LEMMA OrderedStart ==
    ASSUME Types, QueuesFiled, StartPass
    PROVE  Ordered(pass') /\ OneWay(phase', pass')
<1>1. /\ phase' = (IF ~Chunked /\ swapped = <<>> THEN "prefills" ELSE "running")
      /\ pass'.running \in SortByPriority(running)
      /\ pass'.run_decodes = <<>> /\ pass'.preempted = <<>> /\ pass'.swapped_out = <<>>
      /\ pass'.blocks_in = 0 /\ pass'.blocks_out = 0
  BY StartPassEffect DEF Types, SameChosen, SameDropped, SameTransfers, EmptyPass
<1>2. PICK s : s = pass'.running
  OBVIOUS
<1>3. s \in Seq(Requests) /\ InOrder(s) /\ IsInjective(s)
  BY <1>1, <1>2, SortOf DEF Types, QueueTypes, QueuesFiled
<1>4. Rising(s)
  <2> SUFFICES ASSUME NEW i \in DOMAIN s, NEW j \in DOMAIN s, i < j PROVE s[i] < s[j]
    BY DEF Rising
  <2>0. DOMAIN s = 1..Len(s) /\ Len(s) \in Nat /\ s[i] \in Requests /\ s[j] \in Requests
    BY <1>3
  <2>0a. i \in Nat /\ j \in Nat
    BY <2>0
  <2>1. s[i] \in Nat /\ s[j] \in Nat /\ i \in Nat /\ j \in Nat /\ DOMAIN s = 1..Len(s)
    BY <2>0, <2>0a, RequestsAssumption
  <2>2. s[i] <= s[j]
    BY <1>3, <2>1 DEF InOrder
  <2>3. s[i] # s[j]
    BY <1>3, <2>1 DEF IsInjective
  <2> QED BY <2>1, <2>2, <2>3
<1>5. <<>> \in Seq(Scheduled)
  OBVIOUS
<1>6. Range(<<>>) = {} /\ Decoding(pass') = {}
  BY <1>1, <1>5, RequestsOfList, EmptyList DEF Decoding
<1>7. Ordered(pass')
  BY <1>1, <1>2, <1>4, <1>6 DEF Ordered, Below
<1> QED BY <1>1, <1>7 DEF OneWay

(* The parts of the pass the order is about *)
SameOrder(p, q) ==
    /\ p.running = q.running /\ p.run_decodes = q.run_decodes
    /\ p.preempted = q.preempted /\ p.swapped_out = q.swapped_out

LEMMA OrderedSame ==
    ASSUME NEW p, NEW q, SameOrder(p, q), Ordered(q) PROVE Ordered(p)
BY DEF SameOrder, Ordered, Decoding

LEMMA PacedRunning ==
    ASSUME Types, Filed, Paced, RunningScheduled PROVE Paced'
<1>0. SeqTypes /\ PassTypes /\ pass \in PassType /\ Ordered(pass) /\ phase = "running" /\ phase' = phase
  BY DEF Types, PassTypes, Paced, RunningScheduled, In
<1>1. PICK r \in Requests, n \in Nat :
             /\ r = Head(pass.running)
             /\ pass'.running = Tail(pass.running)
             /\ stage[r] = "Prefill" => pass'.run_decodes = pass.run_decodes
             /\ stage[r] # "Prefill" => pass'.run_decodes = Append(pass.run_decodes, Entry(r, 1))
             /\ SameDropped(pass', pass) /\ SameTransfers(pass', pass)
  BY <1>0, RunningScheduledEffect
<1>2. /\ pass.running # <<>> /\ pass.running \in Seq(Requests) /\ IsInjective(pass.running)
      /\ pass.run_decodes \in Seq(Scheduled) /\ Rising(pass.running)
  <2>1. pass.running # <<>>
    BY RunningRun DEF RunningScheduled
  <2> QED BY <1>0, <2>1 DEF PassType, Filed, PassFiled, NoDuplicates, Ordered
<1>3. /\ Rising(pass'.running) /\ Below({r}, Range(pass'.running))
  BY <1>1, <1>2, RisingTail
<1>4. Range(pass'.running) = Range(pass.running) \ {r} /\ r \in Range(pass.running)
  BY <1>1, <1>2, FrontLeaves
<1>5. Decoding(pass') \subseteq Decoding(pass) \cup {r}
  <2>1. PICK e : e = Entry(r, 1) /\ e \in Scheduled /\ e.id = r
    BY <1>0, EntryType
  <2>2. Range(RequestsOf(Append(pass.run_decodes, e))) = Range(RequestsOf(pass.run_decodes)) \cup {r}
    BY <1>2, <2>1, EntryAdded
  <2> QED BY <1>1, <2>1, <2>2 DEF Decoding
<1>6. Below(Decoding(pass'), Range(pass'.running))
  BY <1>0, <1>3, <1>4, <1>5 DEF Below, Ordered
<1>7. Below(Range(pass'.running), Range(pass'.preempted) \cup Range(pass'.swapped_out))
  BY <1>0, <1>1, <1>4 DEF Below, Ordered, SameDropped
<1>8. Below(Decoding(pass'), Range(pass'.preempted) \cup Range(pass'.swapped_out))
  BY <1>0, <1>1, <1>4, <1>5 DEF Below, Ordered, SameDropped
<1>9. OneWay(phase', pass')
  BY <1>0, <1>1 DEF Paced, OneWay, SameDropped, SameTransfers
<1> QED BY <1>3, <1>6, <1>7, <1>8, <1>9 DEF Paced, Ordered

LEMMA PacedPreempt ==
    ASSUME Types, Filed, Paced, Preempt PROVE Paced'
<1>0. SeqTypes /\ PassTypes /\ pass \in PassType /\ Ordered(pass) /\ phase = "running" /\ phase' = phase
  BY DEF Types, PassTypes, Paced, Preempt, In
<1>0a. \A v \in Requests : gpu_table[SequenceId[v]] \in Nat
  BY TablesAreNumbers DEF TableFacts, Types
<1>1. PICK v \in Requests :
             /\ pass.running # <<>> /\ v = Last(pass.running)
             /\ Recomputed(v) \/ SwappedOut(v)
             /\ pass' \in PassType
             /\ pass'.running = Keep(pass.running, Requests \ {v})
             /\ SameChosen(pass', pass)
             /\ pass'.blocks_in = pass.blocks_in
  BY <1>0, <1>0a, PreemptEffect
<1>2. /\ pass.running \in Seq(Requests) /\ IsInjective(pass.running) /\ Rising(pass.running)
      /\ pass.preempted \in Seq(Requests) /\ pass.swapped_out \in Seq(Requests)
  BY <1>0 DEF PassType, Filed, PassFiled, NoDuplicates, Ordered
<1>3. Rising(pass'.running) /\ Below(Range(pass'.running), {v})
  BY <1>1, <1>2, RisingFront
<1>4. Range(pass'.running) = Range(pass.running) \ {v} /\ v \in Range(pass.running)
  BY <1>1, <1>2, VictimLeaves
<1>5. Decoding(pass') = Decoding(pass)
  BY <1>1 DEF SameChosen, Decoding
<1>6. Range(pass'.preempted) \cup Range(pass'.swapped_out)
        = Range(pass.preempted) \cup Range(pass.swapped_out) \cup {v}
  <2>1. CASE Recomputed(v)
    <3>1. Range(Append(pass.preempted, v)) = Range(pass.preempted) \cup {v}
      BY <1>2, AppendList
    <3> QED BY <2>1, <3>1 DEF Recomputed
  <2>2. CASE SwappedOut(v)
    <3>1. Range(Append(pass.swapped_out, v)) = Range(pass.swapped_out) \cup {v}
      BY <1>2, AppendList
    <3> QED BY <2>2, <3>1 DEF SwappedOut
  <2> QED BY <1>1, <2>1, <2>2
<1>7. Below(Decoding(pass'), Range(pass'.running))
  BY <1>0, <1>4, <1>5 DEF Below, Ordered
<1>8. Below(Range(pass'.running), Range(pass'.preempted) \cup Range(pass'.swapped_out))
  BY <1>0, <1>3, <1>4, <1>6 DEF Below, Ordered
<1>9. Below(Decoding(pass'), Range(pass'.preempted) \cup Range(pass'.swapped_out))
  BY <1>0, <1>4, <1>5, <1>6 DEF Below, Ordered
<1>10. OneWay(phase', pass')
  <2>1. pass.blocks_in = 0
    BY <1>0 DEF Paced, OneWay
  <2>2. CASE Recomputed(v)
    BY <1>0, <1>1, <2>1, <2>2 DEF Paced, OneWay, Recomputed
  <2>3. CASE SwappedOut(v)
    <3>1. pass'.swapped_out # <<>>
      BY <1>2, <2>3, AppendList DEF SwappedOut
    <3> QED BY <1>0, <1>1, <2>1, <3>1 DEF OneWay
  <2> QED BY <1>1, <2>2, <2>3
<1> QED BY <1>3, <1>7, <1>8, <1>9, <1>10 DEF Paced, Ordered

LEMMA PacedIgnored == ASSUME Types, Paced, PrefillIgnored \/ SwappedIgnored PROVE Paced'
<1>1. SeqTypes /\ PassTypes /\ phase' = phase
  BY DEF Types, PrefillIgnored, SwappedIgnored
<1>2. SameOrder(pass', pass) /\ SameTransfers(pass', pass)
  <2>1. CASE PrefillIgnored
    BY <1>1, <2>1, PrefillIgnoredEffect DEF SameOrder, SameChosen
  <2>2. CASE SwappedIgnored
    BY <1>1, <2>2, SwappedIgnoredEffect DEF SameOrder, SameChosen
  <2> QED BY <2>1, <2>2
<1>3. phase' # "idle" => Ordered(pass')
  BY <1>1, <1>2, OrderedSame DEF Paced
<1>4. OneWay(phase', pass')
  BY <1>1, <1>2 DEF Paced, OneWay, SameOrder, SameTransfers
<1> QED BY <1>3, <1>4 DEF Paced

LEMMA PacedPrefill == ASSUME Types, Paced, PrefillScheduled PROVE Paced'
<1>1. SeqTypes /\ PassTypes /\ phase' = phase
  BY DEF Types, PrefillScheduled
<1>2. SameOrder(pass', pass) /\ SameTransfers(pass', pass)
  BY <1>1, PrefillScheduledEffect DEF SameOrder, SameDropped
<1>3. phase' # "idle" => Ordered(pass')
  BY <1>1, <1>2, OrderedSame DEF Paced
<1>4. OneWay(phase', pass')
  BY <1>1, <1>2 DEF Paced, OneWay, SameOrder, SameTransfers
<1> QED BY <1>3, <1>4 DEF Paced

LEMMA PacedSwapped == ASSUME Types, Paced, SwappedScheduled PROVE Paced'
<1>1. SeqTypes /\ PassTypes /\ phase' = phase /\ phase = "swapped"
  BY DEF Types, SwappedScheduled, In
<1>2. pass.swapped # <<>> /\ pass.swapped \in Seq(Requests)
  BY <1>1, SwappedRun DEF SwappedScheduled, PassTypes, PassType
<1>3. cpu_table[SequenceId[Head(pass.swapped)]] \in Nat
  BY <1>2, HeadTail, TablesAreNumbers DEF TableFacts, Types
<1>4. SameOrder(pass', pass) /\ pass'.blocks_out = pass.blocks_out
  BY <1>1, <1>3, SwappedScheduledEffect DEF SameOrder, SameDropped
<1>5. Ordered(pass')
  BY <1>1, <1>4, OrderedSame DEF Paced
<1>6. OneWay(phase', pass')
  BY <1>1, <1>4 DEF Paced, OneWay, SameOrder
<1> QED BY <1>5, <1>6 DEF Paced

LEMMA PacedNext == ASSUME Types, Filed, Paced, Next \/ Dropped PROVE Paced'
<1>a. ASSUME UNCHANGED <<phase, pass>> PROVE Paced'
  BY <1>a DEF Paced
<1>b. ASSUME phase # "idle", pass' = pass, OneWay(phase', pass) PROVE Paced'
  BY <1>b DEF Paced
<1>1. CASE \E r \in Requests : AddSequenceGroup(r)
  BY <1>1, <1>a DEF AddSequenceGroup
<1>2. CASE Schedule
  <2>1. QueuesFiled /\ StartPass
    BY <1>2 DEF Schedule, Filed
  <2> QED BY <2>1, OrderedStart DEF Paced
<1>3. CASE StopPrefills
  <2>1. phase = "prefills" /\ phase' = AfterPrefills /\ pass' = pass
    BY <1>3 DEF StopPrefills, In, Delayed
  <2>2. phase' = "commit" \/ (phase' = "running" /\ ~Chunked)
    BY <2>1 DEF AfterPrefills
  <2>3. OneWay(phase', pass)
    BY <2>1, <2>2 DEF Paced, OneWay
  <2> QED BY <1>b, <2>1, <2>3
<1>4. CASE StopRunning
  <2>1. phase = "running" /\ phase' = AfterRunning /\ pass' = pass
    BY <1>4 DEF StopRunning, In
  <2>2. OneWay(phase', pass)
    BY <2>1 DEF Paced, OneWay, AfterRunning
  <2> QED BY <1>b, <2>1, <2>2
<1>5. CASE StopSwapped
  <2>1. phase = "swapped" /\ phase' = AfterSwapped /\ pass' = pass
    BY <1>5 DEF StopSwapped, In
  <2>2. OneWay(phase', pass)
    BY <2>1 DEF Paced, OneWay, AfterSwapped
  <2> QED BY <1>b, <2>1, <2>2
<1>6. CASE PassFails
  BY <1>6, <1>a DEF PassFails
<1>7. CASE PrefillIgnored \/ SwappedIgnored
  BY <1>7, PacedIgnored
<1>8. CASE PrefillScheduled
  BY <1>8, PacedPrefill
<1>9. CASE RunningScheduled
  BY <1>9, PacedRunning
<1>10. CASE Preempt
  BY <1>10, PacedPreempt
<1>11. CASE SwappedScheduled
  BY <1>11, PacedSwapped
<1>12. CASE Commit
  <2>1. UNCHANGED <<phase, pass>> \/ (phase' = "idle" /\ pass' = EmptyPass)
    BY <1>12 DEF Commit
  <2>2. OneWay("idle", EmptyPass)
    BY DEF OneWay, EmptyPass
  <2> QED BY <1>a, <2>1, <2>2 DEF Paced
<1>13. CASE \E stopped \in SUBSET Sampled : ProcessOutputs(stopped)
  BY <1>13, <1>a DEF ProcessOutputs
<1>14. CASE Dropped
  BY <1>14, <1>a DEF Dropped
<1> QED BY <1>1, <1>2, <1>3, <1>4, <1>5, <1>6, <1>7, <1>8, <1>9, <1>10, <1>11, <1>12, <1>13, <1>14
        DEF Next, PassStep

LEMMA PacedInit == Init => Paced
BY DEF Init, Paced, OneWay, EmptyPass

LEMMA PacedInvariant == Spec => [](Types /\ Filed /\ Paced)
<1>1. Init => Types /\ Filed /\ Paced
  BY TypesInit, FiledInit, PacedInit
<1>2. (Types /\ Filed /\ Paced) /\ [Next]_vars => (Types /\ Filed /\ Paced)'
  BY TypesNext, FiledNext, PacedNext, StutterDropped
<1> QED BY <1>1, <1>2, PTL DEF Spec

(* No pass both swaps groups in and swaps groups out, under either policy: what
   SchedulerOutputs::validate asserts never fails. *)
THEOREM SwapsOneWay == Spec => []NeverSwapBothWays
<1>1. Paced => NeverSwapBothWays
  BY DEF Paced, OneWay, NeverSwapBothWays
<1> QED BY <1>1, PacedInvariant, PTL

LEMMA LatestFirst == ASSUME Types, Paced PROVE PreemptLatestFirst
<1> SUFFICES ASSUME phase = "commit", NEW kept \in Range(RequestsOf(pass.run_decodes)),
                    NEW victim \in Range(pass.preempted \o pass.swapped_out)
             PROVE  kept < victim
  BY DEF PreemptLatestFirst
<1>1. pass.preempted \in Seq(Requests) /\ pass.swapped_out \in Seq(Requests)
  BY DEF Types, PassTypes, PassType
<1>2. Range(pass.preempted \o pass.swapped_out) = Range(pass.preempted) \cup Range(pass.swapped_out)
  BY <1>1, ConcatRange
<1> QED BY <1>2 DEF Paced, Ordered, Below, Decoding

(* Preemption is in reverse order of arrival: nothing a pass keeps decoding
   arrived after a group it preempted. *)
THEOREM LatestPreemptedFirst == Spec => []PreemptLatestFirst
<1>1. Types /\ Paced => PreemptLatestFirst
  BY LatestFirst
<1> QED BY <1>1, PacedInvariant, PTL

-----------------------------------------------------------------------------
(* The tokens of a batch *)

ChunkList(L) == [i \in DOMAIN L |-> L[i].chunk]

ChunkTotal(L) == ListTotal(ChunkList(L))

LEMMA ChunkListOf ==
    ASSUME NEW L \in Seq(Scheduled)
    PROVE  /\ ChunkList(L) \in Seq(Nat) /\ Len(ChunkList(L)) = Len(L)
           /\ \A i \in 1..Len(L) : ChunkList(L)[i] = L[i].chunk
<1> DEFINE n == Len(L)
           f == [i \in 1..n |-> L[i].chunk]
<1>1. n \in Nat /\ DOMAIN L = 1..n /\ \A i \in 1..n : L[i] \in Scheduled
  OBVIOUS
<1>2. \A i \in 1..n : L[i].chunk \in Nat
  BY <1>1 DEF Scheduled
<1>3. f \in [1..n -> Nat] /\ ChunkList(L) = f
  BY <1>1, <1>2 DEF ChunkList
<1>4. f \in Seq(Nat) /\ Len(f) = n
  BY <1>1, <1>3, ListOf
<1> QED BY <1>3, <1>4

LEMMA ChunkTotalType == ASSUME NEW L \in Seq(Scheduled) PROVE ChunkTotal(L) \in Nat
BY ChunkListOf, ListTotalType DEF ChunkTotal

LEMMA ChunkTotalEmpty == ChunkTotal(<<>>) = 0
<1>1. ChunkList(<<>>) = <<>>
  BY DEF ChunkList
<1> QED BY <1>1, ListTotalEmpty DEF ChunkTotal

LEMMA ChunkTotalAppend ==
    ASSUME NEW L \in Seq(Scheduled), NEW e \in Scheduled
    PROVE  ChunkTotal(Append(L, e)) = ChunkTotal(L) + e.chunk
<1> DEFINE n == Len(L)
           M == Append(L, e)
           C == ChunkList(L)
           X == Append(C, e.chunk)
<1>1. n \in Nat /\ M \in Seq(Scheduled) /\ Len(M) = n + 1 /\ M[n + 1] = e
      /\ \A i \in 1..n : M[i] = L[i]
  OBVIOUS
<1>2. e.chunk \in Nat
  BY DEF Scheduled
<1>3. C \in Seq(Nat) /\ Len(C) = n /\ \A i \in 1..n : C[i] = L[i].chunk
  BY ChunkListOf
<1>4. X \in Seq(Nat) /\ Len(X) = n + 1 /\ X[n + 1] = e.chunk /\ \A i \in 1..n : X[i] = C[i]
  BY <1>2, <1>3
<1>5. /\ ChunkList(M) \in Seq(Nat) /\ Len(ChunkList(M)) = n + 1
      /\ \A i \in 1..(n + 1) : ChunkList(M)[i] = M[i].chunk
  BY <1>1, ChunkListOf
<1> HIDE DEF M, X, C
<1>6. \A i \in 1..(n + 1) : ChunkList(M)[i] = X[i]
  <2> TAKE i \in 1..(n + 1)
  <2>1. CASE i = n + 1
    BY <1>1, <1>4, <1>5, <2>1
  <2>2. CASE i # n + 1
    <3>1. i \in 1..n
      BY <1>1, <2>2
    <3> QED BY <1>1, <1>3, <1>4, <1>5, <3>1
  <2> QED BY <2>1, <2>2
<1>7. ChunkList(M) = X
  BY <1>4, <1>5, <1>6
<1>8. ListTotal(X) = ListTotal(C) + e.chunk
  BY <1>2, <1>3, ListTotalAppend DEF X
<1> QED BY <1>7, <1>8 DEF M, C, ChunkTotal

(* Two lists of numbers that agree everywhere *)
LEMMA SameNumbers ==
    ASSUME NEW k \in Nat, NEW u \in [1..k -> Nat], NEW v \in [1..k -> Nat],
           \A i \in 1..k : u[i] = v[i]
    PROVE  u = v
OBVIOUS

LEMMA ChunkTotalConcat ==
    ASSUME NEW L \in Seq(Scheduled), NEW M \in Seq(Scheduled)
    PROVE  L \o M \in Seq(Scheduled) /\ ChunkTotal(L \o M) = ChunkTotal(L) + ChunkTotal(M)
<1> DEFINE m == Len(L)
           n == Len(M)
           c == L \o M
           A == ChunkList(L)
           B == ChunkList(M)
           X == A \o B
<1>1. /\ c \in Seq(Scheduled) /\ Len(c) = Len(L) + Len(M)
      /\ \A k \in 1..Len(L) : c[k] = L[k]
      /\ \A k \in 1..Len(M) : c[Len(L) + k] = M[k]
  BY ConcatList
<1>2. /\ A \in Seq(Nat) /\ Len(A) = m /\ \A i \in 1..m : A[i] = L[i].chunk
      /\ B \in Seq(Nat) /\ Len(B) = n /\ \A i \in 1..n : B[i] = M[i].chunk
  BY ChunkListOf
<1> HIDE DEF c, A, B
<1>3. /\ X \in Seq(Nat) /\ Len(X) = Len(A) + Len(B)
      /\ \A k \in 1..Len(A) : X[k] = A[k]
      /\ \A k \in 1..Len(B) : X[Len(A) + k] = B[k]
  <2>1. A \in Seq(Nat) /\ B \in Seq(Nat)
    BY <1>2
  <2> QED BY <2>1, ConcatList
<1>4. m \in Nat /\ n \in Nat
  OBVIOUS
<1>5. /\ c \in Seq(Scheduled) /\ Len(c) = m + n
      /\ \A k \in 1..m : c[k] = L[k]
      /\ \A k \in 1..n : c[m + k] = M[k]
  BY <1>1
<1>6. /\ X \in Seq(Nat) /\ Len(X) = m + n
      /\ \A k \in 1..m : X[k] = A[k]
      /\ \A k \in 1..n : X[m + k] = B[k]
  <2> HIDE DEF X
  <2> QED BY <1>2, <1>3
<1>7. /\ ChunkList(c) \in Seq(Nat) /\ Len(ChunkList(c)) = m + n
      /\ \A i \in 1..(m + n) : ChunkList(c)[i] = c[i].chunk
  BY <1>5, ChunkListOf
<1> HIDE DEF m, n, X
<1>8. ASSUME NEW i \in 1..(m + n) PROVE ChunkList(c)[i] = X[i]
  <2>1. CASE i <= m
    <3>1. i \in 1..m
      BY <1>4, <2>1
    <3>2. ChunkList(c)[i] = c[i].chunk
      BY <1>7
    <3>3. c[i] = L[i] /\ X[i] = A[i] /\ A[i] = L[i].chunk
      BY <1>2, <1>5, <1>6, <3>1
    <3> QED BY <3>2, <3>3
  <2>2. CASE i > m
    <3>1. PICK j \in 1..n : i = m + j
      <4>1. i - m \in 1..n /\ i = m + (i - m)
        BY <1>4, <2>2
      <4> QED BY <4>1
    <3>2. ChunkList(c)[i] = c[i].chunk
      BY <1>7
    <3>3. c[m + j] = M[j] /\ X[m + j] = B[j] /\ B[j] = M[j].chunk
      BY <1>2, <1>5, <1>6, <3>1
    <3> QED BY <3>1, <3>2, <3>3
  <2> QED BY <1>4, <2>1, <2>2
<1>9. ChunkList(c) = X
  <2>1. PICK u : u = ChunkList(c)
    OBVIOUS
  <2>2. u \in [1..(m + n) -> Nat]
    BY <1>7, <2>1
  <2>3. X \in [1..(m + n) -> Nat]
    BY <1>6
  <2>4. \A i \in 1..(m + n) : u[i] = X[i]
    BY <1>8, <2>1
  <2>5. u = X
    BY <1>4, <2>2, <2>3, <2>4, SameNumbers
  <2> QED BY <2>1, <2>5
<1>10. ListTotal(X) = ListTotal(A) + ListTotal(B)
  BY <1>2, ListTotalConcat DEF X
<1> QED BY <1>5, <1>9, <1>10 DEF c, A, B, ChunkTotal

(* The batch's tokens as the property sums them *)
LEMMA ChunkTotalFold ==
    ASSUME NEW L \in Seq(Scheduled)
    PROVE  FoldSeq(LAMBDA e, n : e.chunk + n, 0, L) = ChunkTotal(L)
<1> DEFINE S == DOMAIN L
           C == ChunkList(L)
           Q(g) == g = [s \in SUBSET S |-> IF s = {} THEN 0 ELSE L[Pick(s)].chunk + g[s \ {Pick(s)}]]
           g0 == CHOOSE g : Q(g)
<1>1. IsFiniteSet(S)
  <2>1. PICK n \in Int : n = Len(L)
    OBVIOUS
  <2>2. IsFiniteSet(1..n) /\ S = 1..n
    BY <2>1, FS_Interval
  <2> QED BY <2>2
<1>2. FoldSeq(LAMBDA e, n : e.chunk + n, 0, L) = g0[S]
  BY DEF FoldSeq, FoldFunction, FoldFunctionOnSet, MapThenFoldSet, Pick
<1>3. DOMAIN C = S
  BY DEF ChunkList
<1>4. \A s \in SUBSET S : s # {} => Pick(s) \in S /\ C[Pick(s)] = L[Pick(s)].chunk
  BY DEF Pick, ChunkList
<1> HIDE DEF C, S
<1>5. PICK g : IsTotal(g, C, SUBSET S)
  BY <1>1, TotalExists
<1>6. Q(g)
  <2>1. \A s \in SUBSET S : g[s] = IF s = {} THEN 0 ELSE L[Pick(s)].chunk + g[s \ {Pick(s)}]
    BY <1>4, <1>5 DEF IsTotal, SumNext
  <2>2. g = [s \in SUBSET S |-> g[s]]
    BY <1>5 DEF IsTotal
  <2> QED BY <2>1, <2>2
<1>7. Q(g0)
  BY <1>6
<1> HIDE DEF g0
<1>8. \A s \in SUBSET S : g0[s] = SumNext(g0, C, s)
  BY <1>4, <1>7 DEF SumNext
<1>9. Total(C, S) = g0[S]
  BY <1>1, <1>8, TotalUnique
<1> QED BY <1>2, <1>3, <1>9 DEF ChunkTotal, ListTotal, C

-----------------------------------------------------------------------------
(* The budget of a pass *)

PassChunks(p) ==
    ChunkTotal(p.prefills) + ChunkTotal(p.run_decodes) + ChunkTotal(p.run_prefills)
        + ChunkTotal(p.in_decodes) + ChunkTotal(p.in_prefills)

(* The budget counts the tokens of what was scheduled, and the sequences of
   the groups it was charged for. *)
Charged(p) ==
    /\ p.token_ids = Chosen(p)
    /\ p.tokens = PassChunks(p)
    /\ p.num_seqs = Total(BestOf, p.seq_ids)

Undisturbed(p) == p.preempted = <<>> /\ p.swapped_out = <<>>

NothingNew(p) == p.prefills = <<>> /\ p.in_decodes = <<>> /\ p.in_prefills = <<>>

(* Which groups the sequence budget was charged for.  Once the default policy
   preempts, the budget no longer counts all that runs, but then nothing new
   is admitted. *)
Seated(p, run) ==
    /\ Range(p.running) \cup Decoding(p) \cup Continued(p) \subseteq Range(run)
    /\ Chunked => p.seq_ids = Chosen(p)
    /\ ~Chunked /\ Undisturbed(p) => Range(p.running) \cup Chosen(p) \subseteq p.seq_ids
    /\ ~Chunked /\ ~Undisturbed(p) => NothingNew(p)

(* What each loop finds.  The chunked policy leaves running groups behind only
   when the tokens are used up. *)
Staged(ph, p) ==
    /\ ph = "running" => NothingNew(p)
    /\ ph = "prefills" /\ ~Chunked => p.in_decodes = <<>> /\ p.in_prefills = <<>> /\ Undisturbed(p)
    /\ ph = "swapped" => Undisturbed(p)
    /\ Chunked /\ ph \in {"prefills", "swapped", "commit"} /\ p.running # <<>> =>
          p.tokens >= MaxBatchedTokens /\ NothingNew(p)

RunningFits == Total(BestOf, Range(running)) <= MaxNumSequences

BatchFits == ChunkTotal(outputs.scheduled) <= MaxBatchedTokens

Budget ==
    /\ Charged(pass) /\ (phase # "idle" /\ err = "none" => Seated(pass, running))
    /\ Staged(phase, pass)
    /\ RunningFits /\ BatchFits

(* An entry for r of n tokens joins one list of the pass. *)
Adds(q, p, r, n) ==
    \E e \in Scheduled :
        /\ e.id = r /\ e.chunk = n
        /\ \/ /\ q.prefills = Append(p.prefills, e)
              /\ q.run_decodes = p.run_decodes /\ q.run_prefills = p.run_prefills
              /\ q.in_decodes = p.in_decodes /\ q.in_prefills = p.in_prefills
           \/ /\ q.run_decodes = Append(p.run_decodes, e)
              /\ q.prefills = p.prefills /\ q.run_prefills = p.run_prefills
              /\ q.in_decodes = p.in_decodes /\ q.in_prefills = p.in_prefills
           \/ /\ q.run_prefills = Append(p.run_prefills, e)
              /\ q.prefills = p.prefills /\ q.run_decodes = p.run_decodes
              /\ q.in_decodes = p.in_decodes /\ q.in_prefills = p.in_prefills
           \/ /\ q.in_decodes = Append(p.in_decodes, e)
              /\ q.prefills = p.prefills /\ q.run_decodes = p.run_decodes
              /\ q.run_prefills = p.run_prefills /\ q.in_prefills = p.in_prefills
           \/ /\ q.in_prefills = Append(p.in_prefills, e)
              /\ q.prefills = p.prefills /\ q.run_decodes = p.run_decodes
              /\ q.run_prefills = p.run_prefills /\ q.in_decodes = p.in_decodes

LEMMA PassChunksType ==
    ASSUME NEW p \in PassType
    PROVE  /\ ChunkTotal(p.prefills) \in Nat /\ ChunkTotal(p.run_decodes) \in Nat
           /\ ChunkTotal(p.run_prefills) \in Nat /\ ChunkTotal(p.in_decodes) \in Nat
           /\ ChunkTotal(p.in_prefills) \in Nat /\ PassChunks(p) \in Nat
<1>1. /\ ChunkTotal(p.prefills) \in Nat /\ ChunkTotal(p.run_decodes) \in Nat
      /\ ChunkTotal(p.run_prefills) \in Nat /\ ChunkTotal(p.in_decodes) \in Nat
      /\ ChunkTotal(p.in_prefills) \in Nat
  BY PassLists, ChunkTotalType
<1> QED BY <1>1 DEF PassChunks

LEMMA AddsEffect ==
    ASSUME NEW p \in PassType, NEW q, NEW r \in Requests, NEW n \in Nat, Adds(q, p, r, n)
    PROVE  Chosen(q) = Chosen(p) \cup {r} /\ PassChunks(q) = PassChunks(p) + n
<1>1. PICK e \in Scheduled :
        /\ e.id = r /\ e.chunk = n
        /\ \/ /\ q.prefills = Append(p.prefills, e)
              /\ q.run_decodes = p.run_decodes /\ q.run_prefills = p.run_prefills
              /\ q.in_decodes = p.in_decodes /\ q.in_prefills = p.in_prefills
           \/ /\ q.run_decodes = Append(p.run_decodes, e)
              /\ q.prefills = p.prefills /\ q.run_prefills = p.run_prefills
              /\ q.in_decodes = p.in_decodes /\ q.in_prefills = p.in_prefills
           \/ /\ q.run_prefills = Append(p.run_prefills, e)
              /\ q.prefills = p.prefills /\ q.run_decodes = p.run_decodes
              /\ q.in_decodes = p.in_decodes /\ q.in_prefills = p.in_prefills
           \/ /\ q.in_decodes = Append(p.in_decodes, e)
              /\ q.prefills = p.prefills /\ q.run_decodes = p.run_decodes
              /\ q.run_prefills = p.run_prefills /\ q.in_prefills = p.in_prefills
           \/ /\ q.in_prefills = Append(p.in_prefills, e)
              /\ q.prefills = p.prefills /\ q.run_decodes = p.run_decodes
              /\ q.run_prefills = p.run_prefills /\ q.in_decodes = p.in_decodes
  BY DEF Adds
<1>2. \A L \in Seq(Scheduled) : /\ Range(RequestsOf(Append(L, e))) = Range(RequestsOf(L)) \cup {r}
                                /\ ChunkTotal(Append(L, e)) = ChunkTotal(L) + n
  BY <1>1, EntryAdded, ChunkTotalAppend
<1>3. /\ p.prefills \in Seq(Scheduled) /\ p.run_decodes \in Seq(Scheduled)
      /\ p.run_prefills \in Seq(Scheduled) /\ p.in_decodes \in Seq(Scheduled)
      /\ p.in_prefills \in Seq(Scheduled)
  BY PassLists
<1>4. /\ Range(RequestsOf(Append(p.prefills, e))) = Prefilled(p) \cup {r}
      /\ Range(RequestsOf(Append(p.run_decodes, e))) = Decoding(p) \cup {r}
      /\ Range(RequestsOf(Append(p.run_prefills, e))) = Continued(p) \cup {r}
      /\ Range(RequestsOf(Append(p.in_decodes, e))) = BroughtIn(p) \cup {r}
      /\ Range(RequestsOf(Append(p.in_prefills, e))) = Resumed(p) \cup {r}
  BY <1>2, <1>3 DEF Prefilled, Decoding, Continued, BroughtIn, Resumed
<1>5. Chosen(q) = Chosen(p) \cup {r}
  BY <1>1, <1>4 DEF Chosen, Prefilled, Decoding, Continued, BroughtIn, Resumed
<1>6. PICK a \in Nat, b \in Nat, c \in Nat, d \in Nat, f \in Nat :
        /\ a = ChunkTotal(p.prefills) /\ b = ChunkTotal(p.run_decodes) /\ c = ChunkTotal(p.run_prefills)
        /\ d = ChunkTotal(p.in_decodes) /\ f = ChunkTotal(p.in_prefills)
  BY PassChunksType
<1>7. /\ ChunkTotal(Append(p.prefills, e)) = a + n
      /\ ChunkTotal(Append(p.run_decodes, e)) = b + n
      /\ ChunkTotal(Append(p.run_prefills, e)) = c + n
      /\ ChunkTotal(Append(p.in_decodes, e)) = d + n
      /\ ChunkTotal(Append(p.in_prefills, e)) = f + n
  BY <1>2, <1>3, <1>6
<1>8. \/ PassChunks(q) = (a + n) + b + c + d + f
      \/ PassChunks(q) = a + (b + n) + c + d + f
      \/ PassChunks(q) = a + b + (c + n) + d + f
      \/ PassChunks(q) = a + b + c + (d + n) + f
      \/ PassChunks(q) = a + b + c + d + (f + n)
  BY <1>1, <1>6, <1>7 DEF PassChunks
<1>9. PassChunks(p) = a + b + c + d + f
  BY <1>6 DEF PassChunks
<1>10. PassChunks(q) = PassChunks(p) + n
  BY <1>8, <1>9
<1> QED BY <1>5, <1>10

LEMMA SeatTotals ==
    ASSUME NEW S \in SUBSET Requests, NEW r \in Requests
    PROVE  /\ IsFiniteSet(S) /\ Total(BestOf, S) \in Nat /\ BestOf[r] \in Nat
           /\ r \notin S => Total(BestOf, S \cup {r}) = BestOf[r] + Total(BestOf, S)
           /\ r \in S => /\ Total(BestOf, S \ {r}) \in Nat
                         /\ Total(BestOf, S) = BestOf[r] + Total(BestOf, S \ {r})
<1>1. BestOf \in [Requests -> Nat] /\ IsFiniteSet(S)
  BY RequestsAssumption, FS_Subset
<1>2. Total(BestOf, S) \in Nat
  BY <1>1, TotalType, Zenon
<1>2a. BestOf \in [Requests -> Nat]
  BY <1>1
<1>3. \A B \in SUBSET Requests : IsFiniteSet(B) =>
          \A y \in Requests : y \notin B => Total(BestOf, B \cup {y}) = BestOf[y] + Total(BestOf, B)
  BY <1>2a, TotalJoin, Zenon
<1>4. ASSUME r \in S
      PROVE  Total(BestOf, S \ {r}) \in Nat /\ Total(BestOf, S) = BestOf[r] + Total(BestOf, S \ {r})
  <2>1. PICK B : B = S \ {r}
    OBVIOUS
  <2>2. B \in SUBSET Requests /\ r \notin B /\ B \cup {r} = S /\ IsFiniteSet(B)
    BY <1>1, <1>4, <2>1, FS_Subset
  <2>3. Total(BestOf, B) \in Nat
    BY <1>2a, <2>2, TotalType, Zenon
  <2> QED BY <1>3, <2>1, <2>2, <2>3
<1>5. BestOf[r] \in Nat
  BY <1>1
<1> QED BY <1>1, <1>2, <1>3, <1>4, <1>5

(* Scheduling a group charges it. *)
LEMMA ChargedNew ==
    ASSUME NEW p \in PassType, NEW q \in PassType, Charged(p), NEW r \in Requests, NEW n \in Nat,
           r \notin Chosen(p), Adds(q, p, r, n), TokensCharged(q, p, r, n),
           SeqsCharged(q, p, r, BestOf[r]) \/ SameSeqs(q, p)
    PROVE  Charged(q)
<1>1. Chosen(q) = Chosen(p) \cup {r} /\ PassChunks(q) = PassChunks(p) + n
  BY AddsEffect
<1>2. q.token_ids = Chosen(q) /\ q.tokens = PassChunks(q)
  BY <1>1 DEF Charged, TokensCharged
<1>3. q.num_seqs = Total(BestOf, q.seq_ids)
  <2>1. CASE SameSeqs(q, p)
    BY <2>1 DEF SameSeqs, Charged
  <2>2. CASE SeqsCharged(q, p, r, BestOf[r]) /\ r \in p.seq_ids
    <3>1. q.seq_ids = p.seq_ids /\ q.num_seqs = p.num_seqs
      BY <2>2 DEF SeqsCharged
    <3> QED BY <3>1 DEF Charged
  <2>3. CASE SeqsCharged(q, p, r, BestOf[r]) /\ r \notin p.seq_ids
    <3>1. q.seq_ids = p.seq_ids \cup {r} /\ q.num_seqs = p.num_seqs + BestOf[r]
      BY <2>3 DEF SeqsCharged
    <3>2. PICK S \in SUBSET Requests : S = p.seq_ids
      BY DEF PassType
    <3>3. Total(BestOf, S \cup {r}) = BestOf[r] + Total(BestOf, S) /\ Total(BestOf, S) \in Nat /\ BestOf[r] \in Nat
      BY <2>3, <3>2, SeatTotals
    <3>4. q.num_seqs = Total(BestOf, S) + BestOf[r]
      BY <3>1, <3>2 DEF Charged
    <3>5. Total(BestOf, S) + BestOf[r] = BestOf[r] + Total(BestOf, S)
      BY <3>3
    <3> QED BY <3>1, <3>2, <3>3, <3>4, <3>5
  <2> QED BY <2>1, <2>2, <2>3
<1> QED BY <1>2, <1>3 DEF Charged

(* A group at the front has no tokens charged; its sequences are refunded. *)
LEMMA ChargedRefund ==
    ASSUME NEW p \in PassType, NEW q \in PassType, Charged(p), NEW r \in Requests, NEW n \in Nat,
           r \notin Chosen(p), SameChosen(q, p),
           q.token_ids = p.token_ids \ {r},
           q.tokens = (IF r \in p.token_ids THEN p.tokens - n ELSE p.tokens),
           q.seq_ids = p.seq_ids \ {r},
           q.num_seqs = (IF r \in p.seq_ids THEN p.num_seqs - BestOf[r] ELSE p.num_seqs)
    PROVE  Charged(q) /\ q.tokens = p.tokens
<1>1. Chosen(q) = Chosen(p) /\ PassChunks(q) = PassChunks(p)
  BY DEF SameChosen, Chosen, Prefilled, Decoding, Continued, BroughtIn, Resumed, PassChunks
<1>2. q.token_ids = Chosen(q) /\ q.tokens = PassChunks(q) /\ q.tokens = p.tokens
  BY <1>1 DEF Charged
<1>3. q.num_seqs = Total(BestOf, q.seq_ids)
  <2>1. CASE r \notin p.seq_ids
    <3>1. q.seq_ids = p.seq_ids /\ q.num_seqs = p.num_seqs
      BY <2>1
    <3> QED BY <3>1 DEF Charged
  <2>2. CASE r \in p.seq_ids
    <3>1. PICK S \in SUBSET Requests : S = p.seq_ids
      BY DEF PassType
    <3>2. Total(BestOf, S) = BestOf[r] + Total(BestOf, S \ {r}) /\ Total(BestOf, S \ {r}) \in Nat /\ BestOf[r] \in Nat
      BY <2>2, <3>1, SeatTotals
    <3>3. q.num_seqs = Total(BestOf, S) - BestOf[r]
      BY <2>2, <3>1 DEF Charged
    <3>4. Total(BestOf, S) - BestOf[r] = Total(BestOf, S \ {r})
      BY <3>2
    <3> QED BY <3>1, <3>3, <3>4
  <2> QED BY <2>1, <2>2
<1> QED BY <1>2, <1>3 DEF Charged

(* A decode is one token. *)
LEMMA DecodeIsOne ==
    ASSUME SeqTypes, PassTypes, NEW r \in Requests, NEW st,
           stage[r] # "Prefill", GetNumTokens(r, st) # 0
    PROVE  GetNumTokens(r, st) = 1
<1>1. stage[r] = "Decode"
  BY DEF SeqTypes
<1>2. NumNewTokens(r, st) \in {0, 1}
  BY <1>1 DEF NumNewTokens
<1>3. CASE ~Chunked
  BY <1>2, <1>3 DEF GetNumTokens
<1>4. CASE Chunked
  <2>1. pass.tokens \in Int /\ MaxBatchedTokens \in Nat /\ pass.tokens <= MaxBatchedTokens
    BY <1>4, ConfigAssumption DEF PassTypes, PassType
  <2>2. PICK a \in Int, b \in Int : a = NumNewTokens(r, st) /\ b = MaxBatchedTokens - pass.tokens /\ b >= 0 /\ a \in {0, 1}
    BY <1>2, <2>1
  <2>3. GetNumTokens(r, st) = IF a <= b THEN a ELSE b
    BY <1>4, <2>2, MinOfTwo DEF GetNumTokens
  <2> QED BY <2>2, <2>3
<1> QED BY <1>3, <1>4

LEMMA NothingChosen ==
    ASSUME NEW p, SameChosen(p, EmptyPass)
    PROVE  Chosen(p) = {} /\ PassChunks(p) = 0 /\ NothingNew(p) /\ Decoding(p) = {} /\ Continued(p) = {}
<1>1. <<>> \in Seq(Scheduled)
  OBVIOUS
<1>2. Range(RequestsOf(<<>>)) = {}
  BY <1>1, RequestsOfList, EmptyList
<1>3. /\ p.prefills = <<>> /\ p.run_decodes = <<>> /\ p.run_prefills = <<>>
      /\ p.in_decodes = <<>> /\ p.in_prefills = <<>>
  BY DEF SameChosen, EmptyPass
<1>4. PassChunks(p) = 0 + 0 + 0 + 0 + 0
  BY <1>3, ChunkTotalEmpty DEF PassChunks
<1> QED BY <1>2, <1>3, <1>4 DEF Chosen, Prefilled, Decoding, Continued, BroughtIn, Resumed, NothingNew

LEMMA NoSeats == Total(BestOf, {}) = 0
BY TotalZero, FS_EmptySet

LEMMA BudgetInit == Init => Budget
<1> SUFFICES ASSUME Init PROVE Budget
  OBVIOUS
<1>1. SameChosen(pass, EmptyPass) /\ pass = EmptyPass
  BY DEF Init, SameChosen
<1>2. Chosen(pass) = {} /\ PassChunks(pass) = 0 /\ NothingNew(pass)
  BY <1>1, NothingChosen
<1>3. Charged(pass)
  BY <1>1, <1>2, NoSeats DEF Charged, EmptyPass
<1>4. Staged(phase, pass)
  BY DEF Init, Staged
<1>5. RunningFits
  <2>1. Range(running) = {}
    BY EmptyList DEF Init
  <2>2. 0 <= MaxNumSequences
    BY ConfigAssumption
  <2> QED BY <2>1, <2>2, NoSeats DEF RunningFits
<1>6. BatchFits
  BY ChunkTotalEmpty, ConfigAssumption DEF Init, BatchFits, EmptyOutputs
<1> QED BY <1>3, <1>4, <1>5, <1>6 DEF Init, Budget

LEMMA BudgetStart ==
    ASSUME Types, QueuesFiled, Budget, StartPass, UNCHANGED <<queues, seqs, batch>>
    PROVE  Budget'
<1>1. /\ phase' = (IF ~Chunked /\ swapped = <<>> THEN "prefills" ELSE "running")
      /\ pass'.running \in SortByPriority(running)
      /\ SameChosen(pass', EmptyPass) /\ SameDropped(pass', EmptyPass) /\ SameTokens(pass', EmptyPass)
  BY StartPassEffect DEF Types
<1>2. IF Chunked THEN SameSeqs(pass', EmptyPass)
      ELSE /\ pass'.seq_ids = Range(running)
           /\ pass'.num_seqs = MapThenSumSet(GetMaxNumRunningSeqs, Range(running))
  BY StartPassEffect DEF Types
<1>3. /\ Chosen(pass') = {} /\ PassChunks(pass') = 0 /\ NothingNew(pass')
      /\ Decoding(pass') = {} /\ Continued(pass') = {}
  BY <1>1, NothingChosen
<1>4. Range(pass'.running) = Range(running) /\ Range(running) \in SUBSET Requests
  BY <1>1, SortOf, RangeOfList DEF Types, QueueTypes
<1>5. pass'.token_ids = {} /\ pass'.tokens = 0
  BY <1>1 DEF SameTokens, EmptyPass
<1>6. pass'.num_seqs = Total(BestOf, pass'.seq_ids)
  <2>1. CASE Chunked
    <3>1. pass'.num_seqs = 0 /\ pass'.seq_ids = {}
      BY <1>2, <2>1 DEF SameSeqs, EmptyPass
    <3> QED BY <3>1, NoSeats
  <2>2. CASE ~Chunked
    <3>1. \A r \in Range(running) : status[r] \in Live
      BY DEF QueuesFiled, Live
    <3>2. MapThenSumSet(GetMaxNumRunningSeqs, Range(running)) = Total(BestOf, Range(running))
      BY <1>4, <3>1, RunningCharge DEF Types
    <3> QED BY <1>2, <2>2, <3>2
  <2> QED BY <2>1, <2>2
<1>7. Charged(pass')
  BY <1>3, <1>5, <1>6 DEF Charged
<1>8. Undisturbed(pass')
  BY <1>1 DEF SameDropped, EmptyPass, Undisturbed
<1>9. Chunked => pass'.seq_ids = {}
  BY <1>2 DEF SameSeqs, EmptyPass
<1>10. Seated(pass', running)
  BY <1>2, <1>3, <1>4, <1>8, <1>9 DEF Seated
<1>11. Staged(phase', pass')
  <2>1. phase' = "running" \/ (phase' = "prefills" /\ ~Chunked)
    BY <1>1
  <2> QED BY <1>3, <1>8, <2>1 DEF Staged, NothingNew
<1>12. RunningFits' /\ BatchFits' /\ running' = running
  BY DEF Budget, RunningFits, BatchFits, queues, batch
<1> QED BY <1>7, <1>10, <1>11, <1>12 DEF Budget

(* Steps that touch neither the running groups nor what was scheduled *)
LEMMA BudgetSame ==
    ASSUME Budget, UNCHANGED <<phase, running, outputs>>, err' = "none" => err = "none",
           SameChosen(pass', pass), SameTokens(pass', pass), SameSeqs(pass', pass), SameOrder(pass', pass)
    PROVE  Budget'
<1>1. Chosen(pass') = Chosen(pass) /\ PassChunks(pass') = PassChunks(pass) /\ Decoding(pass') = Decoding(pass)
      /\ Continued(pass') = Continued(pass)
  BY DEF SameChosen, Chosen, Prefilled, Decoding, Continued, BroughtIn, Resumed, PassChunks
<1>2. Charged(pass')
  BY <1>1 DEF Budget, Charged, SameTokens, SameSeqs
<1>3. (Undisturbed(pass') <=> Undisturbed(pass)) /\ (NothingNew(pass') <=> NothingNew(pass))
  BY DEF Undisturbed, NothingNew, SameOrder, SameChosen
<1>4. pass'.running = pass.running /\ pass'.seq_ids = pass.seq_ids /\ pass'.tokens = pass.tokens
      /\ pass'.in_decodes = pass.in_decodes /\ pass'.in_prefills = pass.in_prefills
  BY DEF SameOrder, SameSeqs, SameTokens, SameChosen
<1>5. Seated(pass, running) => Seated(pass', running)
  BY <1>1, <1>3, <1>4 DEF Seated
<1>6. Staged(phase', pass')
  BY <1>3, <1>4 DEF Budget, Staged
<1>7. RunningFits' /\ BatchFits'
  BY DEF Budget, RunningFits, BatchFits
<1> QED BY <1>2, <1>5, <1>6, <1>7 DEF Budget

LEMMA BudgetIgnored == ASSUME Types, Budget, PrefillIgnored \/ SwappedIgnored PROVE Budget'
<1>1. SeqTypes /\ PassTypes /\ UNCHANGED <<phase, running, outputs, err>>
  BY DEF Types, PrefillIgnored, SwappedIgnored, queues, batch
<1>2. SameOrder(pass', pass) /\ SameChosen(pass', pass) /\ SameTokens(pass', pass) /\ SameSeqs(pass', pass)
  <2>1. CASE PrefillIgnored
    BY <1>1, <2>1, PrefillIgnoredEffect DEF SameOrder, SameChosen
  <2>2. CASE SwappedIgnored
    BY <1>1, <2>2, SwappedIgnoredEffect DEF SameOrder, SameChosen
  <2> QED BY <2>1, <2>2
<1> QED BY <1>1, <1>2, BudgetSame

(* Whatever was scheduled in this pass runs. *)
LEMMA ChosenRuns ==
    ASSUME PassFiled(pass, status)
    PROVE  /\ \A r \in Chosen(pass) : status[r] = "Running"
           /\ \A r \in Range(pass.running) : r \notin Chosen(pass)
<1>1. \A r \in Chosen(pass) : status[r] = "Running"
  BY DEF PassFiled, StatusOf, Chosen
<1>2. \A r \in Range(pass.running) : r \notin Chosen(pass)
  BY DEF PassFiled, ListsApart, SixApart, Apart, Chosen
<1> QED BY <1>1, <1>2

LEMMA BudgetPrefillScheduled ==
    ASSUME Types, Filed, Budget, PrefillScheduled
    PROVE  Budget'
<1>0. /\ SeqTypes /\ PassTypes /\ pass \in PassType /\ UNCHANGED <<phase, running, outputs, err>>
      /\ phase = "prefills" /\ err = "none" /\ PassFiled(pass, status)
  BY DEF Types, PassTypes, PrefillScheduled, In, Filed, queues, batch
<1>1. PICK r \in Requests, n \in Nat :
             /\ r = Head(pass.waiting) /\ n = GetNumTokens(r, "Waiting")
             /\ pass' \in PassType
             /\ pass'.running = pass.running
             /\ pass'.prefills = Append(pass.prefills, Entry(r, n))
             /\ pass'.run_decodes = pass.run_decodes /\ pass'.run_prefills = pass.run_prefills
             /\ pass'.in_decodes = pass.in_decodes /\ pass'.in_prefills = pass.in_prefills
             /\ SameDropped(pass', pass)
             /\ TokensCharged(pass', pass, r, n)
             /\ SeqsCharged(pass', pass, r, GetMaxNumRunningSeqs(r))
  BY <1>0, PrefillScheduledEffect
<1>2. status[r] = "Waiting" /\ n # 0 /\ pass.tokens + n <= MaxBatchedTokens
  <2>1. status[r] = "Waiting" /\ n # 0 /\ CanSchedule(n, GetMaxNumRunningSeqs(r))
    BY <1>1, PrefillRun DEF PrefillScheduled
  <2> QED BY <2>1 DEF CanSchedule
<1>3. GetMaxNumRunningSeqs(r) = BestOf[r]
  BY <1>0, <1>2, NumTokensType DEF Live
<1>4. r \notin Chosen(pass)
  BY <1>0, <1>2, ChosenRuns
<1>5. Adds(pass', pass, r, n)
  <2>1. Entry(r, n) \in Scheduled /\ Entry(r, n).id = r /\ Entry(r, n).chunk = n
    BY <1>0, EntryType
  <2> QED BY <1>1, <2>1 DEF Adds
<1>6. Charged(pass')
  BY <1>0, <1>1, <1>3, <1>4, <1>5, ChargedNew DEF Budget
<1>7. Chosen(pass') = Chosen(pass) \cup {r}
  BY <1>0, <1>5, AddsEffect
<1>8. /\ pass'.seq_ids = pass.seq_ids \cup {r}
      /\ Decoding(pass') = Decoding(pass) /\ Continued(pass') = Continued(pass)
      /\ Undisturbed(pass') <=> Undisturbed(pass)
  BY <1>1 DEF SeqsCharged, Decoding, Continued, SameDropped, Undisturbed
<1>9. ~Chunked => Undisturbed(pass) /\ pass.in_decodes = <<>> /\ pass.in_prefills = <<>>
  BY <1>0 DEF Budget, Staged
<1>10. Seated(pass', running')
  <2>1. Seated(pass, running)
    BY <1>0 DEF Budget
  <2> QED BY <1>0, <1>1, <1>7, <1>8, <1>9, <2>1 DEF Seated
<1>11. Chunked => pass.running = <<>>
  <2>0. pass.tokens \in Int /\ MaxBatchedTokens \in Nat
    BY <1>0, ConfigAssumption DEF PassType
  <2>1. ~(pass.tokens >= MaxBatchedTokens)
    BY <1>2, <2>0
  <2> QED BY <1>0, <2>1 DEF Budget, Staged
<1>12. Staged(phase', pass')
  BY <1>0, <1>1, <1>8, <1>9, <1>11 DEF Staged
<1>13. RunningFits' /\ BatchFits'
  BY <1>0 DEF Budget, RunningFits, BatchFits
<1> QED BY <1>6, <1>10, <1>12, <1>13 DEF Budget

LEMMA BudgetSwappedScheduled ==
    ASSUME Types, Filed, Budget, SwappedScheduled
    PROVE  Budget'
<1>0. /\ SeqTypes /\ PassTypes /\ pass \in PassType /\ UNCHANGED <<phase, running, outputs, err>>
      /\ phase = "swapped" /\ err = "none" /\ PassFiled(pass, status)
  BY DEF Types, PassTypes, SwappedScheduled, In, Filed, queues, batch
<1>a. pass.swapped # <<>> /\ pass.swapped \in Seq(Requests)
  BY <1>0, SwappedRun DEF SwappedScheduled, PassType
<1>b. cpu_table[SequenceId[Head(pass.swapped)]] \in Nat
  BY <1>a, HeadTail, TablesAreNumbers DEF TableFacts, Types
<1>1. PICK r \in Requests, n \in Nat :
             /\ r = Head(pass.swapped) /\ n = GetNumTokens(r, "Swapped")
             /\ pass' \in PassType
             /\ pass'.running = pass.running
             /\ pass'.prefills = pass.prefills
             /\ pass'.run_decodes = pass.run_decodes /\ pass'.run_prefills = pass.run_prefills
             /\ stage[r] = "Prefill" => /\ pass'.in_prefills = Append(pass.in_prefills, Entry(r, n))
                                        /\ pass'.in_decodes = pass.in_decodes
             /\ stage[r] # "Prefill" => /\ pass'.in_decodes = Append(pass.in_decodes, Entry(r, 1))
                                        /\ pass'.in_prefills = pass.in_prefills
             /\ SameDropped(pass', pass)
             /\ TokensCharged(pass', pass, r, n)
             /\ SeqsCharged(pass', pass, r, GetMaxNumRunningSeqs(r))
  BY <1>0, <1>b, SwappedScheduledEffect
<1>2. status[r] = "Swapped" /\ n # 0 /\ pass.tokens + n <= MaxBatchedTokens
  <2>1. status[r] = "Swapped" /\ n # 0 /\ CanSchedule(n, GetMaxNumRunningSeqs(r))
    BY <1>1, SwappedRun DEF SwappedScheduled
  <2> QED BY <2>1 DEF CanSchedule
<1>3. GetMaxNumRunningSeqs(r) = BestOf[r]
  BY <1>0, <1>2, NumTokensType DEF Live
<1>4. r \notin Chosen(pass)
  BY <1>0, <1>2, ChosenRuns
<1>5. Adds(pass', pass, r, n)
  <2>1. CASE stage[r] = "Prefill"
    <3>1. Entry(r, n) \in Scheduled /\ Entry(r, n).id = r /\ Entry(r, n).chunk = n
      BY <1>0, EntryType
    <3> QED BY <1>1, <2>1, <3>1 DEF Adds
  <2>2. CASE stage[r] # "Prefill"
    <3>1. n = 1
      BY <1>0, <1>1, <1>2, <2>2, DecodeIsOne
    <3>2. Entry(r, 1) \in Scheduled /\ Entry(r, 1).id = r /\ Entry(r, 1).chunk = 1
      BY <1>0, EntryType
    <3> QED BY <1>1, <2>2, <3>1, <3>2 DEF Adds
  <2> QED BY <2>1, <2>2
<1>6. Charged(pass')
  BY <1>0, <1>1, <1>3, <1>4, <1>5, ChargedNew DEF Budget
<1>7. Chosen(pass') = Chosen(pass) \cup {r}
  BY <1>0, <1>5, AddsEffect
<1>8. /\ pass'.seq_ids = pass.seq_ids \cup {r}
      /\ Decoding(pass') = Decoding(pass) /\ Continued(pass') = Continued(pass)
      /\ Undisturbed(pass') /\ Undisturbed(pass)
  BY <1>0, <1>1 DEF SeqsCharged, Decoding, Continued, SameDropped, Undisturbed, Budget, Staged
<1>10. Seated(pass', running')
  <2>1. Seated(pass, running)
    BY <1>0 DEF Budget
  <2> QED BY <1>0, <1>1, <1>7, <1>8, <2>1 DEF Seated
<1>11. Chunked => pass.running = <<>>
  <2>1. ~(pass.tokens >= MaxBatchedTokens)
    <3>1. pass.tokens \in Int /\ MaxBatchedTokens \in Nat
      BY <1>0, ConfigAssumption DEF PassType
    <3> QED BY <1>1, <1>2, <3>1
  <2> QED BY <1>0, <2>1 DEF Budget, Staged
<1>12. Staged(phase', pass')
  BY <1>0, <1>1, <1>8, <1>11 DEF Staged
<1>13. RunningFits' /\ BatchFits'
  BY <1>0 DEF Budget, RunningFits, BatchFits
<1> QED BY <1>6, <1>10, <1>12, <1>13 DEF Budget

LEMMA BudgetRunningScheduled ==
    ASSUME Types, Filed, Budget, RunningScheduled
    PROVE  Budget'
<1>0. /\ SeqTypes /\ PassTypes /\ pass \in PassType /\ UNCHANGED <<phase, running, outputs, err>>
      /\ phase = "running" /\ err = "none" /\ PassFiled(pass, status)
  BY DEF Types, PassTypes, RunningScheduled, In, Filed, queues, batch
<1>a. pass.running # <<>> /\ pass.running \in Seq(Requests) /\ IsInjective(pass.running)
  <2>1. pass.running # <<>>
    BY RunningRun DEF RunningScheduled
  <2> QED BY <1>0, <2>1 DEF PassType, PassFiled, NoDuplicates
<1>1. PICK r \in Requests, n \in Nat :
             /\ r = Head(pass.running) /\ n = GetNumTokens(r, "Running")
             /\ pass' \in PassType
             /\ pass'.running = Tail(pass.running)
             /\ pass'.prefills = pass.prefills
             /\ stage[r] = "Prefill" => /\ pass'.run_prefills = Append(pass.run_prefills, Entry(r, n))
                                        /\ pass'.run_decodes = pass.run_decodes
             /\ stage[r] # "Prefill" => /\ pass'.run_decodes = Append(pass.run_decodes, Entry(r, 1))
                                        /\ pass'.run_prefills = pass.run_prefills
             /\ pass'.in_decodes = pass.in_decodes /\ pass'.in_prefills = pass.in_prefills
             /\ SameDropped(pass', pass)
             /\ TokensCharged(pass', pass, r, n)
             /\ IF Chunked THEN SeqsCharged(pass', pass, r, GetMaxNumRunningSeqs(r))
                ELSE SameSeqs(pass', pass)
  BY <1>0, RunningScheduledEffect
<1>2. status[r] = "Running" /\ n # 0
  BY <1>1, RunningRun DEF RunningScheduled
<1>3. GetMaxNumRunningSeqs(r) = BestOf[r]
  BY <1>0, <1>2, NumTokensType DEF Live
<1>4. r \in Range(pass.running) /\ Range(pass'.running) = Range(pass.running) \ {r}
  BY <1>a, <1>1, FrontLeaves
<1>5. r \notin Chosen(pass)
  BY <1>0, <1>4, ChosenRuns
<1>6. Adds(pass', pass, r, n)
  <2>1. CASE stage[r] = "Prefill"
    <3>1. Entry(r, n) \in Scheduled /\ Entry(r, n).id = r /\ Entry(r, n).chunk = n
      BY <1>0, EntryType
    <3> QED BY <1>1, <2>1, <3>1 DEF Adds
  <2>2. CASE stage[r] # "Prefill"
    <3>1. n = 1
      BY <1>0, <1>1, <1>2, <2>2, DecodeIsOne
    <3>2. Entry(r, 1) \in Scheduled /\ Entry(r, 1).id = r /\ Entry(r, 1).chunk = 1
      BY <1>0, EntryType
    <3> QED BY <1>1, <2>2, <3>1, <3>2 DEF Adds
  <2> QED BY <2>1, <2>2
<1>7. Charged(pass')
  BY <1>0, <1>1, <1>3, <1>5, <1>6, ChargedNew DEF Budget
<1>8. Chosen(pass') = Chosen(pass) \cup {r}
  BY <1>0, <1>6, AddsEffect
<1>9. Decoding(pass') \cup Continued(pass') \subseteq Decoding(pass) \cup Continued(pass) \cup {r}
  <2>1. pass.run_decodes \in Seq(Scheduled) /\ pass.run_prefills \in Seq(Scheduled)
    BY <1>0, PassLists
  <2>2. CASE stage[r] = "Prefill"
    <3>1. PICK e : e = Entry(r, n) /\ e \in Scheduled /\ e.id = r
      BY <1>0, EntryType
    <3>2. Range(RequestsOf(Append(pass.run_prefills, e))) = Range(RequestsOf(pass.run_prefills)) \cup {r}
      BY <2>1, <3>1, EntryAdded
    <3> QED BY <1>1, <2>2, <3>1, <3>2 DEF Decoding, Continued
  <2>3. CASE stage[r] # "Prefill"
    <3>1. PICK e : e = Entry(r, 1) /\ e \in Scheduled /\ e.id = r
      BY <1>0, EntryType
    <3>2. Range(RequestsOf(Append(pass.run_decodes, e))) = Range(RequestsOf(pass.run_decodes)) \cup {r}
      BY <2>1, <3>1, EntryAdded
    <3> QED BY <1>1, <2>3, <3>1, <3>2 DEF Decoding, Continued
  <2> QED BY <2>2, <2>3
<1>10. (Undisturbed(pass') <=> Undisturbed(pass)) /\ NothingNew(pass') /\ NothingNew(pass)
  BY <1>0, <1>1 DEF SameDropped, Undisturbed, Budget, Staged, NothingNew
<1>11. Seated(pass', running')
  <2>1. Seated(pass, running)
    BY <1>0 DEF Budget
  <2>2. Range(pass'.running) \cup Decoding(pass') \cup Continued(pass') \subseteq Range(running')
    BY <1>0, <1>4, <1>9, <2>1 DEF Seated
  <2>3. CASE Chunked
    <3>1. pass'.seq_ids = pass.seq_ids \cup {r}
      BY <1>1, <2>3 DEF SeqsCharged
    <3> QED BY <1>8, <2>1, <2>2, <2>3, <3>1 DEF Seated
  <2>4. CASE ~Chunked
    <3>1. pass'.seq_ids = pass.seq_ids
      BY <1>1, <2>4 DEF SameSeqs
    <3>2. Undisturbed(pass) => Range(pass'.running) \cup Chosen(pass') \subseteq pass'.seq_ids
      BY <1>4, <1>8, <2>1, <2>4, <3>1 DEF Seated
    <3> QED BY <1>10, <2>2, <2>4, <3>2 DEF Seated
  <2> QED BY <2>3, <2>4
<1>12. Staged(phase', pass')
  BY <1>0, <1>10 DEF Staged
<1>13. RunningFits' /\ BatchFits'
  BY <1>0 DEF Budget, RunningFits, BatchFits
<1> QED BY <1>7, <1>11, <1>12, <1>13 DEF Budget

LEMMA BudgetPreempt ==
    ASSUME Types, Filed, Budget, Preempt
    PROVE  Budget'
<1>0. /\ SeqTypes /\ PassTypes /\ pass \in PassType /\ UNCHANGED <<phase, running, outputs, err>>
      /\ phase = "running" /\ err = "none" /\ PassFiled(pass, status)
  BY DEF Types, PassTypes, Preempt, In, Filed, queues, batch
<1>0a. \A v \in Requests : gpu_table[SequenceId[v]] \in Nat
  BY TablesAreNumbers DEF TableFacts, Types
<1>1. PICK r, v \in Requests, n \in Nat :
             /\ r = Head(pass.running) /\ n = GetNumTokens(r, "Running") /\ status[r] = "Running"
             /\ pass.running # <<>> /\ v = Last(pass.running)
             /\ Recomputed(v) \/ SwappedOut(v)
             /\ pass' \in PassType
             /\ pass'.running = Keep(pass.running, Requests \ {v})
             /\ SameChosen(pass', pass)
             /\ pass'.token_ids = pass.token_ids \ {r}
             /\ pass'.tokens = IF r \in pass.token_ids THEN pass.tokens - n ELSE pass.tokens
             /\ pass'.seq_ids = pass.seq_ids \ {r}
             /\ pass'.num_seqs = IF r \in pass.seq_ids
                                 THEN pass.num_seqs - GetMaxNumRunningSeqs(r) ELSE pass.num_seqs
  BY <1>0, <1>0a, PreemptEffect
<1>2. /\ pass.running \in Seq(Requests) /\ IsInjective(pass.running)
      /\ pass.preempted \in Seq(Requests) /\ pass.swapped_out \in Seq(Requests)
  BY <1>0 DEF PassType, PassFiled, NoDuplicates
<1>3. GetMaxNumRunningSeqs(r) = BestOf[r]
  BY <1>0, <1>1, NumTokensType DEF Live
<1>4. r \notin Chosen(pass)
  <2>1. r \in Range(pass.running)
    BY <1>1, <1>2, FrontLeaves
  <2> QED BY <1>0, <2>1, ChosenRuns
<1>5. Range(pass'.running) = Range(pass.running) \ {v}
  BY <1>1, <1>2, VictimLeaves
<1>6. pass'.num_seqs = IF r \in pass.seq_ids THEN pass.num_seqs - BestOf[r] ELSE pass.num_seqs
  BY <1>1, <1>3
<1>7. Charged(pass')
  BY <1>0, <1>1, <1>4, <1>6, ChargedRefund DEF Budget
<1>8. Chosen(pass') = Chosen(pass) /\ Decoding(pass') = Decoding(pass) /\ Continued(pass') = Continued(pass)
      /\ (NothingNew(pass') <=> NothingNew(pass))
  BY <1>1 DEF SameChosen, Chosen, Prefilled, Decoding, Continued, BroughtIn, Resumed, NothingNew
<1>9. NothingNew(pass')
  BY <1>0, <1>8 DEF Budget, Staged
<1>10. ~Undisturbed(pass')
  <2>1. CASE Recomputed(v)
    <3>1. pass'.preempted # <<>>
      BY <1>2, <2>1, AppendList DEF Recomputed
    <3> QED BY <3>1 DEF Undisturbed
  <2>2. CASE SwappedOut(v)
    <3>1. pass'.swapped_out # <<>>
      BY <1>2, <2>2, AppendList DEF SwappedOut
    <3> QED BY <3>1 DEF Undisturbed
  <2> QED BY <1>1, <2>1, <2>2
<1>11. Seated(pass', running')
  <2>1. Seated(pass, running)
    BY <1>0 DEF Budget
  <2>2. Chunked => pass'.seq_ids = Chosen(pass')
    BY <1>1, <1>4, <1>8, <2>1 DEF Seated
  <2> QED BY <1>0, <1>5, <1>8, <1>9, <1>10, <2>1, <2>2 DEF Seated
<1>12. Staged(phase', pass')
  BY <1>0, <1>9 DEF Staged
<1>13. RunningFits' /\ BatchFits'
  BY <1>0 DEF Budget, RunningFits, BatchFits
<1> QED BY <1>7, <1>11, <1>12, <1>13 DEF Budget

(* The running loop leaves a group behind only when the tokens are used up. *)
LEMMA RunningStop ==
    ASSUME SeqTypes, PassTypes, In("running", "stop"), pass.running # <<>>
    PROVE  Chunked /\ pass.tokens >= MaxBatchedTokens
<1> DEFINE r == Head(pass.running)
<1>1. RunningVerdict(r) = "stop"
  BY DEF In, Verdict
<1>2. pass.running \in Seq(Requests) /\ pass.tokens \in Int /\ MaxBatchedTokens \in Nat
  BY ConfigAssumption DEF PassTypes, PassType
<1>3. r \in Requests
  BY <1>2, HeadTail
<1> HIDE DEF r
<1>4. /\ AppendSlotsError(r, gpu_table[SequenceId[r]], free_gpu) # "stop"
      /\ PreemptError(Victim(pass.running)) # "stop"
  BY DEF AppendSlotsError, PreemptError
<1>5. NumNewTokens(r, "Running") # 0 /\ GetNumTokens(r, "Running") = 0
  BY <1>1, <1>4 DEF RunningVerdict
<1>6. Chunked
  BY <1>5 DEF GetNumTokens
<1>7. PICK a \in Int, b \in Int : a = NumNewTokens(r, "Running") /\ b = MaxBatchedTokens - pass.tokens
  BY <1>2, <1>3, NumTokensType
<1>8. GetNumTokens(r, "Running") = IF a <= b THEN a ELSE b
  BY <1>6, <1>7, MinOfTwo DEF GetNumTokens
<1>9. b = 0
  BY <1>5, <1>7, <1>8
<1>10. pass.tokens >= MaxBatchedTokens
  BY <1>2, <1>7, <1>9
<1> QED BY <1>6, <1>10

LEMMA BudgetStop ==
    ASSUME Types, Budget, StopPrefills \/ StopRunning \/ StopSwapped
    PROVE  Budget'
<1>1. UNCHANGED <<pass, running, outputs, err>> /\ err = "none" /\ phase # "idle" /\ SeqTypes /\ PassTypes
  BY DEF StopPrefills, StopRunning, StopSwapped, In, Delayed, queues, batch, Types
<1>2. RunningFits' /\ BatchFits' /\ Charged(pass') /\ Seated(pass', running')
  BY <1>1 DEF Budget, RunningFits, BatchFits
<1>3. Staged(phase, pass)
  BY DEF Budget
<1>4. Staged(phase', pass)
  <2>1. CASE StopPrefills
    <3>1. phase = "prefills" /\ phase' = AfterPrefills
      BY <2>1 DEF StopPrefills, In, Delayed
    <3>2. CASE Chunked
      <4>1. phase' = "commit"
        BY <3>1, <3>2 DEF AfterPrefills
      <4> QED BY <1>3, <3>1, <3>2, <4>1 DEF Staged
    <3>3. CASE ~Chunked
      <4>1. phase' = "commit" \/ (phase' = "running" /\ pass.prefills = <<>>)
        BY <3>1, <3>3 DEF AfterPrefills
      <4> QED BY <1>3, <3>1, <3>3, <4>1 DEF Staged, NothingNew
    <3> QED BY <3>2, <3>3
  <2>2. CASE StopRunning
    <3>1. phase = "running" /\ phase' = AfterRunning /\ In("running", "stop") /\ NothingNew(pass)
      BY <1>3, <2>2 DEF StopRunning, In, Staged
    <3>2. pass.running # <<>> => Chunked /\ pass.tokens >= MaxBatchedTokens
      BY <1>1, <3>1, RunningStop
    <3>3. \/ phase' = "swapped" /\ Undisturbed(pass)
          \/ phase' = "prefills" /\ Chunked
          \/ phase' = "commit"
      BY <3>1 DEF AfterRunning, Undisturbed
    <3> QED BY <3>1, <3>2, <3>3 DEF Staged
  <2>3. CASE StopSwapped
    <3>1. phase = "swapped" /\ phase' = AfterSwapped
      BY <2>3 DEF StopSwapped, In
    <3>2. (phase' = "prefills" /\ Chunked) \/ (phase' = "commit" /\ ~Chunked)
      BY <3>1 DEF AfterSwapped
    <3> QED BY <1>3, <3>1, <3>2 DEF Staged
  <2> QED BY <2>1, <2>2, <2>3
<1> QED BY <1>1, <1>2, <1>4 DEF Budget

LEMMA FewerSeats ==
    ASSUME NEW S \in SUBSET Requests, NEW R \in SUBSET S, NEW m \in Nat, Total(BestOf, S) <= m
    PROVE  Total(BestOf, R) <= m
<1>1. BestOf \in [Requests -> Nat] /\ IsFiniteSet(S) /\ R \in SUBSET Requests
  BY RequestsAssumption, FS_Subset
<1>2. Total(BestOf, R) <= Total(BestOf, S)
  BY <1>1, TotalSubset
<1>3. Total(BestOf, R) \in Nat /\ Total(BestOf, S) \in Nat
  <2>1. CASE \E x : x \in Requests
    BY <1>1, <2>1, SeatTotals
  <2>2. CASE ~\E x : x \in Requests
    <3>1. R = {} /\ S = {}
      BY <1>1, <2>2
    <3> QED BY <3>1, NoSeats
  <2> QED BY <2>1, <2>2
<1> QED BY <1>2, <1>3

(* The tokens of the batch a pass puts together *)
LEMMA OutputChunks ==
    ASSUME NEW p \in PassType
    PROVE  ChunkTotal(NewOutputs(p).scheduled) \in Nat /\ ChunkTotal(NewOutputs(p).scheduled) <= PassChunks(p)
<1>1. PICK P \in Seq(Scheduled), D \in Seq(Scheduled), C \in Seq(Scheduled),
           I \in Seq(Scheduled), J \in Seq(Scheduled) :
        P = p.prefills /\ D = p.run_decodes /\ C = p.run_prefills /\ I = p.in_decodes /\ J = p.in_prefills
  BY PassLists
<1>2. PICK M \in Seq(Scheduled) : M = IF Chunked THEN C \o J ELSE <<>>
  <2>1. C \o J \in Seq(Scheduled) /\ <<>> \in Seq(Scheduled)
    BY ChunkTotalConcat
  <2> QED BY <2>1
<1>3. NewOutputs(p).scheduled = P \o M \o D \o I
  BY <1>1, <1>2 DEF NewOutputs
<1>4. PICK a \in Nat, b \in Nat, c \in Nat, d \in Nat, f \in Nat :
        /\ a = ChunkTotal(P) /\ b = ChunkTotal(D) /\ c = ChunkTotal(C)
        /\ d = ChunkTotal(I) /\ f = ChunkTotal(J)
  BY ChunkTotalType
<1>5. PassChunks(p) = a + b + c + d + f
  BY <1>1, <1>4 DEF PassChunks
<1>6. ChunkTotal(M) = c + f \/ ChunkTotal(M) = 0
  BY <1>2, <1>4, ChunkTotalConcat, ChunkTotalEmpty
<1>7. P \o M \in Seq(Scheduled) /\ ChunkTotal(P \o M) = a + ChunkTotal(M)
  BY <1>4, ChunkTotalConcat
<1>8. P \o M \o D \in Seq(Scheduled) /\ ChunkTotal(P \o M \o D) = a + ChunkTotal(M) + b
  BY <1>4, <1>7, ChunkTotalConcat
<1>9. ChunkTotal(P \o M \o D \o I) = a + ChunkTotal(M) + b + d
  BY <1>4, <1>8, ChunkTotalConcat
<1>10. ChunkTotal(NewOutputs(p).scheduled) = a + (c + f) + b + d \/ ChunkTotal(NewOutputs(p).scheduled) = a + 0 + b + d
  BY <1>3, <1>6, <1>9
<1>11. ChunkTotal(NewOutputs(p).scheduled) \in Nat /\ ChunkTotal(NewOutputs(p).scheduled) <= a + b + c + d + f
  BY <1>10
<1> QED BY <1>5, <1>11

LEMMA BudgetCommit ==
    ASSUME Types, Filed, Budget, Commit
    PROVE  Budget'
<1>0. /\ pass \in PassType /\ phase = "commit" /\ err = "none" /\ PassFiled(pass, status)
      /\ Charged(pass) /\ Seated(pass, running) /\ Staged("commit", pass)
  BY DEF Types, PassTypes, Commit, Filed, Budget
<1>1. MaxBatchedTokens \in Nat /\ MaxNumSequences \in Nat /\ pass.tokens \in Int /\ pass.num_seqs \in Int
  BY <1>0, ConfigAssumption DEF PassType
<1>2. CASE err' \in {"InvalidNumberBudgetTokens", "InvalidNumberBudgetSequences"}
  <2>1. UNCHANGED <<phase, pass, running, outputs>> /\ err' # "none"
    BY <1>2 DEF Commit, queues, batch
  <2> QED BY <2>1 DEF Budget, RunningFits, BatchFits
<1>3. CASE err' \in {"none", "ChunkedPrefillsNotAllowed"}
  <2>1. ~(pass.tokens > MaxBatchedTokens) /\ ~(pass.num_seqs > MaxNumSequences)
    BY <1>3 DEF Commit, CommitError
  <2>2. pass.tokens <= MaxBatchedTokens /\ pass.num_seqs <= MaxNumSequences
    BY <1>1, <2>1
  <2>3. running' = NewRunning(pass)
    BY <1>3 DEF Commit
  <2>4. Range(running') = Range(pass.running) \cup Prefilled(pass) \cup Decoding(pass) \cup BroughtIn(pass)
                             \cup (IF Chunked THEN Resumed(pass) ELSE {})
    BY <1>0, <2>3, CommitLists DEF PassFiled
  <2>5. Range(running') \subseteq Range(running) \/ Range(running') \subseteq pass.seq_ids
    <3>1. CASE NothingNew(pass)
      <4>1. Prefilled(pass) = {} /\ BroughtIn(pass) = {} /\ Resumed(pass) = {}
        <5>1. <<>> \in Seq(Scheduled)
          OBVIOUS
        <5>2. Range(RequestsOf(<<>>)) = {}
          BY <5>1, RequestsOfList, EmptyList
        <5> QED BY <3>1, <5>2 DEF NothingNew, Prefilled, BroughtIn, Resumed
      <4> QED BY <1>0, <2>4, <4>1 DEF Seated
    <3>2. CASE ~NothingNew(pass)
      <4>1. CASE Chunked
        <5>1. pass.running = <<>>
          BY <1>0, <3>2, <4>1 DEF Staged
        <5>2. Range(pass.running) = {}
          BY <5>1, EmptyList
        <5> QED BY <1>0, <2>4, <4>1, <5>2 DEF Seated, Chosen
      <4>2. CASE ~Chunked
        BY <1>0, <2>4, <3>2, <4>2 DEF Seated, Chosen
      <4> QED BY <4>1, <4>2
    <3> QED BY <3>1, <3>2
  <2>6. RunningFits'
    <3>1. Range(running) \in SUBSET Requests /\ pass.seq_ids \in SUBSET Requests
      BY <1>0, RangeOfList DEF Types, QueueTypes, PassType
    <3>2. Total(BestOf, Range(running)) <= MaxNumSequences /\ Total(BestOf, pass.seq_ids) <= MaxNumSequences
      BY <1>0, <2>2 DEF Budget, RunningFits, Charged
    <3>3. PICK R : R = Range(running')
      OBVIOUS
    <3>4. Total(BestOf, R) <= MaxNumSequences
      BY <1>1, <2>5, <3>1, <3>2, <3>3, FewerSeats
    <3> QED BY <3>3, <3>4 DEF RunningFits
  <2>7. CASE err' = "none"
    <3>1. outputs' = NewOutputs(pass) /\ phase' = "idle" /\ pass' = EmptyPass
      BY <2>7 DEF Commit
    <3>2. BatchFits'
      <4>1. PICK t : t = ChunkTotal(NewOutputs(pass).scheduled)
        OBVIOUS
      <4>2. t \in Nat /\ t <= pass.tokens
        BY <1>0, <4>1, OutputChunks DEF Charged
      <4>3. t <= MaxBatchedTokens
        BY <1>1, <2>2, <4>2
      <4>4. ChunkTotal(outputs'.scheduled) = t
        BY <3>1, <4>1
      <4> QED BY <4>3, <4>4 DEF BatchFits
    <3>3. Charged(pass')
      <4>1. SameChosen(EmptyPass, EmptyPass)
        BY DEF SameChosen
      <4>2. Chosen(EmptyPass) = {} /\ PassChunks(EmptyPass) = 0
        BY <4>1, NothingChosen
      <4> QED BY <3>1, <4>2, NoSeats DEF Charged, EmptyPass
    <3>4. Staged(phase', pass')
      BY <3>1 DEF Staged
    <3> QED BY <2>6, <3>1, <3>2, <3>3, <3>4 DEF Budget
  <2>8. CASE err' # "none"
    <3>1. UNCHANGED <<phase, pass, outputs>>
      BY <2>8 DEF Commit, batch
    <3> QED BY <2>6, <2>8, <3>1 DEF Budget, BatchFits
  <2> QED BY <2>7, <2>8
<1> QED BY <1>2, <1>3 DEF Commit, CommitError

LEMMA BudgetProcess ==
    ASSUME Types, Budget, NEW stopped \in SUBSET Sampled, ProcessOutputs(stopped)
    PROVE  Budget'
<1>1. UNCHANGED <<phase, pass, outputs>> /\ phase = "idle"
  BY DEF ProcessOutputs
<1>2. Range(running') \subseteq Range(running)
  <2>1. CASE running' = running
    BY <2>1
  <2>2. CASE OutputsProcessed(stopped)
    <3>1. running \in Seq(Requests)
      BY DEF Types, QueueTypes
    <3>2. PICK S : running' = Keep(running, S)
      BY <2>2 DEF OutputsProcessed, RemoveFinishedSequences
    <3>3. Range(Keep(running, S)) = Range(running) \cap S
      BY <3>1, KeepRange
    <3> QED BY <3>2, <3>3
  <2> QED BY <2>1, <2>2, ProcessOutputsEffect
<1>3. RunningFits'
  <2>1. Range(running) \in SUBSET Requests /\ MaxNumSequences \in Nat
    BY RangeOfList, ConfigAssumption DEF Types, QueueTypes
  <2>2. PICK R \in SUBSET Range(running) : R = Range(running')
    BY <1>2
  <2>3. Total(BestOf, R) <= MaxNumSequences
    BY <2>1, FewerSeats DEF Budget, RunningFits
  <2> QED BY <2>2, <2>3 DEF RunningFits
<1> QED BY <1>1, <1>3 DEF Budget, BatchFits

LEMMA BudgetNext == ASSUME Types, Filed, Budget, Next \/ Dropped PROVE Budget'
<1>a. ASSUME UNCHANGED <<phase, pass, running, outputs>>, err' = "none" => err = "none" PROVE Budget'
  BY <1>a DEF Budget, RunningFits, BatchFits
<1>1. CASE \E r \in Requests : AddSequenceGroup(r)
  BY <1>1, <1>a DEF AddSequenceGroup, batch
<1>2. CASE Schedule
  <2>1. QueuesFiled /\ StartPass /\ UNCHANGED <<queues, seqs, batch>>
    BY <1>2 DEF Schedule, Filed
  <2> QED BY <2>1, BudgetStart
<1>3. CASE StopPrefills \/ StopRunning \/ StopSwapped
  BY <1>3, BudgetStop
<1>4. CASE PassFails
  BY <1>4, <1>a DEF PassFails, queues, batch
<1>5. CASE PrefillIgnored \/ SwappedIgnored
  BY <1>5, BudgetIgnored
<1>6. CASE PrefillScheduled
  BY <1>6, BudgetPrefillScheduled
<1>7. CASE RunningScheduled
  BY <1>7, BudgetRunningScheduled
<1>8. CASE Preempt
  BY <1>8, BudgetPreempt
<1>9. CASE SwappedScheduled
  BY <1>9, BudgetSwappedScheduled
<1>10. CASE Commit
  BY <1>10, BudgetCommit
<1>11. CASE \E stopped \in SUBSET Sampled : ProcessOutputs(stopped)
  BY <1>11, BudgetProcess
<1>12. CASE Dropped
  BY <1>12, <1>a DEF Dropped, queues
<1> QED BY <1>1, <1>2, <1>3, <1>4, <1>5, <1>6, <1>7, <1>8, <1>9, <1>10, <1>11, <1>12 DEF Next, PassStep

LEMMA BudgetInvariant == Spec => [](Types /\ Filed /\ Budget)
<1>1. Init => Types /\ Filed /\ Budget
  BY TypesInit, FiledInit, BudgetInit
<1>2. (Types /\ Filed /\ Budget) /\ [Next]_vars => (Types /\ Filed /\ Budget)'
  BY TypesNext, FiledNext, BudgetNext, StutterDropped
<1> QED BY <1>1, <1>2, PTL DEF Spec

(* The sequences of the running groups as the property sums them *)
LEMMA SeatsFold ==
    ASSUME SeqTypes, NEW q \in Seq(Requests), IsInjective(q), \A r \in Range(q) : status[r] = "Running"
    PROVE  FoldSeq(LAMBDA r, n : GetMaxNumRunningSeqs(r) + n, 0, q) = Total(BestOf, Range(q))
<1> DEFINE S == DOMAIN q
           C == [i \in S |-> BestOf[q[i]]]
           Q(g) == g = [s \in SUBSET S |-> IF s = {} THEN 0 ELSE GetMaxNumRunningSeqs(q[Pick(s)]) + g[s \ {Pick(s)}]]
           g0 == CHOOSE g : Q(g)
<1>1. IsFiniteSet(S)
  <2>1. PICK n \in Int : n = Len(q)
    OBVIOUS
  <2>2. IsFiniteSet(1..n) /\ S = 1..n
    BY <2>1, FS_Interval
  <2> QED BY <2>2
<1>2. FoldSeq(LAMBDA r, n : GetMaxNumRunningSeqs(r) + n, 0, q) = g0[S]
  BY DEF FoldSeq, FoldFunction, FoldFunctionOnSet, MapThenFoldSet, Pick
<1>3. \A s \in SUBSET S : s # {} => Pick(s) \in S
  BY DEF Pick
<1>4. \A i \in S : C[i] = GetMaxNumRunningSeqs(q[i])
  <2> TAKE i \in S
  <2>1. q[i] \in Requests /\ q[i] \in Range(q)
    BY DEF Range
  <2>2. BestOf[q[i]] \in Nat \ {0} /\ status[q[i]] \in Live
    BY <2>1, RequestsAssumption DEF Live
  <2>3. GetMaxNumRunningSeqs(q[i]) = BestOf[q[i]]
    BY <2>2 DEF GetMaxNumRunningSeqs
  <2> QED BY <2>3
<1>5. ListTotal(C) = Total(BestOf, Range(q)) /\ DOMAIN C = S
  <2>1. BestOf \in [Requests -> Nat]
    BY RequestsAssumption
  <2> QED BY <2>1, ListTotalRange
<1> HIDE DEF C, S
<1>6. PICK g : IsTotal(g, C, SUBSET S)
  BY <1>1, TotalExists
<1>7. Q(g)
  <2>1. \A s \in SUBSET S : g[s] = IF s = {} THEN 0 ELSE GetMaxNumRunningSeqs(q[Pick(s)]) + g[s \ {Pick(s)}]
    BY <1>3, <1>4, <1>6 DEF IsTotal, SumNext
  <2>2. g = [s \in SUBSET S |-> g[s]]
    BY <1>6 DEF IsTotal
  <2> QED BY <2>1, <2>2
<1>8. Q(g0)
  BY <1>7
<1> HIDE DEF g0
<1>9. \A s \in SUBSET S : g0[s] = SumNext(g0, C, s)
  BY <1>3, <1>4, <1>8 DEF SumNext
<1>10. Total(C, S) = g0[S]
  BY <1>1, <1>9, TotalUnique
<1> QED BY <1>2, <1>5, <1>10 DEF ListTotal

LEMMA BudgetKept == ASSUME Types, Filed, Budget PROVE WithinBudget
<1> SUFFICES ASSUME Between
             PROVE  /\ FoldSeq(LAMBDA e, n : e.chunk + n, 0, outputs.scheduled) <= MaxBatchedTokens
                    /\ FoldSeq(LAMBDA r, n : GetMaxNumRunningSeqs(r) + n, 0, running) <= MaxNumSequences
  BY DEF WithinBudget
<1>1. outputs.scheduled \in Seq(Scheduled) /\ running \in Seq(Requests) /\ SeqTypes
  BY DEF Types, BatchTypes, QueueTypes
<1>2. FoldSeq(LAMBDA e, n : e.chunk + n, 0, outputs.scheduled) = ChunkTotal(outputs.scheduled)
  BY <1>1, ChunkTotalFold
<1>3. IsInjective(running) /\ \A r \in Range(running) : status[r] = "Running"
  BY DEF Between, Filed, QueuesFiled
<1>4. FoldSeq(LAMBDA r, n : GetMaxNumRunningSeqs(r) + n, 0, running) = Total(BestOf, Range(running))
  BY <1>1, <1>3, SeatsFold
<1> QED BY <1>2, <1>4 DEF Budget, RunningFits, BatchFits

(* Under either policy the batch keeps to max_num_batched_tokens and the
   running groups to max_num_sequences, although schedule_running charges the
   budget without asking it first. *)
THEOREM BudgetIsKept == Spec => []WithinBudget
<1>1. Types /\ Filed /\ Budget => WithinBudget
  BY BudgetKept
<1> QED BY <1>1, BudgetInvariant, PTL

LEMMA TypesHold == ASSUME Types, Budget PROVE SchedulerTypeOK
<1>1. pass \in PassType /\ pass.tokens = PassChunks(pass) /\ pass.num_seqs = Total(BestOf, pass.seq_ids)
  BY DEF Types, PassTypes, Budget, Charged
<1>2. pass.tokens \in Nat
  BY <1>1, PassChunksType
<1>3. pass.num_seqs \in Nat
  <2>1. BestOf \in [Requests -> Nat] /\ pass.seq_ids \in SUBSET Requests /\ IsFiniteSet(pass.seq_ids)
    BY <1>1, RequestsAssumption, FS_Subset DEF PassType
  <2>2. BestOf \in [Requests -> Nat]
    BY <2>1
  <2>3. Total(BestOf, pass.seq_ids) \in Nat
    BY <2>1, <2>2, TotalType, Zenon
  <2> QED BY <1>1, <2>3
<1>4. /\ \A f \in {"waiting", "running", "swapped", "preempted", "swapped_out",
                   "ignored", "infeasible"} : pass[f] \in Seq(Requests)
      /\ \A f \in {"prefills", "run_decodes", "run_prefills", "in_decodes",
                   "in_prefills"} : pass[f] \in Seq(Scheduled)
      /\ pass.blocks_in \in Nat /\ pass.blocks_out \in Nat
      /\ pass.token_ids \subseteq Requests /\ pass.seq_ids \subseteq Requests
  BY <1>1 DEF PassType
<1>5. outputs.scheduled \in Seq(Scheduled) /\ outputs.ignored \in Seq(Requests) /\ in_flight \in BOOLEAN
  BY DEF Types, BatchTypes
<1>6. gpu_table \in [Ids -> Nat] /\ cpu_table \in [Ids -> Nat]
      /\ free_gpu \in 0..NumGpuBlocks /\ free_cpu \in 0..NumCpuBlocks
  <2>1. /\ gpu_table \in [Ids -> Nat] /\ cpu_table \in [Ids -> Nat]
        /\ free_gpu \in Nat /\ free_cpu \in Nat /\ GpuTotal <= NumGpuBlocks /\ CpuTotal <= NumCpuBlocks
    BY DEF Types, BlockTypes
  <2>2. PICK a \in Nat, b \in Nat : a = Total(gpu_table, Ids) /\ b = Total(cpu_table, Ids)
    BY <2>1, IdsFinite, TotalType
  <2>3. free_gpu + a <= NumGpuBlocks /\ free_cpu + b <= NumCpuBlocks
    BY <2>1, <2>2 DEF GpuTotal, CpuTotal
  <2> QED BY <2>1, <2>2, <2>3, CapacityAssumption
<1>7. /\ waiting \in Seq(Requests) /\ running \in Seq(Requests) /\ swapped \in Seq(Requests)
      /\ status \in [Requests -> Statuses]
      /\ prompt_len \in [Requests -> Nat]
      /\ length \in [Requests -> Nat]
      /\ computed \in [Requests -> Nat]
      /\ stage \in [Requests -> {"Prefill", "Decode"}]
      /\ phase \in {"idle", "prefills", "running", "swapped", "commit"}
  BY DEF Types, QueueTypes, SeqTypes, Phases
<1> QED BY <1>2, <1>3, <1>4, <1>5, <1>6, <1>7 DEF SchedulerTypeOK

(* Type correctness: the budget's counters never go below zero although the
   loop of the running groups refunds them, and no step takes a block that is
   not free. *)
THEOREM SchedulerTypes == Spec => []SchedulerTypeOK
<1>1. Types /\ Budget => SchedulerTypeOK
  BY TypesHold
<1> QED BY <1>1, BudgetInvariant, PTL

-----------------------------------------------------------------------------
(* Why no check of the default policy fires: whole prompts, then one token at a
   time *)

(* A sequence that starts (again) from its first token, and one that has all
   its tokens computed but the last *)
Fresh(r) == stage[r] = "Prefill" /\ computed[r] = 0 /\ length[r] # 0

Decoded(r) == stage[r] = "Decode" /\ computed[r] + 1 = length[r]

(* An entry of a batch computes the rest of its sequence and samples a token. *)
Completes(e) == e.do_sample /\ computed[e.id] + e.chunk = length[e.id]

InBatch(r) ==
    IF phase = "idle" THEN in_flight /\ r \in Range(RequestsOf(outputs.scheduled))
    ELSE r \in Chosen(pass)

Entries(p) == Range(p.prefills) \cup Range(p.run_decodes) \cup Range(p.in_decodes)

Stepwise(r) ==
    /\ status[r] = "Waiting" => Fresh(r)
    /\ status[r] = "Swapped" => Decoded(r)
    /\ status[r] = "Running" /\ ~InBatch(r) => Decoded(r)

AllStepwise == \A r \in Requests : Stepwise(r)

WholeBatch ==
    IF phase = "idle" THEN in_flight => \A e \in Batch : Completes(e)
    ELSE /\ \A e \in Entries(pass) : Completes(e)
         /\ pass.run_prefills = <<>> /\ pass.in_prefills = <<>>

(* schedule_running charges one token for each group it keeps, and there are no
   more groups than max_num_sequences. *)
Room ==
    /\ pass.num_seqs <= MaxNumSequences /\ pass.tokens <= MaxBatchedTokens
    /\ phase = "running" => pass.tokens + Total(BestOf, Range(pass.running)) <= MaxNumSequences
    /\ phase = "prefills" => pass.run_decodes = <<>>

Flow == err = "none" => AllStepwise /\ WholeBatch /\ Room

(* The one error left: no CPU blocks to swap a group of several sequences out to *)
OnlySwapFails ==
    err = "none" \/ (err = "NotEnoughBlockSpaceForSwapOut" /\ \E v \in Requests : BestOf[v] # 1)

LEMMA DefaultTokens ==
    ASSUME ~Chunked, SeqTypes, NEW r \in Requests, NEW st, status[r] = st
    PROVE  /\ Fresh(r) => /\ NumNewTokens(r, st) = length[r] /\ GetNumTokens(r, st) = length[r]
                          /\ length[r] # 0
           /\ Decoded(r) => NumNewTokens(r, st) = 1 /\ GetNumTokens(r, st) = 1
<1>1. length[r] \in Nat /\ computed[r] \in Nat
  BY DEF SeqTypes
<1>2. ASSUME Fresh(r) PROVE NumNewTokens(r, st) = length[r] /\ GetNumTokens(r, st) = length[r] /\ length[r] # 0
  <2>1. stage[r] # "Decode" /\ length[r] - computed[r] = length[r] /\ length[r] # 0
    BY <1>1, <1>2 DEF Fresh
  <2> QED BY <2>1 DEF NumNewTokens, GetNumTokens
<1>3. ASSUME Decoded(r) PROVE NumNewTokens(r, st) = 1 /\ GetNumTokens(r, st) = 1
  BY <1>3 DEF Decoded, NumNewTokens, GetNumTokens
<1> QED BY <1>2, <1>3

LEMMA FlowInit == Init => Flow /\ OnlySwapFails
<1> SUFFICES ASSUME Init PROVE Flow /\ OnlySwapFails
  OBVIOUS
<1>1. AllStepwise
  BY DEF Init, AllStepwise, Stepwise
<1>2. WholeBatch
  BY DEF Init, WholeBatch
<1>3. Room
  BY ConfigAssumption DEF Init, Room, EmptyPass
<1> QED BY <1>1, <1>2, <1>3 DEF Init, Flow, OnlySwapFails

(* A step that changes the sequence of one request *)
LEMMA StepwiseStep ==
    ASSUME AllStepwise, NEW r \in Requests,
           \A q \in Requests : q # r => /\ status'[q] = status[q] /\ stage'[q] = stage[q]
                                        /\ computed'[q] = computed[q] /\ length'[q] = length[q],
           \A q \in Requests : q # r => (InBatch(q) => InBatch(q)'),
           status'[r] = "Waiting" => Fresh(r)',
           status'[r] = "Swapped" => Decoded(r)',
           status'[r] = "Running" /\ ~InBatch(r)' => Decoded(r)'
    PROVE  AllStepwise'
<1> SUFFICES ASSUME NEW q \in Requests PROVE Stepwise(q)'
  BY DEF AllStepwise
<1>1. CASE q = r
  BY <1>1 DEF Stepwise
<1>2. CASE q # r
  BY <1>2 DEF AllStepwise, Stepwise, Fresh, Decoded
<1> QED BY <1>1, <1>2

LEMMA FlowSame ==
    ASSUME AllStepwise, WholeBatch, phase # "idle", phase' # "idle", UNCHANGED <<status, stage, computed, length>>,
           SameChosen(pass', pass)
    PROVE  AllStepwise' /\ WholeBatch'
<1>1. Chosen(pass') = Chosen(pass) /\ Entries(pass') = Entries(pass)
      /\ pass'.run_prefills = pass.run_prefills /\ pass'.in_prefills = pass.in_prefills
  BY DEF SameChosen, Chosen, Prefilled, Decoding, Continued, BroughtIn, Resumed, Entries
<1>2. AllStepwise'
  BY <1>1 DEF AllStepwise, Stepwise, InBatch, Fresh, Decoded
<1>3. WholeBatch'
  BY <1>1 DEF WholeBatch, Completes
<1> QED BY <1>2, <1>3

LEMMA FlowStart ==
    ASSUME ~Chunked, Types, QueuesFiled, Budget, AllStepwise, phase = "idle", ~in_flight,
           StartPass, UNCHANGED <<queues, seqs, batch>>
    PROVE  AllStepwise' /\ WholeBatch' /\ Room'
<1>1. /\ phase' = (IF ~Chunked /\ swapped = <<>> THEN "prefills" ELSE "running")
      /\ pass'.running \in SortByPriority(running)
      /\ SameChosen(pass', EmptyPass) /\ SameTokens(pass', EmptyPass)
      /\ pass'.seq_ids = Range(running)
      /\ pass'.num_seqs = MapThenSumSet(GetMaxNumRunningSeqs, Range(running))
  BY StartPassEffect DEF Types
<1>2. UNCHANGED <<status, stage, computed, length>> /\ phase' \in {"prefills", "running"}
  BY <1>1 DEF seqs
<1>3. AllStepwise'
  BY <1>2 DEF AllStepwise, Stepwise, InBatch, Fresh, Decoded
<1>4. WholeBatch'
  <2>1. pass'.prefills = <<>> /\ pass'.run_decodes = <<>> /\ pass'.in_decodes = <<>>
        /\ pass'.run_prefills = <<>> /\ pass'.in_prefills = <<>>
    BY <1>1 DEF SameChosen, EmptyPass
  <2>2. Entries(pass') = {}
    BY <2>1, EmptyList DEF Entries
  <2> QED BY <1>2, <2>1, <2>2 DEF WholeBatch
<1>5. Range(pass'.running) = Range(running) /\ Range(running) \in SUBSET Requests
  BY <1>1, SortOf, RangeOfList DEF Types, QueueTypes
<1>6. pass'.num_seqs = Total(BestOf, Range(running))
  <2>1. \A r \in Range(running) : status[r] \in Live
    BY DEF QueuesFiled, Live
  <2> QED BY <1>1, <1>5, <2>1, RunningCharge DEF Types
<1>7. pass'.tokens = 0 /\ pass'.run_decodes = <<>>
  BY <1>1 DEF SameTokens, SameChosen, EmptyPass
<1>8. PICK t \in Nat : t = Total(BestOf, Range(running))
  <2>1. BestOf \in [Requests -> Nat] /\ IsFiniteSet(Range(running))
    BY <1>5, RequestsAssumption, FS_Subset
  <2>2. BestOf \in [Requests -> Nat]
    BY <2>1
  <2>3. Total(BestOf, Range(running)) \in Nat
    BY <1>5, <2>1, <2>2, TotalType, Zenon
  <2> QED BY <2>3
<1>9. t <= MaxNumSequences /\ 0 <= MaxBatchedTokens /\ 0 + t <= MaxNumSequences
  BY <1>8, ConfigAssumption DEF Budget, RunningFits
<1>10. Total(BestOf, Range(pass'.running)) = t
  BY <1>5, <1>8
<1>11. Room'
  BY <1>6, <1>7, <1>8, <1>9, <1>10 DEF Room
<1> QED BY <1>3, <1>4, <1>11

LEMMA FlowIgnored ==
    ASSUME Types, AllStepwise, WholeBatch, Room, PrefillIgnored \/ SwappedIgnored
    PROVE  AllStepwise' /\ WholeBatch' /\ Room'
<1>1. SeqTypes /\ PassTypes /\ pass \in PassType /\ UNCHANGED <<phase, stage, computed, length>> /\ phase # "idle"
  BY DEF Types, PassTypes, PrefillIgnored, SwappedIgnored, In
<1>2. SameOrder(pass', pass) /\ SameChosen(pass', pass) /\ SameTokens(pass', pass) /\ SameSeqs(pass', pass)
  <2>1. CASE PrefillIgnored
    BY <1>1, <2>1, PrefillIgnoredEffect DEF SameOrder, SameChosen
  <2>2. CASE SwappedIgnored
    BY <1>1, <2>2, SwappedIgnoredEffect DEF SameOrder, SameChosen
  <2> QED BY <2>1, <2>2
<1>3. PICK r : status' = [status EXCEPT ![r] = "FinishedIgnored"]
  BY DEF PrefillIgnored, SwappedIgnored
<1>4. Chosen(pass') = Chosen(pass) /\ Entries(pass') = Entries(pass)
      /\ pass'.run_prefills = pass.run_prefills /\ pass'.in_prefills = pass.in_prefills
  BY <1>2 DEF SameChosen, Chosen, Prefilled, Decoding, Continued, BroughtIn, Resumed, Entries
<1>5. AllStepwise'
  <2> SUFFICES ASSUME NEW q \in Requests PROVE Stepwise(q)'
    BY DEF AllStepwise
  <2>1. status'[q] = status[q] \/ status'[q] = "FinishedIgnored"
    BY <1>1, <1>3 DEF SeqTypes
  <2> QED BY <1>1, <1>4, <2>1 DEF AllStepwise, Stepwise, InBatch, Fresh, Decoded
<1>6. WholeBatch'
  BY <1>1, <1>4 DEF WholeBatch, Completes
<1>7. Room'
  BY <1>1, <1>2 DEF Room, SameTokens, SameSeqs, SameOrder, SameChosen
<1> QED BY <1>5, <1>6, <1>7

LEMMA FlowPrefillScheduled ==
    ASSUME ~Chunked, Types, Filed, Budget, AllStepwise, WholeBatch, Room, PrefillScheduled
    PROVE  AllStepwise' /\ WholeBatch' /\ Room'
<1>0. /\ SeqTypes /\ PassTypes /\ pass \in PassType /\ UNCHANGED <<phase, computed, length, stage, err>>
      /\ phase = "prefills" /\ PassFiled(pass, status)
  BY DEF Types, PassTypes, PrefillScheduled, In, Filed
<1>1. PICK r \in Requests, n \in Nat :
             /\ r = Head(pass.waiting) /\ n = GetNumTokens(r, "Waiting")
             /\ status' = [status EXCEPT ![r] = "Running"]
             /\ pass'.running = pass.running
             /\ pass'.prefills = Append(pass.prefills, Entry(r, n))
             /\ pass'.run_decodes = pass.run_decodes /\ pass'.run_prefills = pass.run_prefills
             /\ pass'.in_decodes = pass.in_decodes /\ pass'.in_prefills = pass.in_prefills
             /\ TokensCharged(pass', pass, r, n)
             /\ SeqsCharged(pass', pass, r, GetMaxNumRunningSeqs(r))
  <2>1. PICK r \in Requests, n \in Nat :
             /\ r = Head(pass.waiting) /\ n = GetNumTokens(r, "Waiting")
             /\ pass'.running = pass.running
             /\ pass'.prefills = Append(pass.prefills, Entry(r, n))
             /\ pass'.run_decodes = pass.run_decodes /\ pass'.run_prefills = pass.run_prefills
             /\ pass'.in_decodes = pass.in_decodes /\ pass'.in_prefills = pass.in_prefills
             /\ TokensCharged(pass', pass, r, n)
             /\ SeqsCharged(pass', pass, r, GetMaxNumRunningSeqs(r))
    BY <1>0, PrefillScheduledEffect
  <2>2. status' = [status EXCEPT ![r] = "Running"]
    BY <2>1 DEF PrefillScheduled
  <2> QED BY <2>1, <2>2
<1>2. status[r] = "Waiting" /\ CanSchedule(n, GetMaxNumRunningSeqs(r))
  BY <1>1, PrefillRun DEF PrefillScheduled
<1>3. Fresh(r)
  BY <1>2 DEF AllStepwise, Stepwise
<1>4. n = length[r]
  BY <1>0, <1>1, <1>2, <1>3, DefaultTokens
<1>5. PICK e : e = Entry(r, n) /\ e \in Scheduled /\ e.id = r /\ e.chunk = n /\ Completes(e)
  <2>1. /\ Entry(r, n) \in Scheduled /\ Entry(r, n).id = r /\ Entry(r, n).chunk = n
        /\ Entry(r, n).do_sample <=> stage[r] = "Decode" \/ n + computed[r] >= length[r]
    BY <1>0, EntryType
  <2>2. length[r] \in Nat /\ computed[r] = 0
    BY <1>0, <1>3 DEF SeqTypes, Fresh
  <2>3. n + computed[r] >= length[r] /\ computed[r] + n = length[r]
    BY <1>4, <2>2
  <2> QED BY <2>1, <2>3 DEF Completes
<1>6. /\ pass.prefills \in Seq(Scheduled)
  BY <1>0, PassLists
<1>7. Range(pass'.prefills) = Range(pass.prefills) \cup {e}
  BY <1>1, <1>5, <1>6, AppendList
<1>8. Prefilled(pass') = Prefilled(pass) \cup {r}
  BY <1>1, <1>5, <1>6, EntryAdded DEF Prefilled
<1>9. Chosen(pass') = Chosen(pass) \cup {r} /\ Entries(pass') = Entries(pass) \cup {e}
  BY <1>1, <1>7, <1>8 DEF Chosen, Decoding, Continued, BroughtIn, Resumed, Entries
<1>10. AllStepwise'
  <2>1. \A q \in Requests : q # r => /\ status'[q] = status[q] /\ stage'[q] = stage[q]
                                     /\ computed'[q] = computed[q] /\ length'[q] = length[q]
    BY <1>0, <1>1 DEF SeqTypes
  <2>2. \A q \in Requests : InBatch(q) => InBatch(q)'
    BY <1>0, <1>9 DEF InBatch
  <2>3. InBatch(r)' /\ status'[r] = "Running"
    BY <1>0, <1>1, <1>9 DEF InBatch, SeqTypes
  <2> QED BY <2>1, <2>2, <2>3, StepwiseStep
<1>11. WholeBatch'
  <2>1. \A d \in Entries(pass') : Completes(d)
    BY <1>0, <1>5, <1>9 DEF WholeBatch
  <2> QED BY <1>0, <1>1, <2>1 DEF WholeBatch, Completes
<1>12. r \notin pass.token_ids
  <2>1. r \notin Chosen(pass)
    BY <1>0, <1>2, ChosenRuns
  <2> QED BY <2>1 DEF Budget, Charged
<1>13. pass'.tokens <= MaxBatchedTokens /\ pass'.num_seqs <= MaxNumSequences
  BY <1>1, <1>2, <1>12 DEF Room, TokensCharged, SeqsCharged, CanSchedule
<1>14. Room'
  BY <1>0, <1>1, <1>13 DEF Room
<1> QED BY <1>10, <1>11, <1>14

LEMMA FlowSwappedScheduled ==
    ASSUME ~Chunked, Types, Filed, Budget, AllStepwise, WholeBatch, Room, SwappedScheduled
    PROVE  AllStepwise' /\ WholeBatch' /\ Room'
<1>0. /\ SeqTypes /\ PassTypes /\ pass \in PassType /\ UNCHANGED <<phase, computed, length, stage, err>>
      /\ phase = "swapped" /\ PassFiled(pass, status)
  BY DEF Types, PassTypes, SwappedScheduled, In, Filed
<1>a. pass.swapped # <<>> /\ pass.swapped \in Seq(Requests)
  BY <1>0, SwappedRun DEF SwappedScheduled, PassType
<1>b. cpu_table[SequenceId[Head(pass.swapped)]] \in Nat
  BY <1>a, HeadTail, TablesAreNumbers DEF TableFacts, Types
<1>1. PICK r \in Requests, n \in Nat :
             /\ r = Head(pass.swapped) /\ n = GetNumTokens(r, "Swapped")
             /\ pass'.running = pass.running
             /\ pass'.prefills = pass.prefills
             /\ pass'.run_decodes = pass.run_decodes /\ pass'.run_prefills = pass.run_prefills
             /\ stage[r] # "Prefill" => /\ pass'.in_decodes = Append(pass.in_decodes, Entry(r, 1))
                                        /\ pass'.in_prefills = pass.in_prefills
             /\ TokensCharged(pass', pass, r, n)
             /\ SeqsCharged(pass', pass, r, GetMaxNumRunningSeqs(r))
  BY <1>0, <1>b, SwappedScheduledEffect
<1>1a. status' = [status EXCEPT ![r] = "Running"]
  BY <1>1 DEF SwappedScheduled
<1>2. status[r] = "Swapped" /\ CanSchedule(n, GetMaxNumRunningSeqs(r))
  BY <1>1, SwappedRun DEF SwappedScheduled
<1>3. Decoded(r) /\ stage[r] # "Prefill"
  BY <1>2 DEF AllStepwise, Stepwise, Decoded
<1>5. PICK e : e = Entry(r, 1) /\ e \in Scheduled /\ e.id = r /\ e.chunk = 1 /\ Completes(e)
  <2>1. /\ Entry(r, 1) \in Scheduled /\ Entry(r, 1).id = r /\ Entry(r, 1).chunk = 1
        /\ Entry(r, 1).do_sample <=> stage[r] = "Decode" \/ 1 + computed[r] >= length[r]
    BY <1>0, EntryType
  <2> QED BY <1>3, <2>1 DEF Completes, Decoded
<1>6. /\ pass.in_decodes \in Seq(Scheduled)
  BY <1>0, PassLists
<1>7. Range(pass'.in_decodes) = Range(pass.in_decodes) \cup {e}
  <2>1. pass'.in_decodes = Append(pass.in_decodes, e)
    BY <1>1, <1>3, <1>5
  <2> QED BY <1>6, <1>5, <2>1, AppendList
<1>8. BroughtIn(pass') = BroughtIn(pass) \cup {r}
  <2>1. pass'.in_decodes = Append(pass.in_decodes, e)
    BY <1>1, <1>3, <1>5
  <2>2. Range(RequestsOf(Append(pass.in_decodes, e))) = Range(RequestsOf(pass.in_decodes)) \cup {r}
    BY <1>6, <1>5, EntryAdded
  <2> QED BY <2>1, <2>2 DEF BroughtIn
<1>9. Chosen(pass') = Chosen(pass) \cup {r} /\ Entries(pass') = Entries(pass) \cup {e}
  BY <1>1, <1>3, <1>7, <1>8 DEF Chosen, Decoding, Continued, Prefilled, Resumed, Entries
<1>10. AllStepwise'
  <2>1. \A q \in Requests : q # r => /\ status'[q] = status[q] /\ stage'[q] = stage[q]
                                     /\ computed'[q] = computed[q] /\ length'[q] = length[q]
    BY <1>0, <1>1a DEF SeqTypes
  <2>2. \A q \in Requests : InBatch(q) => InBatch(q)'
    BY <1>0, <1>9 DEF InBatch
  <2>3. InBatch(r)' /\ status'[r] = "Running"
    BY <1>0, <1>1a, <1>9 DEF InBatch, SeqTypes
  <2> QED BY <2>1, <2>2, <2>3, StepwiseStep
<1>11. WholeBatch'
  <2>1. \A d \in Entries(pass') : Completes(d)
    BY <1>0, <1>5, <1>9 DEF WholeBatch
  <2> QED BY <1>0, <1>1, <1>3, <2>1 DEF WholeBatch, Completes
<1>12. r \notin pass.token_ids
  <2>1. r \notin Chosen(pass)
    BY <1>0, <1>2, ChosenRuns
  <2> QED BY <2>1 DEF Budget, Charged
<1>13. pass'.tokens <= MaxBatchedTokens /\ pass'.num_seqs <= MaxNumSequences
  BY <1>1, <1>2, <1>12 DEF Room, TokensCharged, SeqsCharged, CanSchedule
<1>14. Room'
  BY <1>0, <1>1, <1>13 DEF Room
<1> QED BY <1>10, <1>11, <1>14

(* One group fewer to come frees at least one seat. *)
LEMMA SeatLeaves ==
    ASSUME NEW S \in SUBSET Requests, NEW r \in S
    PROVE  /\ Total(BestOf, S) \in Nat /\ Total(BestOf, S \ {r}) \in Nat
           /\ Total(BestOf, S \ {r}) + 1 <= Total(BestOf, S)
<1>1. r \in Requests /\ BestOf[r] \in Nat \ {0}
  BY RequestsAssumption
<1>2. PICK a \in Nat, b \in Nat : a = Total(BestOf, S) /\ b = Total(BestOf, S \ {r}) /\ a = BestOf[r] + b
  BY <1>1, SeatTotals
<1> QED BY <1>1, <1>2

LEMMA FlowRunningScheduled ==
    ASSUME ~Chunked, Types, Filed, Budget, AllStepwise, WholeBatch, Room, RunningScheduled
    PROVE  AllStepwise' /\ WholeBatch' /\ Room'
<1>0. /\ SeqTypes /\ PassTypes /\ pass \in PassType /\ UNCHANGED <<phase, status, computed, length, stage, err>>
      /\ phase = "running" /\ PassFiled(pass, status)
  BY DEF Types, PassTypes, RunningScheduled, In, Filed, seqs
<1>a. pass.running # <<>> /\ pass.running \in Seq(Requests) /\ IsInjective(pass.running)
  <2>1. pass.running # <<>>
    BY RunningRun DEF RunningScheduled
  <2> QED BY <1>0, <2>1 DEF PassType, PassFiled, NoDuplicates
<1>1. PICK r \in Requests, n \in Nat :
             /\ r = Head(pass.running) /\ n = GetNumTokens(r, "Running")
             /\ pass'.running = Tail(pass.running)
             /\ pass'.prefills = pass.prefills
             /\ stage[r] # "Prefill" => /\ pass'.run_decodes = Append(pass.run_decodes, Entry(r, 1))
                                        /\ pass'.run_prefills = pass.run_prefills
             /\ pass'.in_decodes = pass.in_decodes /\ pass'.in_prefills = pass.in_prefills
             /\ TokensCharged(pass', pass, r, n)
             /\ SameSeqs(pass', pass)
  BY <1>0, RunningScheduledEffect
<1>2. status[r] = "Running"
  BY <1>1, RunningRun DEF RunningScheduled
<1>3. r \in Range(pass.running) /\ Range(pass'.running) = Range(pass.running) \ {r}
  BY <1>a, <1>1, FrontLeaves
<1>4. r \notin Chosen(pass)
  BY <1>0, <1>3, ChosenRuns
<1>5. Decoded(r) /\ stage[r] # "Prefill"
  BY <1>0, <1>2, <1>4 DEF AllStepwise, Stepwise, InBatch, Decoded
<1>6. n = 1
  BY <1>0, <1>1, <1>2, <1>5, DefaultTokens
<1>7. PICK e : e = Entry(r, 1) /\ e \in Scheduled /\ e.id = r /\ e.chunk = 1 /\ Completes(e)
  <2>1. /\ Entry(r, 1) \in Scheduled /\ Entry(r, 1).id = r /\ Entry(r, 1).chunk = 1
        /\ Entry(r, 1).do_sample <=> stage[r] = "Decode" \/ 1 + computed[r] >= length[r]
    BY <1>0, EntryType
  <2> QED BY <1>5, <2>1 DEF Completes, Decoded
<1>8. /\ pass.run_decodes \in Seq(Scheduled)
  BY <1>0, PassLists
<1>9. Range(pass'.run_decodes) = Range(pass.run_decodes) \cup {e}
  <2>1. pass'.run_decodes = Append(pass.run_decodes, e)
    BY <1>1, <1>5, <1>7
  <2> QED BY <1>8, <1>7, <2>1, AppendList
<1>10. Decoding(pass') = Decoding(pass) \cup {r}
  <2>1. pass'.run_decodes = Append(pass.run_decodes, e)
    BY <1>1, <1>5, <1>7
  <2>2. Range(RequestsOf(Append(pass.run_decodes, e))) = Range(RequestsOf(pass.run_decodes)) \cup {r}
    BY <1>8, <1>7, EntryAdded
  <2> QED BY <2>1, <2>2 DEF Decoding
<1>11. Chosen(pass') = Chosen(pass) \cup {r} /\ Entries(pass') = Entries(pass) \cup {e}
  BY <1>1, <1>5, <1>9, <1>10 DEF Chosen, BroughtIn, Continued, Prefilled, Resumed, Entries
<1>12. AllStepwise'
  BY <1>0, <1>11 DEF AllStepwise, Stepwise, InBatch, Fresh, Decoded
<1>13. WholeBatch'
  <2>1. \A d \in Entries(pass') : Completes(d)
    BY <1>0, <1>7, <1>11 DEF WholeBatch
  <2> QED BY <1>0, <1>1, <1>5, <2>1 DEF WholeBatch, Completes
<1>14. r \notin pass.token_ids
  BY <1>4 DEF Budget, Charged
<1>15. pass'.tokens = pass.tokens + 1 /\ pass'.num_seqs = pass.num_seqs
  BY <1>1, <1>6, <1>14 DEF TokensCharged, SameSeqs
<1>16. PICK a \in Nat, b \in Nat : /\ a = Total(BestOf, Range(pass.running))
                                   /\ b = Total(BestOf, Range(pass'.running)) /\ b + 1 <= a
  <2>1. Range(pass.running) \in SUBSET Requests
    BY <1>a, RangeOfList
  <2> QED BY <1>3, <2>1, SeatLeaves
<1>17. pass.tokens \in Int /\ MaxNumSequences \in Nat /\ MaxBatchedTokens \in Nat
       /\ MaxNumSequences <= MaxBatchedTokens
  BY <1>0, ConfigAssumption DEF PassType
<1>18. pass.tokens + a <= MaxNumSequences /\ pass.num_seqs <= MaxNumSequences
  BY <1>0, <1>16 DEF Room
<1>19. pass'.tokens <= MaxBatchedTokens /\ pass'.tokens + b <= MaxNumSequences
  BY <1>15, <1>16, <1>17, <1>18
<1>20. Room'
  BY <1>0, <1>15, <1>16, <1>18, <1>19 DEF Room
<1> QED BY <1>12, <1>13, <1>20

LEMMA FlowPreempt ==
    ASSUME ~Chunked, Types, Filed, Budget, AllStepwise, WholeBatch, Room, Preempt
    PROVE  AllStepwise' /\ WholeBatch' /\ Room'
<1>0. /\ SeqTypes /\ PassTypes /\ pass \in PassType /\ UNCHANGED <<phase, length, err>>
      /\ phase = "running" /\ PassFiled(pass, status)
  BY DEF Types, PassTypes, Preempt, In, Filed
<1>0a. \A v \in Requests : gpu_table[SequenceId[v]] \in Nat
  BY TablesAreNumbers DEF TableFacts, Types
<1>1. PICK r, v \in Requests, n \in Nat :
             /\ r = Head(pass.running) /\ n = GetNumTokens(r, "Running") /\ status[r] = "Running"
             /\ pass.running # <<>> /\ v = Last(pass.running)
             /\ Recomputed(v) \/ SwappedOut(v)
             /\ pass' \in PassType
             /\ pass'.running = Keep(pass.running, Requests \ {v})
             /\ SameChosen(pass', pass)
             /\ pass'.token_ids = pass.token_ids \ {r}
             /\ pass'.tokens = IF r \in pass.token_ids THEN pass.tokens - n ELSE pass.tokens
             /\ pass'.seq_ids = pass.seq_ids \ {r}
             /\ pass'.num_seqs = IF r \in pass.seq_ids
                                 THEN pass.num_seqs - GetMaxNumRunningSeqs(r) ELSE pass.num_seqs
  BY <1>0, <1>0a, PreemptEffect
<1>2. /\ pass.running \in Seq(Requests) /\ IsInjective(pass.running)
  BY <1>0 DEF PassType, PassFiled, NoDuplicates
<1>3. v \in Range(pass.running) /\ Range(pass'.running) = Range(pass.running) \ {v}
  BY <1>1, <1>2, VictimLeaves
<1>4. r \in Range(pass.running)
  BY <1>1, <1>2, FrontLeaves
<1>5. r \notin Chosen(pass) /\ v \notin Chosen(pass) /\ status[v] = "Running"
  <2>1. r \notin Chosen(pass) /\ v \notin Chosen(pass)
    BY <1>0, <1>3, <1>4, ChosenRuns
  <2>2. status[v] = "Running"
    BY <1>0, <1>3 DEF PassFiled, StatusOf
  <2> QED BY <2>1, <2>2
<1>6. Decoded(v)
  BY <1>0, <1>5 DEF AllStepwise, Stepwise, InBatch
<1>7. Chosen(pass') = Chosen(pass) /\ Entries(pass') = Entries(pass)
      /\ pass'.run_prefills = pass.run_prefills /\ pass'.in_prefills = pass.in_prefills
  BY <1>1 DEF SameChosen, Chosen, Prefilled, Decoding, Continued, BroughtIn, Resumed, Entries
<1>8. \A q \in Requests : q # v => /\ status'[q] = status[q] /\ stage'[q] = stage[q]
                                   /\ computed'[q] = computed[q] /\ length'[q] = length[q]
  <2>1. CASE Recomputed(v)
    BY <1>0, <2>1 DEF Recomputed, SeqTypes
  <2>2. CASE SwappedOut(v)
    BY <1>0, <2>2 DEF SwappedOut, SeqTypes
  <2> QED BY <1>1, <2>1, <2>2
<1>9. AllStepwise'
  <2>1. \A q \in Requests : InBatch(q) => InBatch(q)'
    BY <1>0, <1>7 DEF InBatch
  <2>2. (status'[v] = "Waiting" /\ Fresh(v)') \/ (status'[v] = "Swapped" /\ Decoded(v)')
    <3>1. CASE Recomputed(v)
      <4>1. status'[v] = "Waiting" /\ stage'[v] = "Prefill" /\ computed'[v] = 0 /\ length'[v] = length[v]
        BY <1>0, <3>1 DEF Recomputed, SeqTypes
      <4>2. length[v] # 0
        BY <1>0, <1>6 DEF Decoded, SeqTypes
      <4> QED BY <4>1, <4>2 DEF Fresh
    <3>2. CASE SwappedOut(v)
      BY <1>0, <1>6, <3>2 DEF SwappedOut, SeqTypes, Decoded
    <3> QED BY <1>1, <3>1, <3>2
  <2> QED BY <1>8, <2>1, <2>2, StepwiseStep
<1>10. WholeBatch'
  <2>1. ASSUME NEW e \in Entries(pass') PROVE Completes(e)'
    <3>1. e.id \in Chosen(pass) /\ e.id \in Requests
      <4>1. /\ pass.prefills \in Seq(Scheduled) /\ pass.run_decodes \in Seq(Scheduled)
            /\ pass.in_decodes \in Seq(Scheduled)
        BY <1>0, PassLists
      <4>2. \A L \in Seq(Scheduled) : \A d \in Range(L) : d \in Scheduled /\ d.id \in Range(RequestsOf(L))
        BY RequestsOfRange
      <4>3. e \in Scheduled /\ e.id \in Prefilled(pass) \cup Decoding(pass) \cup BroughtIn(pass)
        BY <1>7, <2>1, <4>1, <4>2 DEF Entries, Prefilled, Decoding, BroughtIn
      <4> QED BY <4>3 DEF Chosen, Scheduled
    <3>2. Completes(e)
      BY <1>0, <1>7, <2>1 DEF WholeBatch
    <3>3. e.id # v
      BY <1>5, <3>1
    <3> QED BY <1>8, <3>1, <3>2, <3>3 DEF Completes
  <2>2. pass.run_prefills = <<>> /\ pass.in_prefills = <<>>
    BY <1>0 DEF WholeBatch
  <2> QED BY <1>0, <1>7, <2>1, <2>2 DEF WholeBatch
<1>11. pass'.tokens = pass.tokens
  BY <1>1, <1>5 DEF Budget, Charged
<1>12. pass.tokens \in Int /\ pass.num_seqs \in Int /\ MaxNumSequences \in Nat /\ GetMaxNumRunningSeqs(r) \in Nat
  BY <1>0, <1>1, NumTokensType, ConfigAssumption DEF PassType
<1>13. pass'.num_seqs <= MaxNumSequences
  <2>1. pass.num_seqs <= MaxNumSequences
    BY DEF Room
  <2> QED BY <1>1, <1>12, <2>1
<1>14. PICK a \in Nat, b \in Nat : /\ a = Total(BestOf, Range(pass.running))
                                   /\ b = Total(BestOf, Range(pass'.running)) /\ b + 1 <= a
  <2>1. Range(pass.running) \in SUBSET Requests
    BY <1>2, RangeOfList
  <2> QED BY <1>3, <2>1, SeatLeaves
<1>15. pass.tokens + a <= MaxNumSequences /\ pass.tokens <= MaxBatchedTokens
  BY <1>0, <1>14 DEF Room
<1>16. pass.tokens + b <= MaxNumSequences
  BY <1>12, <1>14, <1>15
<1>17. Room'
  BY <1>0, <1>11, <1>13, <1>14, <1>15, <1>16 DEF Room
<1> QED BY <1>9, <1>10, <1>17

(* append_slots finds at most one block missing, and it is free. *)
LEMMA AppendFits ==
    ASSUME SeqTypes, NEW r \in Requests, NEW n \in Nat, NEW free \in Int, free >= 1,
           LogicalBlocks(r) <= n + 1
    PROVE  AppendSlotsError(r, n, free) = "none"
<1>1. LogicalBlocks(r) \in Nat
  BY LogicalBlocksType
<1>2. CASE SlotsAppended(r, n) = 0
  BY <1>2 DEF AppendSlotsError
<1>3. CASE SlotsAppended(r, n) # 0
  <2>1. n < LogicalBlocks(r)
    BY <1>3 DEF SlotsAppended
  <2>2. n = LogicalBlocks(r) - 1 /\ free # 0
    BY <1>1, <2>1
  <2> QED BY <2>2 DEF AppendSlotsError
<1> QED BY <1>2, <1>3

LEMMA VerdictFine ==
    ASSUME ~Chunked, Types, Filed, Tables, AllStepwise, Verdict \in Errors
    PROVE  Verdict = "NotEnoughBlockSpaceForSwapOut" /\ \E v \in Requests : BestOf[v] # 1
<1>0. /\ SeqTypes /\ PassTypes /\ pass \in PassType
      /\ pass.waiting \in Seq(Requests) /\ pass.running \in Seq(Requests) /\ pass.swapped \in Seq(Requests)
  BY DEF Types, PassTypes, PassType
<1>1. CASE phase = "prefills"
  <2>1. pass.waiting # <<>>
    BY <1>1 DEF Verdict, Errors
  <2>2. PICK r \in Requests : r = Head(pass.waiting) /\ r \in Range(pass.waiting)
    BY <1>0, <2>1, HeadTail
  <2>3. status[r] = "Waiting"
    BY <1>1, <2>2 DEF Filed, PassFiled, StatusOf
  <2>4. Fresh(r)
    BY <2>3 DEF AllStepwise, Stepwise
  <2>5. NumNewTokens(r, "Waiting") # 0 /\ GetNumTokens(r, "Waiting") = length[r] /\ GetNumTokens(r, "Waiting") # 0
    BY <1>0, <2>3, <2>4, DefaultTokens
  <2>6. PrefillVerdict(r) \in {"ignore", "stop", "run"}
    BY <2>5 DEF PrefillVerdict
  <2>7. Verdict = PrefillVerdict(r)
    BY <1>1, <2>1, <2>2 DEF Verdict
  <2> QED BY <2>6, <2>7 DEF Errors
<1>2. CASE phase = "running"
  <2>1. pass.running # <<>>
    BY <1>2 DEF Verdict, Errors
  <2>2. PICK r \in Requests : r = Head(pass.running) /\ r \in Range(pass.running)
    BY <1>0, <2>1, HeadTail
  <2>3. PICK v \in Requests : v = Victim(pass.running) /\ v \in Range(pass.running)
    BY <1>0, <2>1, LastOf DEF Victim
  <2>4. PassFiled(pass, status)
    BY <1>2 DEF Filed
  <2>5. status[r] = "Running" /\ status[v] = "Running" /\ r \notin Chosen(pass)
    BY <2>2, <2>3, <2>4, ChosenRuns DEF PassFiled, StatusOf
  <2>6. Decoded(r)
    BY <1>2, <2>5 DEF AllStepwise, Stepwise, InBatch
  <2>7. NumNewTokens(r, "Running") # 0 /\ GetNumTokens(r, "Running") # 0
    BY <1>0, <2>5, <2>6, DefaultTokens
  <2>8. PreemptError(v) \in {"none", "NotEnoughBlockSpaceForSwapOut"} /\ (BestOf[v] = 1 => PreemptError(v) = "none")
    <3>1. GetMaxNumRunningSeqs(v) = BestOf[v]
      BY <1>0, <2>5, NumTokensType DEF Live
    <3> QED BY <2>5, <3>1 DEF PreemptError, ByRecompute
  <2>9. CanAppendSlots(r) => AppendSlotsError(r, gpu_table[SequenceId[r]], free_gpu) = "none"
    <3> SUFFICES ASSUME CanAppendSlots(r)
                 PROVE  AppendSlotsError(r, gpu_table[SequenceId[r]], free_gpu) = "none"
      OBVIOUS
    <3>1. free_gpu \in Int /\ free_gpu >= 1 /\ gpu_table[SequenceId[r]] \in Nat
      BY TablesAreNumbers DEF CanAppendSlots, Types, BlockTypes, TableFacts
    <3>2. LogicalBlocks(r) <= gpu_table[SequenceId[r]] + 1
      BY <2>5 DEF Tables, Held, Holds, GpuBlocks
    <3> QED BY <1>0, <3>1, <3>2, AppendFits
  <2>10. \/ RunningVerdict(r) \in {"preempt", "run"}
         \/ RunningVerdict(r) = "NotEnoughBlockSpaceForSwapOut" /\ BestOf[v] # 1
    BY <2>3, <2>7, <2>8, <2>9 DEF RunningVerdict
  <2>11. Verdict = RunningVerdict(r)
    BY <1>2, <2>1, <2>2 DEF Verdict
  <2> QED BY <2>10, <2>11 DEF Errors
<1>3. CASE phase = "swapped"
  <2>1. pass.swapped # <<>>
    BY <1>3 DEF Verdict, Errors
  <2>2. PICK r \in Requests : r = Head(pass.swapped) /\ r \in Range(pass.swapped)
    BY <1>0, <2>1, HeadTail
  <2>3. status[r] = "Swapped"
    BY <1>3, <2>2 DEF Filed, PassFiled, StatusOf
  <2>4. Decoded(r)
    BY <2>3 DEF AllStepwise, Stepwise
  <2>5. NumNewTokens(r, "Swapped") # 0
    BY <1>0, <2>3, <2>4, DefaultTokens
  <2>6. CanSwapIn(r) = "Ok" => AppendSlotsError(r, cpu_table[SequenceId[r]], free_gpu - cpu_table[SequenceId[r]]) = "none"
    <3> SUFFICES ASSUME CanSwapIn(r) = "Ok"
                 PROVE  AppendSlotsError(r, cpu_table[SequenceId[r]], free_gpu - cpu_table[SequenceId[r]]) = "none"
      OBVIOUS
    <3>1. TableLen(r) + 1 <= free_gpu
      BY DEF CanSwapIn
    <3>2. PICK c \in Nat : c = cpu_table[SequenceId[r]]
      BY TablesAreNumbers DEF Types, TableFacts
    <3>3. gpu_table[SequenceId[r]] = 0 /\ LogicalBlocks(r) <= c + 1
      BY <2>3, <3>2 DEF Tables, Held, Holds, GpuBlocks, CpuBlocks
    <3>4. free_gpu \in Int
      BY DEF Types, BlockTypes
    <3>5. free_gpu - c \in Int /\ free_gpu - c >= 1
      BY <3>1, <3>2, <3>3, <3>4 DEF TableLen
    <3>6. AppendSlotsError(r, c, free_gpu - c) = "none"
      BY <1>0, <3>3, <3>5, AppendFits
    <3> QED BY <3>2, <3>6
  <2>7. CanSwapIn(r) \in {"Ok", "Later", "Never"}
    BY DEF CanSwapIn
  <2>8. SwappedVerdict(r) \in {"stop", "ignore", "run"}
    BY <2>5, <2>6, <2>7 DEF SwappedVerdict
  <2>9. Verdict = SwappedVerdict(r)
    BY <1>3, <2>1, <2>2 DEF Verdict
  <2> QED BY <2>8, <2>9 DEF Errors
<1>4. CASE phase \notin {"prefills", "running", "swapped"}
  <2>1. Verdict = "none"
    BY <1>4 DEF Verdict
  <2> QED BY <2>1 DEF Errors
<1> QED BY <1>1, <1>2, <1>3, <1>4

LEMMA FlowStop ==
    ASSUME ~Chunked, Types, Budget, AllStepwise, WholeBatch, Room, StopPrefills \/ StopRunning \/ StopSwapped
    PROVE  AllStepwise' /\ WholeBatch' /\ Room'
<1>1. /\ UNCHANGED <<pass, status, stage, computed, length>> /\ phase # "idle" /\ err = "none"
      /\ SameChosen(pass', pass)
  BY DEF StopPrefills, StopRunning, StopSwapped, In, Delayed, seqs, SameChosen
<1>2. phase' # "idle"
  BY AfterNotIdle DEF StopPrefills, StopRunning, StopSwapped
<1>3. AllStepwise' /\ WholeBatch'
  BY <1>1, <1>2, FlowSame
<1>4. Room'
  <2>1. CASE phase' = "running"
    <3>1. phase = "prefills" /\ pass.prefills = <<>>
      BY <2>1 DEF StopPrefills, StopRunning, StopSwapped, In, Delayed, AfterPrefills, AfterRunning, AfterSwapped
    <3>2. /\ pass.run_decodes = <<>> /\ pass.run_prefills = <<>> /\ pass.in_prefills = <<>>
          /\ pass.in_decodes = <<>>
      BY <3>1 DEF Room, WholeBatch, Budget, Staged
    <3>3. PassChunks(pass) = 0
      <4>1. SameChosen(pass, EmptyPass)
        BY <3>1, <3>2 DEF SameChosen, EmptyPass
      <4> QED BY <4>1, NothingChosen
    <3>4. pass.tokens = 0
      BY <3>3 DEF Budget, Charged
    <3>5. PICK R \in SUBSET Requests : R = Range(running)
      BY RangeOfList DEF Types, QueueTypes
    <3>6. Range(pass.running) \in SUBSET R
      BY <1>1, <3>5 DEF Budget, Seated
    <3>7. MaxNumSequences \in Nat /\ Total(BestOf, R) <= MaxNumSequences
      BY <3>5, ConfigAssumption DEF Budget, RunningFits
    <3>8. Total(BestOf, Range(pass.running)) <= MaxNumSequences
      BY <3>5, <3>6, <3>7, FewerSeats
    <3>9. Total(BestOf, Range(pass.running)) \in Nat
      <4>1. BestOf \in [Requests -> Nat]
        BY RequestsAssumption
      <4>2. Range(pass.running) \in SUBSET Requests /\ IsFiniteSet(Range(pass.running))
        BY <3>5, <3>6, RequestsAssumption, FS_Subset
      <4> QED BY <4>1, <4>2, TotalType, Zenon
    <3>10. pass.tokens + Total(BestOf, Range(pass.running)) <= MaxNumSequences
      BY <3>4, <3>8, <3>9
    <3> QED BY <1>1, <2>1, <3>10 DEF Room
  <2>2. CASE phase' # "running"
    <3>1. phase' # "prefills"
      BY DEF StopPrefills, StopRunning, StopSwapped, AfterPrefills, AfterRunning, AfterSwapped
    <3> QED BY <1>1, <2>2, <3>1 DEF Room
  <2> QED BY <2>1, <2>2
<1> QED BY <1>3, <1>4

LEMMA FlowCommit ==
    ASSUME ~Chunked, Types, Filed, AllStepwise, WholeBatch, Room, Commit
    PROVE  /\ err' = "none" /\ AllStepwise' /\ WholeBatch' /\ Room'
           /\ \A q \in Requests : InBatch(q) => InBatch(q)'
<1>0. /\ pass \in PassType /\ phase = "commit" /\ PassFiled(pass, status)
      /\ UNCHANGED <<status, stage, computed, length>>
  BY DEF Types, PassTypes, Commit, Filed, seqs
<1>1. MaxBatchedTokens \in Nat /\ MaxNumSequences \in Nat /\ pass.tokens \in Int /\ pass.num_seqs \in Int
  BY <1>0, ConfigAssumption DEF PassType
<1>2. ~(pass.tokens > MaxBatchedTokens) /\ ~(pass.num_seqs > MaxNumSequences)
  BY <1>1 DEF Room
<1>3. pass.run_prefills = <<>> /\ pass.in_prefills = <<>> /\ \A e \in Entries(pass) : Completes(e)
  BY <1>0 DEF WholeBatch
<1>4. err' = "none"
  BY <1>2, <1>3 DEF Commit, CommitError
<1>5. /\ outputs' = NewOutputs(pass) /\ phase' = "idle" /\ pass' = EmptyPass
      /\ in_flight' = ~OutputsEmpty(outputs')
  BY <1>4 DEF Commit
<1>6. PICK b \in Seq(Scheduled) : b = outputs'.scheduled /\ b = NewOutputs(pass).scheduled
  BY <1>0, <1>5, OutputsType
<1>7. Range(RequestsOf(b)) = Chosen(pass)
  <2>1. Range(RequestsOf(b)) = Prefilled(pass) \cup Decoding(pass) \cup BroughtIn(pass)
    BY <1>0, <1>6, CommitLists DEF PassFiled
  <2>2. <<>> \in Seq(Scheduled)
    OBVIOUS
  <2>3. Range(RequestsOf(<<>>)) = {}
    BY <2>2, RequestsOfList, EmptyList
  <2> QED BY <1>3, <2>1, <2>3 DEF Chosen, Continued, Resumed
<1>8. Range(b) = Entries(pass)
  <2>1. PICK P \in Seq(Scheduled), D \in Seq(Scheduled), I \in Seq(Scheduled) :
          P = pass.prefills /\ D = pass.run_decodes /\ I = pass.in_decodes
    BY <1>0, PassLists
  <2>2. P \o <<>> = P
    OBVIOUS
  <2>3. b = P \o D \o I
    BY <1>6, <2>1, <2>2 DEF NewOutputs
  <2>4. PICK X \in Seq(Scheduled) : X = P \o D /\ Range(X) = Range(P) \cup Range(D)
    <3>1. P \o D \in Seq(Scheduled) /\ Range(P \o D) = Range(P) \cup Range(D)
      BY ConcatRange
    <3> QED BY <3>1
  <2>5. Range(X \o I) = Range(X) \cup Range(I)
    BY ConcatRange
  <2> QED BY <2>1, <2>3, <2>4, <2>5 DEF Entries
<1>9. Chosen(pass) # {} => in_flight'
  <2>1. ASSUME Chosen(pass) # {} PROVE in_flight'
    <3>1. b # <<>>
      <4>0. <<>> \in Seq(Scheduled)
        OBVIOUS
      <4>1. Range(RequestsOf(<<>>)) = {}
        BY <4>0, RequestsOfList, EmptyList
      <4> QED BY <1>7, <2>1, <4>1
    <3> QED BY <1>5, <1>6, <3>1 DEF OutputsEmpty
  <2> QED BY <2>1
<1>9a. \A q \in Requests : InBatch(q) => InBatch(q)'
  BY <1>0, <1>5, <1>6, <1>7, <1>9 DEF InBatch
<1>10. AllStepwise'
  <2> SUFFICES ASSUME NEW q \in Requests PROVE Stepwise(q)'
    BY DEF AllStepwise
  <2>1. InBatch(q) => InBatch(q)'
    BY <1>9a
  <2>2. Stepwise(q)
    BY DEF AllStepwise
  <2> QED BY <1>0, <2>1, <2>2 DEF Stepwise, Fresh, Decoded
<1>11. WholeBatch'
  BY <1>0, <1>3, <1>5, <1>6, <1>8 DEF WholeBatch, Batch, Completes
<1>12. Room'
  BY <1>1, <1>5, ConfigAssumption DEF Room, EmptyPass
<1> QED BY <1>4, <1>9a, <1>10, <1>11, <1>12

LEMMA FlowAdd ==
    ASSUME Types, Filed, AllStepwise, WholeBatch, Room, NEW r \in Requests, AddSequenceGroup(r)
    PROVE  AllStepwise' /\ WholeBatch' /\ Room'
<1>0. /\ SeqTypes /\ phase = "idle" /\ UNCHANGED <<phase, pass, outputs, in_flight, computed, stage>>
      /\ status[r] = "Unborn"
  BY DEF Types, AddSequenceGroup, batch
<1>1. PICK n \in PromptLens : length' = [length EXCEPT ![r] = n]
  BY DEF AddSequenceGroup
<1>2. status' = [status EXCEPT ![r] = "Waiting"] /\ n # 0
  BY RequestsAssumption DEF AddSequenceGroup
<1>3. computed[r] = 0 /\ stage[r] = "Prefill"
  BY <1>0 DEF SeqTypes
<1>4. \A q \in Requests : q # r => status'[q] = status[q] /\ length'[q] = length[q]
  BY <1>0, <1>1, <1>2 DEF SeqTypes
<1>5. status'[r] = "Waiting" /\ length'[r] = n
  BY <1>0, <1>1, <1>2 DEF SeqTypes
<1>6. AllStepwise'
  <2>1. \A q \in Requests : InBatch(q) => InBatch(q)'
    BY <1>0 DEF InBatch
  <2>2. Fresh(r)'
    BY <1>0, <1>2, <1>3, <1>5 DEF Fresh
  <2> QED BY <1>0, <1>4, <1>5, <2>1, <2>2, StepwiseStep
<1>7. WholeBatch'
  <2>1. ASSUME in_flight, NEW e \in Batch PROVE Completes(e)'
    <3>1. e.id \in Requests /\ status[e.id] # "Unborn" /\ Completes(e)
      <4>1. outputs.scheduled \in Seq(Scheduled)
        BY DEF Types, BatchTypes
      <4>2. e \in Scheduled
        BY <4>1, RangeOfList DEF Batch
      <4> QED BY <1>0, <2>1, <4>2 DEF Scheduled, Filed, BatchFiled, WholeBatch
    <3>2. e.id # r
      BY <1>0, <3>1
    <3> QED BY <1>0, <1>4, <3>1, <3>2 DEF Completes
  <2> QED BY <1>0, <2>1 DEF WholeBatch, Batch
<1>8. Room'
  BY <1>0 DEF Room
<1> QED BY <1>6, <1>7, <1>8

LEMMA FlowProcess ==
    ASSUME Types, Filed, AllStepwise, WholeBatch, Room, NEW stopped \in SUBSET Sampled, ProcessOutputs(stopped)
    PROVE  err' = err /\ AllStepwise' /\ WholeBatch' /\ Room'
<1>0. /\ SeqTypes /\ phase = "idle" /\ in_flight /\ in_flight' = FALSE /\ UNCHANGED <<phase, pass, outputs>>
  BY DEF Types, ProcessOutputs
<1>1. \A e \in Batch : Completes(e) /\ e.id \in Requests /\ e.chunk \in Nat /\ e \in Scheduled
  BY <1>0, ProcessOutputsEffect DEF WholeBatch
<1>2. OutputsProcessed(stopped)
  <2>1. ASSUME NEW e \in Batch PROVE ~(computed[e.id] + e.chunk > length[e.id])
    <3>1. computed[e.id] + e.chunk = length[e.id] /\ length[e.id] \in Nat
      BY <1>0, <1>1 DEF Completes, SeqTypes
    <3> QED BY <3>1
  <2> QED BY <2>1, ProcessOutputsEffect
<1>3. outputs.scheduled \in Seq(Scheduled)
  BY DEF Types, BatchTypes
<1>4. AllStepwise'
  <2> SUFFICES ASSUME NEW q \in Requests PROVE Stepwise(q)'
    BY DEF AllStepwise
  <2>1. status'[q] = "Finished" \/ status'[q] = status[q]
    BY <1>2 DEF OutputsProcessed
  <2>2. CASE \E e \in Batch : e.id = q
    <3>1. PICK e \in Batch : e.id = q
      BY <2>2
    <3>a. status[q] \in {"Running", "FinishedAborted"}
      BY <1>0, <3>1 DEF Filed, BatchFiled
    <3>b. CASE status[q] # "Running"
      BY <2>1, <3>a, <3>b DEF Stepwise
    <3> SUFFICES ASSUME status[q] = "Running" PROVE Stepwise(q)'
      BY <3>b
    <3>2. status[q] = "Running"
      OBVIOUS
    <3>3. q \in Sampled
      BY <1>1, <3>1 DEF Sampled, Completes
    <3>4. PICK d \in Batch : d.id = q /\ computed'[q] = computed[q] + d.chunk
      BY <1>2, <2>2, <3>2 DEF OutputsProcessed, Live
    <3>5. computed'[q] = length[q]
      BY <1>1, <3>4 DEF Completes
    <3>6. stage'[q] = "Decode"
      BY <1>2, <2>2, <3>2, <3>5 DEF OutputsProcessed, Live
    <3>7. length'[q] = length[q] + 1
      BY <1>2, <3>3 DEF OutputsProcessed
    <3>8. Decoded(q)'
      BY <3>5, <3>6, <3>7 DEF Decoded
    <3> QED BY <2>1, <3>2, <3>8 DEF Stepwise
  <2>3. CASE ~\E e \in Batch : e.id = q
    <3>1. q \notin Sampled
      BY <2>3 DEF Sampled
    <3>2. length'[q] = length[q] /\ computed'[q] = computed[q]
      BY <1>2, <2>3, <3>1 DEF OutputsProcessed
    <3>3. stage'[q] = stage[q]
      BY <1>2, <2>3 DEF OutputsProcessed
    <3>4. ~InBatch(q)
      <4>1. q \notin Range(RequestsOf(outputs.scheduled))
        BY <1>3, <2>3, RequestsOfRange DEF Batch
      <4> QED BY <1>0, <4>1 DEF InBatch
    <3>5. Stepwise(q)
      BY DEF AllStepwise
    <3> QED BY <2>1, <3>2, <3>3, <3>4, <3>5 DEF Stepwise, Fresh, Decoded
  <2> QED BY <2>2, <2>3
<1>5. WholeBatch'
  BY <1>0 DEF WholeBatch
<1>6. Room' /\ err' = err
  BY <1>0, <1>2 DEF Room, OutputsProcessed
<1> QED BY <1>4, <1>5, <1>6

LEMMA FlowNext ==
    ASSUME ~Chunked, Types, Filed, Budget, Flow, Next
    PROVE  Flow' /\ (err' = "none" \/ PassFails)
<1>0. err = "none" /\ AllStepwise /\ WholeBatch /\ Room
  <2>1. err = "none"
    BY DEF Next, PassStep, AddSequenceGroup, Schedule, StopPrefills, StopRunning, StopSwapped, PassFails,
           PrefillIgnored, PrefillScheduled, RunningScheduled, Preempt, SwappedIgnored, SwappedScheduled,
           Commit, ProcessOutputs, In, Delayed
  <2> QED BY <2>1 DEF Flow
<1>a. ASSUME err' = err, AllStepwise', WholeBatch', Room' PROVE Flow' /\ err' = "none"
  BY <1>0, <1>a DEF Flow
<1>1. CASE \E r \in Requests : AddSequenceGroup(r)
  <2>1. err' = err
    BY <1>1 DEF AddSequenceGroup
  <2> QED BY <1>0, <1>1, <1>a, <2>1, FlowAdd
<1>2. CASE Schedule
  <2>1. /\ QueuesFiled /\ StartPass /\ UNCHANGED <<queues, seqs, batch>> /\ err' = err
        /\ phase = "idle" /\ ~in_flight
    BY <1>2 DEF Schedule, Filed
  <2> QED BY <1>0, <1>a, <2>1, FlowStart
<1>3. CASE StopPrefills \/ StopRunning \/ StopSwapped
  <2>1. err' = err
    BY <1>3 DEF StopPrefills, StopRunning, StopSwapped
  <2> QED BY <1>0, <1>3, <1>a, <2>1, FlowStop
<1>4. CASE PassFails
  BY <1>4 DEF PassFails, Errors, Flow
<1>5. CASE PrefillIgnored \/ SwappedIgnored
  <2>1. err' = err
    BY <1>5 DEF PrefillIgnored, SwappedIgnored
  <2> QED BY <1>0, <1>5, <1>a, <2>1, FlowIgnored
<1>6. CASE PrefillScheduled
  <2>1. err' = err
    BY <1>6 DEF PrefillScheduled
  <2> QED BY <1>0, <1>6, <1>a, <2>1, FlowPrefillScheduled
<1>7. CASE RunningScheduled
  <2>1. err' = err
    BY <1>7 DEF RunningScheduled
  <2> QED BY <1>0, <1>7, <1>a, <2>1, FlowRunningScheduled
<1>8. CASE Preempt
  <2>1. err' = err
    BY <1>8 DEF Preempt
  <2> QED BY <1>0, <1>8, <1>a, <2>1, FlowPreempt
<1>9. CASE SwappedScheduled
  <2>1. err' = err
    BY <1>9 DEF SwappedScheduled
  <2> QED BY <1>0, <1>9, <1>a, <2>1, FlowSwappedScheduled
<1>10. CASE Commit
  BY <1>0, <1>10, <1>a, FlowCommit
<1>11. CASE \E stopped \in SUBSET Sampled : ProcessOutputs(stopped)
  BY <1>0, <1>11, <1>a, FlowProcess
<1> QED BY <1>1, <1>2, <1>3, <1>4, <1>5, <1>6, <1>7, <1>8, <1>9, <1>10, <1>11 DEF Next, PassStep

LEMMA FailNext ==
    ASSUME ~Chunked, Types, Filed, Tables, Flow, OnlySwapFails, err' = "none" \/ PassFails
    PROVE  OnlySwapFails'
<1>1. CASE PassFails
  <2>1. Verdict \in Errors /\ err' = Verdict /\ err = "none"
    BY <1>1 DEF PassFails
  <2>2. err' = "NotEnoughBlockSpaceForSwapOut" /\ \E v \in Requests : BestOf[v] # 1
    BY <2>1, VerdictFine DEF Flow
  <2> QED BY <2>2 DEF OnlySwapFails
<1> QED BY <1>1 DEF OnlySwapFails

LEMMA FlowStutter == ASSUME Flow, UNCHANGED vars PROVE Flow'
<1>1. /\ UNCHANGED <<status, stage, computed, length, phase, pass, outputs, in_flight, err>>
  BY DEF vars, seqs, batch
<1>2. (AllStepwise => AllStepwise') /\ (Room => Room')
  BY <1>1 DEF AllStepwise, Stepwise, InBatch, Fresh, Decoded, Room
<1>3. WholeBatch => WholeBatch'
  BY <1>1 DEF WholeBatch, Completes, Batch
<1> QED BY <1>1, <1>2, <1>3 DEF Flow

LEMMA FlowInvariant ==
    ~Chunked /\ DistinctIds => (Spec => [](Types /\ Filed /\ Tables /\ Budget /\ Flow /\ OnlySwapFails))
<1> SUFFICES ASSUME ~Chunked, DistinctIds
             PROVE  Spec => [](Types /\ Filed /\ Tables /\ Budget /\ Flow /\ OnlySwapFails)
  OBVIOUS
<1> DEFINE I == Types /\ Filed /\ Tables /\ Budget /\ Flow /\ OnlySwapFails
<1>1. Init => I
  BY TypesInit, FiledInit, TablesInit, BudgetInit, FlowInit
<1>2. I /\ [Next]_vars => I'
  <2>1. ASSUME I, Next PROVE I'
    <3>1. Types' /\ Filed' /\ Tables' /\ Budget'
      BY <2>1, TypesNext, FiledNext, TablesNext, BudgetNext
    <3>2. Flow' /\ (err' = "none" \/ PassFails)
      BY <2>1, FlowNext
    <3> QED BY <2>1, <3>1, <3>2, FailNext
  <2>2. ASSUME I, UNCHANGED vars PROVE I'
    <3>1. err' = err
      BY <2>2 DEF vars
    <3> QED BY <2>2, <3>1, TypesNext, FiledNext, TablesNext, BudgetNext, FlowStutter, StutterDropped DEF OnlySwapFails
  <2> QED BY <2>1, <2>2
<1> QED BY <1>1, <1>2, PTL DEF Spec

(* Under the default policy the scheduler returns one error at most: there are
   not enough CPU blocks to swap out a group of several sequences.  No other
   check of schedule or of process_generated_outputs fires, and no block
   operation it decided on fails, if no two requests share a sequence id. *)
THEOREM OnlySwapOutFails ==
    ~Chunked /\ DistinctIds => (Spec => [](err \in {"none", "NotEnoughBlockSpaceForSwapOut"}))
<1> SUFFICES ASSUME ~Chunked, DistinctIds PROVE Spec => [](err \in {"none", "NotEnoughBlockSpaceForSwapOut"})
  OBVIOUS
<1>1. OnlySwapFails => err \in {"none", "NotEnoughBlockSpaceForSwapOut"}
  BY DEF OnlySwapFails
<1> QED BY <1>1, FlowInvariant, PTL

(* With best_of = 1 and distinct sequence ids every preemption is by
   recomputation and schedule returns no error at all. *)
THEOREM ScheduleNeverFails ==
    ~Chunked /\ DistinctIds /\ (\A r \in Requests : BestOf[r] = 1) => (Spec => []NoSchedulerError)
<1> SUFFICES ASSUME ~Chunked, DistinctIds, \A r \in Requests : BestOf[r] = 1 PROVE Spec => []NoSchedulerError
  OBVIOUS
<1>1. OnlySwapFails => NoSchedulerError
  BY DEF OnlySwapFails, NoSchedulerError
<1> QED BY <1>1, FlowInvariant, PTL

-----------------------------------------------------------------------------
(* First come, first served, under the default policy *)

Begun == {r \in Requests : Started(r)}

(* In a queue the groups that ran before come first, the others in order of
   arrival. *)
Queued(q, S) ==
    \A i, j \in DOMAIN q : i < j /\ q[i] \notin S => q[j] \notin S /\ q[i] < q[j]

(* Nothing that arrived after a request still waiting for its first run has run;
   requests arrive in order. *)
Fair(r, q) ==
    /\ status[q] # "Unborn" => status[r] # "Unborn"
    /\ status[r] = "Waiting" /\ ~Started(r) => ~Started(q) /\ status[q] \notin {"Running", "Swapped"}

AllFair == \A r, q \in Requests : r < q => Fair(r, q)

(* A group that runs, outside the batch being computed, has sampled a token. *)
HasRun(r) ==
    /\ prompt_len[r] <= length[r]
    /\ status[r] = "Unborn" => ~Started(r)
    /\ status[r] = "Swapped" => Started(r)
    /\ status[r] = "Running" /\ ~InBatch(r) => Started(r)

History == \A r \in Requests : HasRun(r)

Line ==
    /\ Queued(waiting, Begun)
    /\ phase # "idle" => Queued(pass.waiting, Begun) /\ Range(pass.preempted) \subseteq Begun

Arrival == AllFair /\ History /\ Line

(* A batch leaves nobody behind: what arrived before a member of it does not wait
   for its first run.  (A member that runs is in order by AllFair; this is for
   those that were aborted since.) *)
Served ==
    in_flight => \A e \in Batch : \A r \in Requests : r < e.id /\ status[r] = "Waiting" => Started(r)

LEMMA QueuedTail ==
    ASSUME NEW q \in Seq(Requests), q # <<>>, NEW S, Queued(q, S)
    PROVE  /\ Queued(Tail(q), S)
           /\ Head(q) \notin S => \A x \in Range(Tail(q)) : Head(q) < x
<1> DEFINE n == Len(q)
           t == Tail(q)
<1>1. n \in Nat /\ n # 0 /\ DOMAIN q = 1..n
  OBVIOUS
<1>2. DOMAIN t = 1..(n - 1) /\ \A i \in 1..(n - 1) : t[i] = q[i + 1] /\ i + 1 \in 1..n
  BY <1>1
<1>3. Head(q) = q[1] /\ 1 \in 1..n
  BY <1>1
<1> HIDE DEF t, n
<1>4. Queued(t, S)
  <2> SUFFICES ASSUME NEW i \in 1..(n - 1), NEW j \in 1..(n - 1), i < j, t[i] \notin S
               PROVE  t[j] \notin S /\ t[i] < t[j]
    BY <1>2 DEF Queued
  <2>1. i + 1 \in DOMAIN q /\ j + 1 \in DOMAIN q /\ i + 1 < j + 1 /\ t[i] = q[i + 1] /\ t[j] = q[j + 1]
    BY <1>1, <1>2
  <2> QED BY <2>1 DEF Queued
<1>5. ASSUME Head(q) \notin S, NEW x \in Range(t) PROVE Head(q) < x
  <2>1. PICK i \in 1..(n - 1) : x = t[i]
    BY <1>2 DEF Range
  <2>2. 1 \in DOMAIN q /\ i + 1 \in DOMAIN q /\ 1 < i + 1 /\ x = q[i + 1]
    BY <1>1, <1>2, <1>3, <2>1
  <2> QED BY <1>3, <1>5, <2>2 DEF Queued
<1> QED BY <1>4, <1>5 DEF t

LEMMA QueuedAppend ==
    ASSUME NEW q \in Seq(Requests), NEW S, Queued(q, S), NEW x \in Requests, x \notin S,
           \A y \in Range(q) : y < x
    PROVE  Queued(Append(q, x), S)
<1> DEFINE n == Len(q)
           t == Append(q, x)
<1>1. n \in Nat /\ DOMAIN q = 1..n /\ DOMAIN t = 1..(n + 1) /\ t[n + 1] = x /\ \A i \in 1..n : t[i] = q[i]
  OBVIOUS
<1> HIDE DEF t, n
<1> SUFFICES ASSUME NEW i \in 1..(n + 1), NEW j \in 1..(n + 1), i < j, t[i] \notin S
             PROVE  t[j] \notin S /\ t[i] < t[j]
  BY <1>1 DEF Queued, t
<1>2. i \in 1..n /\ t[i] = q[i] /\ q[i] \in Range(q)
  <2>1. i \in 1..n
    BY <1>1
  <2> QED BY <1>1, <2>1 DEF Range
<1>3. CASE j = n + 1
  BY <1>1, <1>2, <1>3
<1>4. CASE j # n + 1
  <2>1. j \in 1..n
    BY <1>1, <1>4
  <2> QED BY <1>1, <1>2, <2>1 DEF Queued
<1> QED BY <1>3, <1>4

LEMMA QueuedConcat ==
    ASSUME NEW p \in Seq(Requests), NEW q \in Seq(Requests), NEW S, Range(p) \subseteq S, Queued(q, S)
    PROVE  Queued(p \o q, S)
<1> DEFINE m == Len(p)
           n == Len(q)
           c == p \o q
<1>1. /\ m \in Nat /\ n \in Nat /\ DOMAIN p = 1..m /\ DOMAIN q = 1..n
      /\ c \in Seq(Requests) /\ Len(c) = m + n /\ \A k \in 1..m : c[k] = p[k]
      /\ \A k \in 1..n : c[m + k] = q[k]
  BY ConcatList
<1>2. DOMAIN c = 1..(m + n)
  BY <1>1
<1>3. \A k \in 1..m : p[k] \in S
  BY <1>1 DEF Range
<1> HIDE DEF c, m, n
<1> SUFFICES ASSUME NEW i \in 1..(m + n), NEW j \in 1..(m + n), i < j, c[i] \notin S
             PROVE  c[j] \notin S /\ c[i] < c[j]
  BY <1>2 DEF Queued, c
<1>4. i > m
  <2>1. i \notin 1..m
    BY <1>1, <1>3
  <2> QED BY <1>1, <2>1
<1>5. PICK k \in 1..n : i = m + k
  <2>1. i - m \in 1..n /\ i = m + (i - m)
    BY <1>1, <1>4
  <2> QED BY <2>1
<1>6. PICK l \in 1..n : j = m + l
  <2>1. j - m \in 1..n /\ j = m + (j - m)
    BY <1>1, <1>4
  <2> QED BY <2>1
<1>7. k < l
  BY <1>1, <1>5, <1>6
<1>8. c[i] = q[k] /\ c[j] = q[l]
  BY <1>1, <1>5, <1>6
<1> QED BY <1>1, <1>7, <1>8 DEF Queued

LEMMA QueuedSame ==
    ASSUME NEW q, NEW S, NEW T, Queued(q, S), \A x \in Range(q) : x \in S <=> x \in T
    PROVE  Queued(q, T)
BY DEF Queued, Range

LEMMA ArrivalInit == Init => Arrival
<1> SUFFICES ASSUME Init PROVE Arrival
  OBVIOUS
<1>1. \A r \in Requests : ~Started(r) /\ status[r] = "Unborn" /\ prompt_len[r] <= length[r]
  BY DEF Init, Started
<1>2. Line
  BY DEF Init, Line, Queued
<1> QED BY <1>1, <1>2 DEF Arrival, AllFair, Fair, History, HasRun

(* Steps of a pass that change no sequence and leave the waiting queue alone *)
LEMMA ArrivalSame ==
    ASSUME Arrival, UNCHANGED <<waiting, status, length, prompt_len>>, phase # "idle", phase' # "idle",
           pass'.waiting = pass.waiting, pass'.preempted = pass.preempted, Chosen(pass) \subseteq Chosen(pass')
    PROVE  Arrival'
<1>1. Begun' = Begun /\ \A r \in Requests : Started(r)' <=> Started(r)
  BY DEF Begun, Started
<1>2. \A r \in Requests : InBatch(r) => InBatch(r)'
  BY DEF InBatch
<1>3. AllFair'
  BY <1>1 DEF Arrival, AllFair, Fair
<1>4. History'
  BY <1>1, <1>2 DEF Arrival, History, HasRun
<1>5. Line'
  BY <1>1 DEF Arrival, Line
<1> QED BY <1>3, <1>4, <1>5 DEF Arrival

(* Steps that change the status of one request *)
LEMMA ArrivalStatus ==
    ASSUME AllFair, History, UNCHANGED <<length, prompt_len>>, NEW x \in Requests, NEW st,
           \A q \in Requests : q # x => status'[q] = status[q], status'[x] = st, st # "Unborn", status[x] # "Unborn",
           st = "Waiting" => Started(x), st = "Swapped" => Started(x),
           st = "Running" => InBatch(x)',
           \A q \in Requests : q # x /\ InBatch(q) => InBatch(q)',
           st \in {"Running", "Swapped"} =>
                status[x] \in {"Running", "Swapped"}
                \/ \A r \in Requests : r < x /\ status[r] = "Waiting" => Started(r)
    PROVE  AllFair' /\ History'
<1>1. \A r \in Requests : (Started(r)' <=> Started(r)) /\ (prompt_len'[r] <= length'[r] <=> prompt_len[r] <= length[r])
  BY DEF Started
<1>2. AllFair'
  <2> SUFFICES ASSUME NEW r \in Requests, NEW q \in Requests, r < q PROVE Fair(r, q)'
    BY DEF AllFair
  <2>1. Fair(r, q)
    BY DEF AllFair
  <2>2. status'[q] # "Unborn" => status'[r] # "Unborn"
    BY <2>1 DEF Fair
  <2>3. ASSUME status'[r] = "Waiting", ~Started(r) PROVE ~Started(q) /\ status'[q] \notin {"Running", "Swapped"}
    <3>1. r # x /\ status[r] = "Waiting"
      BY <2>3
    <3>2. ~Started(q) /\ status[q] \notin {"Running", "Swapped"}
      BY <2>1, <2>3, <3>1 DEF Fair
    <3>3. CASE q = x
      BY <2>3, <3>1, <3>2, <3>3
    <3>4. CASE q # x
      BY <3>2, <3>4
    <3> QED BY <3>3, <3>4
  <2> QED BY <1>1, <2>2, <2>3 DEF Fair
<1>3. History'
  <2> SUFFICES ASSUME NEW q \in Requests PROVE HasRun(q)'
    BY DEF History
  <2>1. HasRun(q)
    BY DEF History
  <2>2. CASE q = x
    BY <1>1, <2>1, <2>2 DEF HasRun
  <2>3. CASE q # x
    BY <1>1, <2>1, <2>3 DEF HasRun
  <2> QED BY <2>2, <2>3
<1> QED BY <1>2, <1>3

LEMMA ChosenGrows ==
    ASSUME Budget, Budget', pass.token_ids \subseteq pass'.token_ids
    PROVE  Chosen(pass) \subseteq Chosen(pass')
BY DEF Budget, Charged

LEMMA ArrivalStart ==
    ASSUME Types, Arrival, phase = "idle", ~in_flight, StartPass, UNCHANGED <<queues, seqs>>
    PROVE  Arrival'
<1>1. pass'.waiting = waiting /\ pass'.preempted = <<>> /\ phase' # "idle"
  BY StartPassEffect DEF Types, SameDropped, EmptyPass
<1>2. UNCHANGED <<waiting, status, length, prompt_len>>
  BY DEF queues, seqs
<1>3. Begun' = Begun /\ \A r \in Requests : Started(r)' <=> Started(r)
  BY <1>2 DEF Begun, Started
<1>4. AllFair'
  BY <1>2, <1>3 DEF Arrival, AllFair, Fair
<1>5. History'
  BY <1>2, <1>3 DEF Arrival, History, HasRun, InBatch
<1>6. Range(pass'.preempted) = {}
  BY <1>1, EmptyList
<1>7. Line'
  BY <1>1, <1>2, <1>3, <1>6 DEF Arrival, Line
<1> QED BY <1>4, <1>5, <1>7 DEF Arrival

LEMMA ArrivalStop ==
    ASSUME Arrival, phase # "idle", phase' # "idle", UNCHANGED <<queues, seqs, pass>>
    PROVE  Arrival'
<1>1. UNCHANGED <<waiting, status, length, prompt_len, pass>>
  BY DEF queues, seqs
<1> QED BY <1>1, ArrivalSame

LEMMA ArrivalRunning ==
    ASSUME Types, Budget, Budget', Arrival, RunningScheduled
    PROVE  Arrival'
<1>0. SeqTypes /\ PassTypes /\ UNCHANGED <<waiting, status, length, prompt_len, phase>> /\ phase # "idle"
  BY DEF Types, RunningScheduled, In, queues, seqs
<1>1. PICK r \in Requests, n \in Nat :
        pass'.waiting = pass.waiting /\ SameDropped(pass', pass) /\ TokensCharged(pass', pass, r, n)
  BY <1>0, RunningScheduledEffect
<1>2. Chosen(pass) \subseteq Chosen(pass')
  BY <1>1, ChosenGrows DEF TokensCharged
<1> QED BY <1>0, <1>1, <1>2, ArrivalSame DEF SameDropped

(* The front of the waiting queue is taken off it. *)
LEMMA ArrivalTaken ==
    ASSUME Types, Filed, Budget, Budget', Arrival, PrefillIgnored \/ PrefillScheduled
    PROVE  Arrival'
<1>0. /\ SeqTypes /\ PassTypes /\ pass \in PassType /\ UNCHANGED <<waiting, length, prompt_len, phase>>
      /\ phase # "idle" /\ PassFiled(pass, status)
  BY DEF Types, PassTypes, PrefillIgnored, PrefillScheduled, In, queues, Filed
<1>1. PICK x \in Requests, st \in {"Running", "FinishedIgnored"} :
        /\ x = Head(pass.waiting) /\ pass.waiting # <<>> /\ status[x] = "Waiting"
        /\ status' = [status EXCEPT ![x] = st]
        /\ pass'.waiting = Tail(pass.waiting) /\ pass'.preempted = pass.preempted
        /\ pass.token_ids \subseteq pass'.token_ids
        /\ st = "Running" => x \in pass'.token_ids
  <2>1. CASE PrefillIgnored
    <3>1. PICK r \in Requests : /\ r = Head(pass.waiting) /\ pass.waiting # <<>> /\ status[r] = "Waiting"
             /\ status' = [status EXCEPT ![r] = "FinishedIgnored"]
             /\ pass'.waiting = Tail(pass.waiting)
             /\ pass'.preempted = pass.preempted /\ SameTokens(pass', pass)
      BY <1>0, <2>1, PrefillIgnoredEffect
    <3> QED BY <3>1 DEF SameTokens
  <2>2. CASE PrefillScheduled
    <3>1. PICK r \in Requests, n \in Nat : /\ r = Head(pass.waiting)
             /\ status' = [status EXCEPT ![r] = "Running"]
             /\ pass'.waiting = Tail(pass.waiting)
             /\ SameDropped(pass', pass) /\ TokensCharged(pass', pass, r, n)
      BY <1>0, <2>2, PrefillScheduledEffect
    <3>2. pass.waiting # <<>> /\ status[r] = "Waiting"
      BY <2>2, <3>1, PrefillRun DEF PrefillScheduled
    <3> QED BY <3>1, <3>2 DEF SameDropped, TokensCharged
  <2> QED BY <2>1, <2>2
<1>2. /\ pass.waiting \in Seq(Requests) /\ IsInjective(pass.waiting)
      /\ Range(pass.preempted) \subseteq Begun /\ Queued(pass.waiting, Begun)
  BY <1>0 DEF PassType, PassFiled, NoDuplicates, Arrival, Line
<1>3. /\ Queued(Tail(pass.waiting), Begun)
      /\ x \notin Begun => \A q \in Range(Tail(pass.waiting)) : x < q
  BY <1>1, <1>2, QueuedTail
<1>4. Range(Tail(pass.waiting)) = Range(pass.waiting) \ {x}
  BY <1>1, <1>2, FrontLeaves
<1>5. ASSUME NEW r \in Requests, r < x, status[r] = "Waiting" PROVE Started(r)
  <2> SUFFICES ASSUME ~Started(r) PROVE FALSE
    OBVIOUS
  <2>1. x \notin Begun /\ r \notin Begun
    BY <1>5 DEF Arrival, AllFair, Fair, Begun
  <2>2. r \in Range(pass.waiting)
    BY <1>0, <1>2, <1>5, <2>1 DEF PassFiled, NothingLost
  <2>3. r \in Nat /\ x \in Nat
    BY RequestsAssumption
  <2>4. r # x
    BY <1>5, <2>3
  <2>5. x < r
    BY <1>3, <1>4, <2>1, <2>2, <2>4
  <2> QED BY <1>5, <2>3, <2>5
<1>6. Chosen(pass) \subseteq Chosen(pass')
  BY <1>1, ChosenGrows
<1>7. \A q \in Requests : InBatch(q) => InBatch(q)'
  BY <1>0, <1>6 DEF InBatch
<1>8. st = "Running" => InBatch(x)'
  BY <1>0, <1>1 DEF Budget, Charged, InBatch
<1>9. status'[x] = st /\ \A q \in Requests : q # x => status'[q] = status[q]
  BY <1>0, <1>1 DEF SeqTypes
<1>10. AllFair' /\ History'
  BY <1>0, <1>1, <1>5, <1>7, <1>8, <1>9, ArrivalStatus DEF Arrival
<1>11. Begun' = Begun
  BY <1>0 DEF Begun, Started
<1>12. Line'
  BY <1>0, <1>1, <1>2, <1>3, <1>11 DEF Arrival, Line
<1> QED BY <1>10, <1>12 DEF Arrival

LEMMA ArrivalSwapped ==
    ASSUME Types, Filed, Budget, Budget', Arrival, SwappedIgnored \/ SwappedScheduled
    PROVE  Arrival'
<1>0. /\ SeqTypes /\ PassTypes /\ pass \in PassType /\ UNCHANGED <<waiting, length, prompt_len, phase>>
      /\ phase # "idle" /\ PassFiled(pass, status)
  BY DEF Types, PassTypes, SwappedIgnored, SwappedScheduled, In, queues, Filed
<1>1. PICK x \in Requests, st \in {"Running", "FinishedIgnored"} :
        /\ x = Head(pass.swapped) /\ pass.swapped # <<>>
        /\ status' = [status EXCEPT ![x] = st]
        /\ pass'.waiting = pass.waiting /\ pass'.preempted = pass.preempted
        /\ pass.token_ids \subseteq pass'.token_ids
        /\ st = "Running" => x \in pass'.token_ids
  <2>1. CASE SwappedIgnored
    <3>1. PICK r \in Requests : /\ r = Head(pass.swapped) /\ pass.swapped # <<>>
             /\ status' = [status EXCEPT ![r] = "FinishedIgnored"]
             /\ pass'.waiting = pass.waiting
             /\ pass'.preempted = pass.preempted /\ SameTokens(pass', pass)
      BY <1>0, <2>1, SwappedIgnoredEffect
    <3> QED BY <3>1 DEF SameTokens
  <2>2. CASE SwappedScheduled
    <3>0. pass.swapped # <<>> /\ pass.swapped \in Seq(Requests)
      BY <1>0, <2>2, SwappedRun DEF SwappedScheduled, PassType
    <3>0a. cpu_table[SequenceId[Head(pass.swapped)]] \in Nat
      <4>1. Head(pass.swapped) \in Requests
        BY <3>0, HeadTail
      <4> QED BY <4>1, TablesAreNumbers DEF TableFacts, Types
    <3>1. PICK r \in Requests, n \in Nat : /\ r = Head(pass.swapped)
             /\ status' = [status EXCEPT ![r] = "Running"]
             /\ pass'.waiting = pass.waiting
             /\ SameDropped(pass', pass) /\ TokensCharged(pass', pass, r, n)
      BY <1>0, <2>2, <3>0a, SwappedScheduledEffect
    <3> QED BY <3>0, <3>1 DEF SameDropped, TokensCharged
  <2> QED BY <2>1, <2>2
<1>2. status[x] = "Swapped"
  <2>1. pass.swapped \in Seq(Requests) /\ IsInjective(pass.swapped)
    BY <1>0 DEF PassType, PassFiled, NoDuplicates
  <2>2. x \in Range(pass.swapped)
    BY <1>1, <2>1, FrontLeaves
  <2> QED BY <1>0, <2>2 DEF PassFiled, StatusOf
<1>6. Chosen(pass) \subseteq Chosen(pass')
  BY <1>1, ChosenGrows
<1>7. \A q \in Requests : InBatch(q) => InBatch(q)'
  BY <1>0, <1>6 DEF InBatch
<1>8. st = "Running" => InBatch(x)'
  BY <1>0, <1>1 DEF Budget, Charged, InBatch
<1>9. status'[x] = st /\ \A q \in Requests : q # x => status'[q] = status[q]
  BY <1>0, <1>1 DEF SeqTypes
<1>10. AllFair' /\ History'
  BY <1>0, <1>1, <1>2, <1>7, <1>8, <1>9, ArrivalStatus DEF Arrival
<1>11. Begun' = Begun
  BY <1>0 DEF Begun, Started
<1>12. Line'
  BY <1>0, <1>1, <1>11 DEF Arrival, Line
<1> QED BY <1>10, <1>12 DEF Arrival

LEMMA ArrivalPreempt ==
    ASSUME Types, Filed, Arrival, Preempt
    PROVE  Arrival'
<1>0. /\ SeqTypes /\ PassTypes /\ pass \in PassType /\ UNCHANGED <<waiting, length, prompt_len, phase>>
      /\ phase = "running" /\ PassFiled(pass, status)
  BY DEF Types, PassTypes, Preempt, In, Filed, queues
<1>0a. \A v \in Requests : gpu_table[SequenceId[v]] \in Nat
  BY TablesAreNumbers DEF TableFacts, Types
<1>1. PICK v \in Requests :
             /\ pass.running # <<>> /\ v = Last(pass.running)
             /\ Recomputed(v) \/ SwappedOut(v)
             /\ pass'.waiting = pass.waiting
             /\ SameChosen(pass', pass)
  BY <1>0, <1>0a, PreemptEffect
<1>2. /\ pass.running \in Seq(Requests) /\ IsInjective(pass.running) /\ pass.preempted \in Seq(Requests)
  BY <1>0 DEF PassType, PassFiled, NoDuplicates
<1>3. v \in Range(pass.running)
  BY <1>1, <1>2, VictimLeaves
<1>4. v \notin Chosen(pass) /\ status[v] = "Running"
  <2>1. v \notin Chosen(pass)
    BY <1>0, <1>3, ChosenRuns
  <2>2. status[v] = "Running"
    BY <1>0, <1>3 DEF PassFiled, StatusOf
  <2> QED BY <2>1, <2>2
<1>5. Started(v)
  BY <1>0, <1>4 DEF Arrival, History, HasRun, InBatch
<1>6. Chosen(pass') = Chosen(pass)
  BY <1>1 DEF SameChosen, Chosen, Prefilled, Decoding, Continued, BroughtIn, Resumed
<1>7. \A q \in Requests : InBatch(q) => InBatch(q)'
  BY <1>0, <1>6 DEF InBatch
<1>8. PICK st \in {"Waiting", "Swapped"} : status' = [status EXCEPT ![v] = st]
  BY <1>1 DEF Recomputed, SwappedOut
<1>9. status'[v] = st /\ \A q \in Requests : q # v => status'[q] = status[q]
  BY <1>0, <1>8 DEF SeqTypes
<1>10. AllFair' /\ History'
  BY <1>0, <1>4, <1>5, <1>7, <1>8, <1>9, ArrivalStatus DEF Arrival
<1>11. Begun' = Begun /\ v \in Begun
  BY <1>0, <1>5 DEF Begun, Started
<1>12. Range(pass'.preempted) \subseteq Begun
  <2>1. Range(pass.preempted) \subseteq Begun
    BY <1>0 DEF Arrival, Line
  <2>2. CASE Recomputed(v)
    <3>1. pass'.preempted = Append(pass.preempted, v)
      BY <2>2 DEF Recomputed
    <3>2. Range(pass'.preempted) = Range(pass.preempted) \cup {v}
      BY <1>2, <3>1, AppendList
    <3> QED BY <1>11, <2>1, <3>2
  <2>3. CASE SwappedOut(v)
    BY <2>1, <2>3 DEF SwappedOut
  <2> QED BY <1>1, <2>2, <2>3
<1>13. Line'
  BY <1>0, <1>1, <1>11, <1>12 DEF Arrival, Line
<1> QED BY <1>10, <1>13 DEF Arrival

LEMMA ArrivalCommit ==
    ASSUME ~Chunked, Types, Filed, AllStepwise, WholeBatch, Room, Arrival, Commit
    PROVE  Arrival'
<1>1. err' = "none" /\ \A q \in Requests : InBatch(q) => InBatch(q)'
  BY FlowCommit
<1>2. waiting' = pass.preempted \o pass.waiting /\ phase' = "idle" /\ UNCHANGED <<status, length, prompt_len>>
      /\ phase # "idle"
  BY <1>1 DEF Commit, NewWaiting, seqs
<1>3. Begun' = Begun /\ \A r \in Requests : Started(r)' <=> Started(r)
  BY <1>2 DEF Begun, Started
<1>4. AllFair'
  BY <1>2, <1>3 DEF Arrival, AllFair, Fair
<1>5. History'
  BY <1>1, <1>2, <1>3 DEF Arrival, History, HasRun
<1>6. pass.preempted \in Seq(Requests) /\ pass.waiting \in Seq(Requests)
  BY DEF Types, PassTypes, PassType
<1>7. Range(pass.preempted) \subseteq Begun /\ Queued(pass.waiting, Begun)
  BY <1>2 DEF Arrival, Line
<1>8. Queued(waiting', Begun)
  BY <1>2, <1>6, <1>7, QueuedConcat
<1>9. Line'
  BY <1>2, <1>3, <1>8 DEF Line
<1> QED BY <1>4, <1>5, <1>9 DEF Arrival

LEMMA ArrivalAdd ==
    ASSUME Types, Filed, Arrival, NEW r \in Requests, AddSequenceGroup(r)
    PROVE  Arrival'
<1>0. /\ SeqTypes /\ phase = "idle" /\ UNCHANGED <<phase, pass, outputs, in_flight>>
      /\ status[r] = "Unborn" /\ waiting' = Append(waiting, r) /\ QueuesFiled
      /\ waiting \in Seq(Requests)
      /\ \A q \in Requests : q < r => status[q] # "Unborn"
  BY DEF Types, QueueTypes, AddSequenceGroup, batch, Filed
<1>1. PICK n \in PromptLens : length' = [length EXCEPT ![r] = n] /\ prompt_len' = [prompt_len EXCEPT ![r] = n]
  BY DEF AddSequenceGroup
<1>2. status' = [status EXCEPT ![r] = "Waiting"] /\ n \in Nat
  BY RequestsAssumption DEF AddSequenceGroup
<1>3. \A q \in Requests : q # r => status'[q] = status[q] /\ length'[q] = length[q] /\ prompt_len'[q] = prompt_len[q]
  BY <1>0, <1>1, <1>2 DEF SeqTypes
<1>4. status'[r] = "Waiting" /\ length'[r] = n /\ prompt_len'[r] = n
  BY <1>0, <1>1, <1>2 DEF SeqTypes
<1>5. ~Started(r) /\ ~Started(r)'
  BY <1>0, <1>2, <1>4 DEF Arrival, History, HasRun, Started
<1>6. \A q \in Requests : Started(q)' <=> Started(q)
  BY <1>3, <1>5 DEF Started
<1>7. Begun' = Begun /\ r \notin Begun
  BY <1>5, <1>6 DEF Begun
<1>8. \A q \in Requests : r < q => status[q] = "Unborn" /\ ~Started(q)
  BY <1>0 DEF Arrival, AllFair, Fair, History, HasRun
<1>8a. r \in Nat /\ ~(r < r)
  BY RequestsAssumption
<1>9. AllFair'
  <2> SUFFICES ASSUME NEW a \in Requests, NEW b \in Requests, a < b PROVE Fair(a, b)'
    BY DEF AllFair
  <2>1. Fair(a, b)
    BY DEF Arrival, AllFair
  <2>2. CASE a = r
    <3>1. b # r /\ status[b] = "Unborn" /\ ~Started(b)
      BY <1>8, <1>8a, <2>2
    <3> QED BY <1>3, <1>4, <1>6, <2>2, <3>1 DEF Fair
  <2>3. CASE b = r /\ a # r
    BY <1>0, <1>3, <1>4, <1>5, <1>6, <2>3 DEF Fair
  <2>4. CASE a # r /\ b # r
    BY <1>3, <1>6, <2>1, <2>4 DEF Fair
  <2> QED BY <2>2, <2>3, <2>4
<1>10. History'
  <2> SUFFICES ASSUME NEW q \in Requests PROVE HasRun(q)'
    BY DEF History
  <2>1. HasRun(q)
    BY DEF Arrival, History
  <2>2. CASE q = r
    BY <1>2, <1>4, <2>2 DEF HasRun
  <2>3. CASE q # r
    BY <1>0, <1>3, <1>6, <2>1, <2>3 DEF HasRun, InBatch
  <2> QED BY <2>2, <2>3
<1>11. \A y \in Range(waiting) : y < r
  <2> TAKE y \in Range(waiting)
  <2>1. y \in Requests
    BY <1>0, RangeOfList
  <2>2. status[y] = "Waiting"
    BY <1>0, <2>1 DEF QueuesFiled
  <2>3. ~(r < y) /\ y # r
    BY <1>0, <1>8, <2>1, <2>2
  <2>4. y \in Nat
    BY <2>1, RequestsAssumption
  <2> QED BY <1>8a, <2>3, <2>4
<1>12. Queued(Append(waiting, r), Begun)
  BY <1>0, <1>7, <1>11, QueuedAppend DEF Arrival, Line
<1>13. Line'
  BY <1>0, <1>7, <1>12 DEF Line
<1> QED BY <1>9, <1>10, <1>13 DEF Arrival

LEMMA ArrivalProcess ==
    ASSUME Types, Filed, AllStepwise, WholeBatch, Arrival, Served,
           NEW stopped \in SUBSET Sampled, ProcessOutputs(stopped)
    PROVE  Arrival'
<1>0. /\ SeqTypes /\ phase = "idle" /\ in_flight /\ in_flight' = FALSE /\ UNCHANGED <<phase, pass, outputs, waiting>>
      /\ QueuesFiled /\ waiting \in Seq(Requests) /\ outputs.scheduled \in Seq(Scheduled)
  BY DEF Types, QueueTypes, BatchTypes, ProcessOutputs, Filed
<1>1. /\ \A e \in Batch : /\ Completes(e) /\ e.id \in Requests /\ e.chunk \in Nat
                          /\ status[e.id] \in {"Running", "FinishedAborted"}
      /\ Sampled \subseteq Requests
  BY <1>0, ProcessOutputsEffect DEF WholeBatch, Filed, BatchFiled
<1>2. OutputsProcessed(stopped)
  <2>1. ASSUME NEW e \in Batch PROVE ~(computed[e.id] + e.chunk > length[e.id])
    <3>1. computed[e.id] + e.chunk = length[e.id] /\ length[e.id] \in Nat
      BY <1>0, <1>1 DEF Completes, SeqTypes
    <3> QED BY <3>1
  <2> QED BY <2>1, ProcessOutputsEffect
<1>3. \A q \in Sampled : status[q] \in {"Running", "FinishedAborted"}
  BY <1>1 DEF Sampled
<1>4. \A q \in Requests : InBatch(q) => q \in Sampled
  <2> SUFFICES ASSUME NEW q \in Requests, InBatch(q) PROVE q \in Sampled
    OBVIOUS
  <2>1. q \in Range(RequestsOf(outputs.scheduled))
    BY <1>0 DEF InBatch
  <2>2. PICK e \in Batch : e.id = q
    BY <1>0, <2>1, RequestsOfRange DEF Batch
  <2> QED BY <1>1, <2>2 DEF Sampled, Completes
<1>5. \A q \in Requests : status'[q] = status[q] \/ (q \in Sampled /\ status'[q] = "Finished")
  BY <1>2 DEF OutputsProcessed
<1>6. \A q \in Requests : prompt_len'[q] = prompt_len[q] /\ prompt_len[q] \in Nat /\ length[q] \in Nat
  BY <1>0, <1>2 DEF OutputsProcessed, SeqTypes
<1>7. \A q \in Requests : q \notin Sampled => length'[q] = length[q] /\ (Started(q)' <=> Started(q))
  <2> TAKE q \in Requests
  <2>1. q \notin Sampled => length'[q] = length[q]
    BY <1>2 DEF OutputsProcessed
  <2> QED BY <1>6, <2>1 DEF Started
<1>8. \A q \in Sampled : prompt_len'[q] <= length'[q] /\ Started(q)'
  <2> TAKE q \in Sampled
  <2>1. q \in Requests /\ length'[q] = length[q] + 1
    BY <1>1, <1>2 DEF OutputsProcessed
  <2>2. prompt_len[q] <= length[q]
    BY <2>1 DEF Arrival, History, HasRun
  <2>3. prompt_len'[q] <= length'[q] /\ length'[q] > prompt_len'[q]
    BY <1>6, <2>1, <2>2
  <2> QED BY <2>3 DEF Started
<1>9. AllFair'
  <2> SUFFICES ASSUME NEW a \in Requests, NEW b \in Requests, a < b PROVE Fair(a, b)'
    BY DEF AllFair
  <2>1. Fair(a, b)
    BY DEF Arrival, AllFair
  <2>2. status'[b] # "Unborn" => status'[a] # "Unborn"
    BY <1>3, <1>5, <2>1 DEF Fair
  <2>3. ASSUME status'[a] = "Waiting", ~Started(a)' PROVE ~Started(b)' /\ status'[b] \notin {"Running", "Swapped"}
    <3>1. status[a] = "Waiting" /\ a \notin Sampled
      BY <1>3, <1>5, <2>3
    <3>2. ~Started(a)
      BY <1>7, <2>3, <3>1
    <3>3. ~Started(b) /\ status[b] \notin {"Running", "Swapped"}
      BY <2>1, <3>1, <3>2 DEF Fair
    <3>4. b \notin Sampled
      BY <1>0, <3>1, <3>2 DEF Served, Sampled
    <3> QED BY <1>5, <1>7, <3>3, <3>4
  <2> QED BY <2>2, <2>3 DEF Fair
<1>10. History'
  <2> SUFFICES ASSUME NEW q \in Requests PROVE HasRun(q)'
    BY DEF History
  <2>1. HasRun(q)
    BY DEF Arrival, History
  <2>2. CASE q \in Sampled
    <3>1. status'[q] # "Unborn"
      BY <1>3, <1>5, <2>2
    <3> QED BY <1>8, <2>2, <3>1 DEF HasRun
  <2>3. CASE q \notin Sampled
    BY <1>4, <1>5, <1>6, <1>7, <2>1, <2>3 DEF HasRun
  <2> QED BY <2>2, <2>3
<1>11. Line'
  <2>1. \A x \in Range(waiting) : x \in Begun <=> x \in Begun'
    <3> TAKE x \in Range(waiting)
    <3>1. x \in Requests
      BY <1>0, RangeOfList
    <3>2. x \notin Sampled
      BY <1>0, <1>3, <3>1 DEF QueuesFiled
    <3> QED BY <1>7, <3>1, <3>2 DEF Begun
  <2>2. Queued(waiting, Begun')
    BY <2>1, QueuedSame DEF Arrival, Line
  <2> QED BY <1>0, <2>2 DEF Line
<1> QED BY <1>9, <1>10, <1>11 DEF Arrival

LEMMA ArrivalNext ==
    ASSUME ~Chunked, Types, Filed, Budget, Budget', Flow, Arrival, Served, Next
    PROVE  Arrival'
<1>0. AllStepwise /\ WholeBatch /\ Room
  <2>1. err = "none"
    BY DEF Next, PassStep, AddSequenceGroup, Schedule, StopPrefills, StopRunning, StopSwapped, PassFails,
           PrefillIgnored, PrefillScheduled, RunningScheduled, Preempt, SwappedIgnored, SwappedScheduled,
           Commit, ProcessOutputs, In, Delayed
  <2> QED BY <2>1 DEF Flow
<1>1. CASE \E r \in Requests : AddSequenceGroup(r)
  BY <1>1, ArrivalAdd
<1>2. CASE Schedule
  <2>1. StartPass /\ UNCHANGED <<queues, seqs>> /\ phase = "idle" /\ ~in_flight
    BY <1>2 DEF Schedule
  <2> QED BY <2>1, ArrivalStart
<1>3. CASE StopPrefills \/ StopRunning \/ StopSwapped \/ PassFails
  <2>1. UNCHANGED <<queues, seqs, pass>>
    BY <1>3 DEF StopPrefills, StopRunning, StopSwapped, PassFails
  <2>2. phase # "idle"
    BY <1>3 DEF StopPrefills, StopRunning, StopSwapped, PassFails, In, Delayed, Verdict, Errors
  <2>3. phase' # "idle"
    BY <1>3, <2>2, AfterNotIdle DEF StopPrefills, StopRunning, StopSwapped, PassFails
  <2> QED BY <2>1, <2>2, <2>3, ArrivalStop
<1>4. CASE PrefillIgnored \/ PrefillScheduled
  BY <1>4, ArrivalTaken
<1>5. CASE SwappedIgnored \/ SwappedScheduled
  BY <1>5, ArrivalSwapped
<1>6. CASE RunningScheduled
  BY <1>6, ArrivalRunning
<1>7. CASE Preempt
  BY <1>7, ArrivalPreempt
<1>8. CASE Commit
  BY <1>0, <1>8, ArrivalCommit
<1>9. CASE \E stopped \in SUBSET Sampled : ProcessOutputs(stopped)
  BY <1>0, <1>9, ArrivalProcess
<1> QED BY <1>1, <1>2, <1>3, <1>4, <1>5, <1>6, <1>7, <1>8, <1>9 DEF Next, PassStep

LEMMA ArrivalStutter == ASSUME Arrival, UNCHANGED vars PROVE Arrival'
<1>1. UNCHANGED <<waiting, status, length, prompt_len, phase, pass, outputs, in_flight>>
  BY DEF vars, queues, seqs, batch
<1>2. Begun' = Begun /\ \A r \in Requests : (Started(r)' <=> Started(r)) /\ (InBatch(r)' <=> InBatch(r))
  BY <1>1 DEF Begun, Started, InBatch
<1>3. AllFair'
  BY <1>1, <1>2 DEF Arrival, AllFair, Fair
<1>4. History'
  BY <1>1, <1>2 DEF Arrival, History, HasRun
<1>5. Line'
  BY <1>1, <1>2 DEF Arrival, Line
<1> QED BY <1>3, <1>4, <1>5 DEF Arrival

(* A new batch is of running requests. *)
LEMMA CommitRuns ==
    ASSUME Types, Filed, Commit, err' = "none"
    PROVE  \A e \in Batch' : e.id \in Requests /\ status'[e.id] = "Running"
<1>1. /\ PassFiled(pass, status) /\ pass \in PassType /\ status' = status
      /\ outputs' = NewOutputs(pass)
  BY DEF Commit, Filed, Types, PassTypes, seqs
<1>2. PICK b : b = NewOutputs(pass).scheduled
  OBVIOUS
<1>3. Range(RequestsOf(b)) = Prefilled(pass) \cup Decoding(pass) \cup BroughtIn(pass)
                    \cup (IF Chunked THEN Continued(pass) \cup Resumed(pass) ELSE {})
  BY <1>1, <1>2, CommitLists DEF PassFiled
<1>4. \A r \in Range(RequestsOf(b)) : r \in Requests /\ status[r] = "Running"
  BY <1>1, <1>3, PassMembers DEF PassFiled, StatusOf, PassRequests
<1>5. b \in Seq(Scheduled)
  BY <1>1, <1>2, OutputsType
<1>6. \A e \in Range(b) : e.id \in Range(RequestsOf(b))
  BY <1>5, RequestsOfRange
<1> QED BY <1>1, <1>2, <1>4, <1>6 DEF Batch

LEMMA ServedNext ==
    ASSUME Types, Filed, Arrival, Arrival', Served, Next
    PROVE  Served'
<1>1. ASSUME ~in_flight' PROVE Served'
  BY <1>1 DEF Served
<1>2. ASSUME NEW r \in Requests, AddSequenceGroup(r) PROVE Served'
  <2>0. /\ status[r] = "Unborn" /\ SeqTypes /\ Batch' = Batch /\ in_flight' = in_flight
        /\ outputs.scheduled \in Seq(Scheduled)
    BY <1>2 DEF AddSequenceGroup, Types, BatchTypes, batch, Batch
  <2> SUFFICES ASSUME in_flight, NEW e \in Batch, NEW q \in Requests, q < e.id, status'[q] = "Waiting"
               PROVE  Started(q)'
    BY <2>0 DEF Served
  <2>1. e.id \in Requests /\ status[e.id] # "Unborn"
    BY <2>0, RequestsOfRange DEF Filed, BatchFiled, Batch
  <2>2. status[q] # "Unborn"
    BY <2>1 DEF Arrival, AllFair, Fair
  <2>3. status'[q] = status[q] /\ length'[q] = length[q] /\ prompt_len'[q] = prompt_len[q]
    BY <1>2, <2>0, <2>2 DEF AddSequenceGroup, SeqTypes
  <2> QED BY <2>3 DEF Served, Started
<1>3. ASSUME Commit PROVE Served'
  <2>1. CASE err' = "none"
    BY <1>3, <2>1, CommitRuns DEF Arrival, AllFair, Fair, Served
  <2>2. CASE err' # "none"
    BY <1>1, <1>3, <2>2 DEF Commit, Filed, batch
  <2> QED BY <2>1, <2>2
<1>4. ASSUME PassStep, ~Commit PROVE ~in_flight'
  <2>1. phase # "idle" /\ in_flight' = in_flight
    BY <1>4 DEF PassStep, StopPrefills, StopRunning, StopSwapped, PassFails, PrefillIgnored, PrefillScheduled,
           RunningScheduled, Preempt, SwappedIgnored, SwappedScheduled, In, Delayed, Verdict, Errors, batch
  <2> QED BY <2>1 DEF Filed
<1>5. Schedule => ~in_flight'
  BY DEF Schedule, batch
<1>6. (\E stopped \in SUBSET Sampled : ProcessOutputs(stopped)) => ~in_flight'
  BY DEF ProcessOutputs
<1> QED BY <1>1, <1>2, <1>3, <1>4, <1>5, <1>6 DEF Next

LEMMA ServedInit == Init => Served
BY DEF Init, Served

LEMMA ServedStutter == ASSUME Served, UNCHANGED vars PROVE Served'
<1>1. UNCHANGED <<status, length, prompt_len, outputs, in_flight>>
  BY DEF vars, seqs, batch
<1> QED BY <1>1 DEF Served, Started, Batch

LEMMA ArrivalInvariant ==
    ~Chunked => (Spec => [](Types /\ Filed /\ Budget /\ Flow /\ Arrival /\ Served))
<1> SUFFICES ASSUME ~Chunked PROVE Spec => [](Types /\ Filed /\ Budget /\ Flow /\ Arrival /\ Served)
  OBVIOUS
<1> DEFINE I == Types /\ Filed /\ Budget /\ Flow /\ Arrival /\ Served
<1>1. Init => I
  BY TypesInit, FiledInit, BudgetInit, FlowInit, ArrivalInit, ServedInit
<1>2. I /\ [Next]_vars => I'
  <2>1. ASSUME I, Next PROVE I'
    <3>1. Types' /\ Filed' /\ Budget' /\ Flow'
      BY <2>1, TypesNext, FiledNext, BudgetNext, FlowNext
    <3>2. Arrival'
      BY <2>1, <3>1, ArrivalNext
    <3> QED BY <2>1, <3>1, <3>2, ServedNext
  <2>2. ASSUME I, UNCHANGED vars PROVE I'
    BY <2>2, TypesNext, FiledNext, BudgetNext, FlowStutter, StutterDropped, ArrivalStutter, ServedStutter
  <2> QED BY <2>1, <2>2
<1> QED BY <1>1, <1>2, PTL DEF Spec

(* Who waits in front of whom *)
LEMMA InTurn == ASSUME Types, Arrival PROVE PreemptedBeforeNew /\ AdmittedInArrivalOrder
<1>1. PreemptedBeforeNew
  <2> SUFFICES ASSUME NEW i \in DOMAIN waiting, NEW j \in DOMAIN waiting, i < j, Started(waiting[j])
               PROVE  Started(waiting[i])
    BY DEF PreemptedBeforeNew
  <2>1. waiting[i] \in Requests /\ waiting[j] \in Requests
    BY DEF Types, QueueTypes
  <2>2. Queued(waiting, Begun)
    BY DEF Arrival, Line
  <2> QED BY <2>1, <2>2 DEF Queued, Begun
<1>2. AdmittedInArrivalOrder
  BY DEF Arrival, AllFair, Fair, AdmittedInArrivalOrder
<1> QED BY <1>1, <1>2

(* Under the default policy a preempted request, which goes back to the waiting
   queue at the end of the pass, waits in front of every request that never
   ran, at every step of every pass. *)
THEOREM PreemptedFirst == ~Chunked => (Spec => []PreemptedBeforeNew)
<1> SUFFICES ASSUME ~Chunked PROVE Spec => []PreemptedBeforeNew
  OBVIOUS
<1>1. Types /\ Arrival => PreemptedBeforeNew
  BY InTurn
<1> QED BY <1>1, ArrivalInvariant, PTL

(* First come, first served, for any number of requests and any capacities:
   under the default policy nothing that arrived after a request still waiting
   for its first run has run or is running. *)
THEOREM FirstComeFirstServed == ~Chunked => (Spec => []AdmittedInArrivalOrder)
<1> SUFFICES ASSUME ~Chunked PROVE Spec => []AdmittedInArrivalOrder
  OBVIOUS
<1>1. Types /\ Arrival => AdmittedInArrivalOrder
  BY InTurn
<1> QED BY <1>1, ArrivalInvariant, PTL

-----------------------------------------------------------------------------
(* Aborts.  abort_sequence_group computes the place of a group in the three
   queues taken together, and gets it wrong for swapped groups only. *)

(* What a call of the scheduler can make of a status: it aborts nothing, and it
   swaps out groups of several sequences only. *)
LEMMA StatusNext ==
    ASSUME Types, Filed, Next \/ Dropped, NEW q \in Requests
    PROVE  \/ status'[q] \in {status[q], "Waiting", "Running", "Finished", "FinishedIgnored"}
           \/ status'[q] = "Swapped" /\ BestOf[q] # 1
<1>0. SeqTypes /\ PassTypes /\ TableFacts /\ status \in [Requests -> Statuses]
  BY TablesAreNumbers DEF Types, SeqTypes
<1>1. CASE \E r \in Requests : AddSequenceGroup(r)
  BY <1>0, <1>1 DEF AddSequenceGroup
<1>2. CASE Schedule \/ StopPrefills \/ StopRunning \/ StopSwapped \/ PassFails \/ RunningScheduled \/ Commit
  BY <1>2 DEF Schedule, StopPrefills, StopRunning, StopSwapped, PassFails, RunningScheduled, Commit, seqs
<1>3. CASE PrefillIgnored \/ SwappedIgnored
  <2>1. PICK r \in Requests : status' = [status EXCEPT ![r] = "FinishedIgnored"]
    BY <1>0, <1>3, PrefillIgnoredEffect, SwappedIgnoredEffect
  <2> QED BY <1>0, <2>1
<1>4. CASE PrefillScheduled
  <2>1. PICK r \in Requests : status' = [status EXCEPT ![r] = "Running"]
    BY <1>0, <1>4, PrefillScheduledEffect
  <2> QED BY <1>0, <2>1
<1>5. CASE SwappedScheduled
  <2>1. pass.swapped \in Seq(Requests) /\ pass.swapped # <<>>
    BY <1>0, <1>5, SwappedRun DEF PassTypes, PassType, SwappedScheduled
  <2>2. cpu_table[SequenceId[Head(pass.swapped)]] \in Nat
    BY <1>0, <2>1, HeadTail DEF TableFacts
  <2>3. PICK r \in Requests : status' = [status EXCEPT ![r] = "Running"]
    BY <1>0, <1>5, <2>2, SwappedScheduledEffect
  <2> QED BY <1>0, <2>3
<1>6. CASE Preempt
  <2>1. PICK v \in Requests : (Recomputed(v) \/ SwappedOut(v)) /\ v = Last(pass.running) /\ pass.running # <<>>
    BY <1>0, <1>6, PreemptEffect DEF TableFacts
  <2>2. CASE Recomputed(v)
    BY <1>0, <2>2 DEF Recomputed
  <2>3. CASE SwappedOut(v)
    <3>1. pass.running \in Seq(Requests) /\ PassFiled(pass, status)
      BY <1>0, <1>6 DEF PassTypes, PassType, Filed, Preempt, In
    <3>2. status[v] = "Running"
      BY <2>1, <3>1, LastOf DEF PassFiled, StatusOf
    <3>3. BestOf[v] # 1
      BY <2>3, <3>2, RequestsAssumption DEF SwappedOut, ByRecompute, GetMaxNumRunningSeqs, Live
    <3> QED BY <1>0, <2>3, <3>3 DEF SwappedOut
  <2> QED BY <2>1, <2>2, <2>3
<1>7. CASE \E stopped \in SUBSET Sampled : ProcessOutputs(stopped)
  <2>1. PICK stopped \in SUBSET Sampled : ProcessOutputs(stopped)
    BY <1>7
  <2>2. CASE UNCHANGED <<running, seqs>>
    BY <2>2 DEF seqs
  <2>3. CASE OutputsProcessed(stopped)
    BY <2>3 DEF OutputsProcessed
  <2> QED BY <2>1, <2>2, <2>3, ProcessOutputsEffect
<1>8. CASE Dropped
  BY <1>8 DEF Dropped, seqs
<1> QED BY <1>1, <1>2, <1>3, <1>4, <1>5, <1>6, <1>7, <1>8 DEF Next, PassStep

(* No request asks for several candidates: preemption is by recomputation. *)
OneCandidate == \A r \in Requests : BestOf[r] = 1

NoSwaps == \A r \in Requests : status[r] # "Swapped"

(* What abort_sequence_group does to a request in the waiting or the running
   queue, and to any other *)
Aborted(r) ==
    /\ \/ status[r] = "Waiting" /\ waiting' = Keep(waiting, Requests \ {r}) /\ running' = running
       \/ status[r] = "Running" /\ running' = Keep(running, Requests \ {r}) /\ waiting' = waiting
    /\ status' = [status EXCEPT ![r] = "FinishedAborted"]
    /\ FreeSequence(r)

Missed(r) ==
    /\ status[r] \notin {"Waiting", "Running"}
    /\ waiting' = Keep(waiting, Requests \ {r})
    /\ UNCHANGED <<running, status, blocks>>

(* With nothing swapped the index arithmetic of abort_sequence_group is right: it
   takes the group out of the queue it is in, and leaves the others alone. *)
LEMMA AbortEffect ==
    ASSUME ~Chunked, Types, QueuesFiled, NoSwaps, NEW r \in Requests, AbortSequenceGroup(r)
    PROVE  /\ phase = "idle" /\ err = "none"
           /\ UNCHANGED <<swapped, prompt_len, length, computed, stage, phase, pass, outputs, in_flight, err>>
           /\ Aborted(r) \/ Missed(r)
<1> DEFINE all == waiting \o running \o swapped
           found == \E i \in DOMAIN all : all[i] = r
           place == CHOOSE i \in DOMAIN all : all[i] = r /\ \A j \in 1..(i - 1) : all[j] # r
           index == IF found THEN place - 1 ELSE Len(all)
           w == Len(waiting)
           wr == Len(waiting) + Len(running)
<1>1. /\ err = "none" /\ phase = "idle"
      /\ IF found /\ status[r] \in Live
         THEN status' = [status EXCEPT ![r] = "FinishedAborted"] /\ FreeSequence(r)
         ELSE UNCHANGED <<status, blocks>>
      /\ IF w <= index /\ index < wr
         THEN running' = Keep(running, Requests \ {r}) /\ UNCHANGED <<waiting, swapped>>
         ELSE IF index > wr
         THEN swapped' = Keep(swapped, {r}) /\ UNCHANGED <<waiting, running>>
         ELSE waiting' = Keep(waiting, Requests \ {r}) /\ UNCHANGED <<running, swapped>>
      /\ UNCHANGED <<prompt_len, length, computed, stage, phase, pass, batch, err>>
  BY DEF AbortSequenceGroup
<1>2. waiting \in Seq(Requests) /\ running \in Seq(Requests) /\ swapped \in Seq(Requests)
  BY DEF Types, QueueTypes
<1>3. swapped = <<>>
  <2>1. \A i \in DOMAIN swapped : FALSE
    BY <1>2, RangeOfList DEF QueuesFiled, NoSwaps, Range
  <2>2. Len(swapped) \in Nat /\ DOMAIN swapped = 1..Len(swapped)
    BY <1>2
  <2>3. Len(swapped) = 0
    BY <2>1, <2>2
  <2> QED BY <1>2, <2>3
<1>4. PICK m \in Nat, n \in Nat : m = Len(waiting) /\ n = Len(running)
  BY <1>2
<1>5. /\ all \in Seq(Requests) /\ Len(all) = m + n /\ DOMAIN all = 1..(m + n)
      /\ \A k \in 1..m : all[k] = waiting[k]
      /\ \A k \in 1..n : all[m + k] = running[k]
  <2>1. PICK c : c = waiting \o running
    OBVIOUS
  <2>2. /\ c \in Seq(Requests) /\ Len(c) = m + n /\ \A k \in 1..m : c[k] = waiting[k]
        /\ \A k \in 1..n : c[m + k] = running[k]
    BY <1>2, <1>4, <2>1, ConcatList
  <2>3. all = c
    BY <1>3, <2>1, <2>2
  <2>4. DOMAIN c = 1..(m + n)
    BY <2>2
  <2> HIDE DEF all
  <2> QED BY <2>2, <2>3, <2>4
<1> HIDE DEF all
<1>6. DOMAIN waiting = 1..m /\ DOMAIN running = 1..n
  BY <1>2, <1>4
<1>7. \A k \in 1..(m + n) : k > m => k - m \in 1..n /\ all[k] = running[k - m]
  <2> TAKE k \in 1..(m + n)
  <2> HAVE k > m
  <2>1. k - m \in 1..n /\ m + (k - m) = k
    BY <1>4
  <2> QED BY <1>5, <2>1
<1>8. ASSUME found
      PROVE  /\ place \in 1..(m + n) /\ all[place] = r
             /\ \A j \in 1..(m + n) : all[j] = r => place <= j
  <2>0. {i \in 1..(m + n) : all[i] = r} \in SUBSET Nat
    BY <1>4
  <2>1. PICK T \in SUBSET Nat : T = {i \in 1..(m + n) : all[i] = r}
    BY <2>0
  <2>2. T # {}
    BY <1>5, <1>8, <2>1
  <2>3. PICK x \in T : \A y \in T : x <= y
    BY <2>2, LeastNumber
  <2>4. x \in DOMAIN all /\ all[x] = r /\ \A j \in 1..(x - 1) : all[j] # r
    <3>1. ASSUME NEW j \in 1..(x - 1), all[j] = r PROVE FALSE
      <4>1. j \in 1..(m + n) /\ j < x /\ j \in Nat /\ x \in Nat
        BY <1>4, <2>1
      <4>2. j \in T
        BY <2>1, <3>1, <4>1
      <4> QED BY <2>3, <4>1, <4>2
    <3> QED BY <1>5, <2>1, <3>1
  <2>5. place \in DOMAIN all /\ all[place] = r /\ \A j \in 1..(place - 1) : all[j] # r
    BY <2>4
  <2> HIDE DEF place
  <2>6. ASSUME NEW j \in 1..(m + n), all[j] = r, ~(place <= j) PROVE FALSE
    <3>1. j \in 1..(place - 1)
      BY <1>4, <1>5, <2>5, <2>6
    <3> QED BY <2>5, <2>6, <3>1
  <2> QED BY <1>5, <2>5, <2>6
<1>9. found <=> r \in Range(waiting) \/ r \in Range(running)
  <2>1. ASSUME found PROVE r \in Range(waiting) \/ r \in Range(running)
    <3>1. PICK k \in 1..(m + n) : all[k] = r
      BY <1>5, <2>1
    <3>2. k \in 1..m \/ k > m
      BY <1>4
    <3> QED BY <1>5, <1>6, <1>7, <3>1, <3>2 DEF Range
  <2>2. ASSUME r \in Range(waiting) PROVE found
    <3>1. PICK k \in 1..m : waiting[k] = r
      BY <1>6, <2>2 DEF Range
    <3>2. k \in 1..(m + n)
      BY <1>4
    <3> QED BY <1>5, <3>1, <3>2
  <2>3. ASSUME r \in Range(running) PROVE found
    <3>1. PICK k \in 1..n : running[k] = r
      BY <1>6, <2>3 DEF Range
    <3>2. m + k \in 1..(m + n)
      BY <1>4
    <3> QED BY <1>5, <3>1, <3>2
  <2> QED BY <2>1, <2>2, <2>3
<1> HIDE DEF found, place
<1>10. /\ r \in Range(waiting) <=> status[r] = "Waiting"
       /\ r \in Range(running) <=> status[r] = "Running"
  BY DEF QueuesFiled
<1>11. CASE status[r] = "Waiting"
  <2>1. found /\ r \in Range(waiting)
    BY <1>9, <1>10, <1>11
  <2>2. PICK k \in 1..m : waiting[k] = r
    BY <1>6, <2>1 DEF Range
  <2>3. k \in 1..(m + n) /\ all[k] = r
    BY <1>4, <1>5, <2>2
  <2>4. place \in 1..(m + n) /\ place <= k
    BY <1>8, <2>1, <2>3
  <2>5. ~(w <= index) /\ ~(index > wr)
    BY <1>4, <2>1, <2>4
  <2> QED BY <1>1, <1>11, <2>1, <2>5 DEF Aborted, Live, batch
<1>12. CASE status[r] = "Running"
  <2>1. found /\ r \notin Range(waiting)
    BY <1>9, <1>10, <1>12
  <2>2. place \in 1..(m + n) /\ all[place] = r
    BY <1>8, <2>1
  <2>3. place \notin 1..m
    BY <1>5, <1>6, <2>1, <2>2 DEF Range
  <2>4. w <= index /\ index < wr
    BY <1>4, <2>1, <2>2, <2>3
  <2> QED BY <1>1, <1>12, <2>1, <2>4 DEF Aborted, Live, batch
<1>13. CASE status[r] \notin {"Waiting", "Running"}
  <2>1. ~found
    BY <1>9, <1>10, <1>13
  <2>2. ~(index < wr) /\ ~(index > wr)
    BY <1>4, <1>5, <2>1
  <2> QED BY <1>1, <1>13, <2>1, <2>2 DEF Missed, batch
<1> QED BY <1>11, <1>12, <1>13

(* The queues and the sequences after an abort *)
LEMMA AbortLists ==
    ASSUME Types, QueuesFiled, ~Chunked, NEW r \in Requests, Aborted(r) \/ Missed(r)
    PROVE  /\ waiting' \in Seq(Requests) /\ Range(waiting') = Range(waiting) \ {r} /\ IsInjective(waiting')
           /\ running' \in Seq(Requests) /\ Range(running') = Range(running) \ {r} /\ IsInjective(running')
           /\ \A q \in Requests : q # r => status'[q] = status[q]
           /\ status'[r] = IF status[r] \in {"Waiting", "Running"} THEN "FinishedAborted" ELSE status[r]
<1>1. waiting \in Seq(Requests) /\ running \in Seq(Requests) /\ status \in [Requests -> Statuses]
  BY DEF Types, QueueTypes, SeqTypes
<1>2. /\ Range(waiting) \subseteq Requests /\ Range(running) \subseteq Requests
      /\ IsInjective(waiting) /\ IsInjective(running)
  BY <1>1, RangeOfList DEF QueuesFiled
<1>3. /\ Keep(waiting, Requests \ {r}) \in Seq(Requests) /\ IsInjective(Keep(waiting, Requests \ {r}))
      /\ Range(Keep(waiting, Requests \ {r})) = Range(waiting) \ {r}
  <2>1. Range(Keep(waiting, Requests \ {r})) = Range(waiting) \cap (Requests \ {r})
    BY <1>1, KeepRange
  <2> QED BY <1>1, <1>2, <2>1, KeepRange, KeepInjective
<1>4. /\ Keep(running, Requests \ {r}) \in Seq(Requests) /\ IsInjective(Keep(running, Requests \ {r}))
      /\ Range(Keep(running, Requests \ {r})) = Range(running) \ {r}
  <2>1. Range(Keep(running, Requests \ {r})) = Range(running) \cap (Requests \ {r})
    BY <1>1, KeepRange
  <2> QED BY <1>1, <1>2, <2>1, KeepRange, KeepInjective
<1>5. /\ r \in Range(waiting) <=> status[r] = "Waiting"
      /\ r \in Range(running) <=> status[r] = "Running"
  BY DEF QueuesFiled
<1>6. CASE Aborted(r) /\ status[r] = "Waiting"
  <2>1. waiting' = Keep(waiting, Requests \ {r}) /\ running' = running /\ r \notin Range(running)
    BY <1>5, <1>6 DEF Aborted
  <2>2. status' = [status EXCEPT ![r] = "FinishedAborted"]
    BY <1>6 DEF Aborted
  <2> QED BY <1>1, <1>2, <1>3, <1>6, <2>1, <2>2
<1>7. CASE Aborted(r) /\ status[r] = "Running"
  <2>1. running' = Keep(running, Requests \ {r}) /\ waiting' = waiting /\ r \notin Range(waiting)
    BY <1>5, <1>7 DEF Aborted
  <2>2. status' = [status EXCEPT ![r] = "FinishedAborted"]
    BY <1>7 DEF Aborted
  <2> QED BY <1>1, <1>2, <1>4, <1>7, <2>1, <2>2
<1>8. CASE Missed(r)
  <2>1. waiting' = Keep(waiting, Requests \ {r}) /\ running' = running /\ r \notin Range(running)
        /\ status' = status /\ status[r] \notin {"Waiting", "Running"}
    BY <1>5, <1>8 DEF Missed
  <2> QED BY <1>1, <1>2, <1>3, <2>1
<1> QED BY <1>6, <1>7, <1>8 DEF Aborted

LEMMA AbortFiled ==
    ASSUME ~Chunked, Types, Filed, NoSwaps, NEW r \in Requests, AbortSequenceGroup(r)
    PROVE  Types' /\ Filed' /\ NoSwaps'
<1>0. phase = "idle" /\ QueuesFiled /\ SeqTypes /\ BlockTypes
  BY DEF AbortSequenceGroup, Filed, Types
<1>1. /\ UNCHANGED <<swapped, prompt_len, length, computed, stage, phase, pass, outputs, in_flight, err>>
      /\ Aborted(r) \/ Missed(r)
  BY <1>0, AbortEffect
<1>2. /\ waiting' \in Seq(Requests) /\ Range(waiting') = Range(waiting) \ {r} /\ IsInjective(waiting')
      /\ running' \in Seq(Requests) /\ Range(running') = Range(running) \ {r} /\ IsInjective(running')
      /\ \A q \in Requests : q # r => status'[q] = status[q]
      /\ status'[r] = IF status[r] \in {"Waiting", "Running"} THEN "FinishedAborted" ELSE status[r]
  BY <1>0, <1>1, AbortLists
<1>3. SeqTypes'
  <2>1. CASE Aborted(r)
    <3>1. "FinishedAborted" \in Statuses \ {"Unborn"}
      BY DEF Statuses
    <3> QED BY <1>0, <1>1, <2>1, <3>1, StatusTypes DEF Aborted
  <2>2. CASE Missed(r)
    BY <1>0, <1>1, <2>2, SameSeqTypes DEF Missed, seqs
  <2> QED BY <1>1, <2>1, <2>2
<1>4. BlockTypes'
  <2>1. CASE Aborted(r)
    BY <1>0, <2>1, FreeBlocks DEF Aborted
  <2>2. CASE Missed(r)
    BY <1>0, <2>2, SameBlocks DEF Missed
  <2> QED BY <1>1, <2>1, <2>2
<1>5. Types'
  BY <1>1, <1>2, <1>3, <1>4 DEF Types, QueueTypes, PassTypes, BatchTypes
<1>6. QueuesFiled'
  <2>1. \A q \in Requests : q \in Range(waiting') <=> status'[q] = "Waiting"
    BY <1>0, <1>2 DEF QueuesFiled
  <2>2. \A q \in Requests : q \in Range(swapped') <=> status'[q] = "Swapped"
    BY <1>0, <1>1, <1>2 DEF QueuesFiled
  <2>3. \A q \in Requests : q \in Range(running') <=> status'[q] = "Running"
    <3>1. \A q \in Requests : q \in Range(running) <=> status[q] = "Running"
      BY <1>0 DEF QueuesFiled
    <3> QED BY <1>2, <3>1
  <2>4. Range(running') \subseteq Requests
    BY <1>2, RangeOfList
  <2> QED BY <1>0, <1>1, <1>2, <2>1, <2>2, <2>3, <2>4 DEF QueuesFiled
<1>7. BatchFiled'
  <2>1. outputs.scheduled \in Seq(Scheduled)
    BY DEF Types, BatchTypes
  <2>2. \A e \in Batch : e.id \in Requests
    BY <2>1, RequestsOfRange DEF Batch
  <2> QED BY <1>1, <1>2, <2>2 DEF Filed, BatchFiled, Batch
<1>8. NoneFinished'
  <2>1. /\ Range(waiting) \subseteq Requests /\ Range(running) \subseteq Requests
        /\ Range(swapped) \subseteq Requests
    BY RangeOfList DEF Types, QueueTypes
  <2> QED BY <1>1, <1>2, <2>1 DEF Filed, NoneFinished
<1>9. NoSwaps'
  BY <1>2 DEF NoSwaps
<1> QED BY <1>0, <1>1, <1>5, <1>6, <1>7, <1>8, <1>9 DEF Filed

LEMMA AbortBudget ==
    ASSUME ~Chunked, Types, Filed, Budget, NoSwaps, NEW r \in Requests, AbortSequenceGroup(r)
    PROVE  Budget'
<1>0. phase = "idle" /\ QueuesFiled
  BY DEF AbortSequenceGroup, Filed
<1>1. /\ UNCHANGED <<phase, pass, outputs, err>>
      /\ Aborted(r) \/ Missed(r)
  BY <1>0, AbortEffect
<1>2. Range(running') = Range(running) \ {r}
  BY <1>0, <1>1, AbortLists
<1>3. RunningFits'
  <2>1. Range(running) \in SUBSET Requests /\ MaxNumSequences \in Nat
    BY RangeOfList, ConfigAssumption DEF Types, QueueTypes
  <2>2. PICK R \in SUBSET Range(running) : R = Range(running')
    BY <1>2
  <2>3. Total(BestOf, R) <= MaxNumSequences
    BY <2>1, FewerSeats DEF Budget, RunningFits
  <2> QED BY <2>2, <2>3 DEF RunningFits
<1> QED BY <1>0, <1>1, <1>3 DEF Budget, BatchFits

LEMMA AbortFlow ==
    ASSUME ~Chunked, Types, Filed, Flow, NoSwaps, NEW r \in Requests, AbortSequenceGroup(r)
    PROVE  Flow'
<1>0. phase = "idle" /\ QueuesFiled
  BY DEF AbortSequenceGroup, Filed
<1>1. /\ UNCHANGED <<prompt_len, length, computed, stage, phase, pass, outputs, in_flight, err>>
      /\ Aborted(r) \/ Missed(r)
  BY <1>0, AbortEffect
<1>2. /\ \A q \in Requests : q # r => status'[q] = status[q]
      /\ status'[r] = IF status[r] \in {"Waiting", "Running"} THEN "FinishedAborted" ELSE status[r]
  BY <1>0, <1>1, AbortLists
<1>3. AllStepwise => AllStepwise'
  <2> SUFFICES ASSUME AllStepwise, NEW q \in Requests PROVE Stepwise(q)'
    BY DEF AllStepwise
  <2>1. status'[q] = status[q] \/ status'[q] = "FinishedAborted"
    BY <1>2
  <2>2. Stepwise(q) /\ (InBatch(q)' <=> InBatch(q)) /\ (Fresh(q)' <=> Fresh(q)) /\ (Decoded(q)' <=> Decoded(q))
    BY <1>1 DEF AllStepwise, InBatch, Fresh, Decoded
  <2> QED BY <2>1, <2>2 DEF Stepwise
<1>4. (WholeBatch => WholeBatch') /\ (Room => Room')
  BY <1>1 DEF WholeBatch, Completes, Room, Batch
<1> QED BY <1>1, <1>3, <1>4 DEF Flow

(* A queue stays in order when members leave it. *)
LEMMA QueuedKeep ==
    ASSUME NEW q \in Seq(Requests), NEW K, NEW S, Queued(q, S)
    PROVE  Queued(Keep(q, K), S)
<1>1. PICK k : k = Keep(q, K)
  OBVIOUS
<1>2. k \in Seq(Requests) /\ \E at : Picks(k, q, K, Len(q), at)
  BY <1>1, KeepPicks
<1>3. PICK at : Picks(k, q, K, Len(q), at)
  BY <1>2
<1>4. DOMAIN k = 1..Len(k) /\ DOMAIN q = 1..Len(q)
  BY <1>2
<1>5. ASSUME NEW i \in 1..Len(k), NEW j \in 1..Len(k), i < j, k[i] \notin S
      PROVE  k[j] \notin S /\ k[i] < k[j]
  <2>1. /\ at[i] \in 1..Len(q) /\ at[j] \in 1..Len(q) /\ at[i] < at[j]
        /\ k[i] = q[at[i]] /\ k[j] = q[at[j]]
    BY <1>3, <1>5 DEF Picks
  <2> QED BY <1>4, <1>5, <2>1 DEF Queued
<1>6. Queued(k, S)
  BY <1>4, <1>5 DEF Queued
<1> QED BY <1>1, <1>6

LEMMA AbortArrival ==
    ASSUME ~Chunked, Types, Filed, Arrival, Served, NoSwaps, NEW r \in Requests, AbortSequenceGroup(r)
    PROVE  Arrival' /\ Served'
<1>0. phase = "idle" /\ QueuesFiled /\ waiting \in Seq(Requests)
  BY DEF AbortSequenceGroup, Filed, Types, QueueTypes
<1>1. /\ UNCHANGED <<prompt_len, length, phase, pass, outputs, in_flight>>
      /\ Aborted(r) \/ Missed(r)
  BY <1>0, AbortEffect
<1>2. \A q \in Requests : \/ status'[q] = status[q]
                          \/ status'[q] = "FinishedAborted" /\ status[q] \in {"Waiting", "Running"}
  BY <1>0, <1>1, AbortLists
<1>3. Begun' = Begun /\ \A q \in Requests : (Started(q)' <=> Started(q)) /\ (InBatch(q)' <=> InBatch(q))
  BY <1>1 DEF Begun, Started, InBatch
<1>4. AllFair'
  BY <1>2, <1>3 DEF Arrival, AllFair, Fair
<1>5. History'
  BY <1>1, <1>2, <1>3 DEF Arrival, History, HasRun
<1>6. Line'
  <2>1. waiting' = waiting \/ waiting' = Keep(waiting, Requests \ {r})
    BY <1>1 DEF Aborted, Missed
  <2>2. Queued(waiting', Begun)
    BY <1>0, <2>1, QueuedKeep DEF Arrival, Line
  <2> QED BY <1>0, <1>1, <1>3, <2>2 DEF Line
<1>7. Served'
  BY <1>1, <1>2, <1>3 DEF Served, Batch
<1> QED BY <1>4, <1>5, <1>6, <1>7 DEF Arrival

LEMMA AbortTables ==
    ASSUME ~Chunked, DistinctIds, Types, Filed, Tables, NoSwaps, NEW r \in Requests, AbortSequenceGroup(r)
    PROVE  Tables'
<1>0. phase = "idle" /\ QueuesFiled /\ BlockTypes
  BY DEF AbortSequenceGroup, Filed, Types
<1>1. /\ UNCHANGED <<length, phase, outputs, in_flight>>
      /\ Aborted(r) \/ Missed(r)
  BY <1>0, AbortEffect
<1>2. /\ \A q \in Requests : q # r => status'[q] = status[q]
      /\ status'[r] = IF status[r] \in {"Waiting", "Running"} THEN "FinishedAborted" ELSE status[r]
  BY <1>0, <1>1, AbortLists
<1>3. CASE Missed(r)
  <2>1. UNCHANGED <<status, gpu_table, cpu_table, free_gpu, free_cpu>>
    BY <1>3 DEF Missed, blocks
  <2> QED BY <1>0, <1>1, <2>1, TablesSame
<1>4. CASE Aborted(r)
  <2>1. GpuTotal' = GpuTotal /\ CpuTotal' = CpuTotal
    BY <1>0, <1>4, FreeBlocks DEF Aborted
  <2>2. OthersKeep(r)
    <3>1. gpu_table' = [gpu_table EXCEPT ![SequenceId[r]] = 0] /\ cpu_table' = [cpu_table EXCEPT ![SequenceId[r]] = 0]
      BY <1>4 DEF Aborted, FreeSequence
    <3> QED BY <1>0, <3>1, TableStep
  <2>3. status'[r] = "FinishedAborted" /\ status[r] # "Unborn"
    BY <1>2, <1>4 DEF Aborted
  <2>4. Holds(r)'
    BY <1>1, <2>3 DEF Tables, Held, Holds
  <2>5. Held'
    BY <1>1, <1>2, <2>2, <2>4, HeldStep DEF Tables
  <2>6. FlightBacked'
    <3>1. outputs.scheduled \in Seq(Scheduled)
      BY DEF Types, BatchTypes
    <3>2. \A e \in Batch : e.id \in Requests
      BY <3>1, RequestsOfRange DEF Batch
    <3>3. ASSUME in_flight, NEW e \in Batch, status'[e.id] = "Running"
          PROVE  LogicalBlocks(e.id)' <= GpuBlocks(e.id)'
      <4>1. e.id \in Requests /\ e.id # r /\ status[e.id] = "Running"
        BY <1>2, <2>3, <3>2, <3>3
      <4>2. LogicalBlocks(e.id) <= GpuBlocks(e.id)
        BY <3>3, <4>1 DEF Tables, FlightBacked
      <4> QED BY <1>1, <2>2, <4>1, <4>2 DEF OthersKeep, LogicalBlocks, GpuBlocks
    <3> QED BY <1>1, <3>3 DEF FlightBacked, Batch
  <2>7. PassBacked'
    BY <1>0, <1>1 DEF PassBacked
  <2> QED BY <2>1, <2>5, <2>6, <2>7 DEF Tables
<1> QED BY <1>1, <1>3, <1>4

AbortInv == Types /\ Filed /\ Budget /\ Flow /\ Arrival /\ Served /\ NoSwaps

LEMMA SwapsNext ==
    ASSUME OneCandidate, Types, Filed, NoSwaps, Next PROVE NoSwaps'
BY StatusNext DEF OneCandidate, NoSwaps

LEMMA AbortInductive ==
    ASSUME ~Chunked, OneCandidate, AbortInv, NextWithAborts PROVE AbortInv'
<1>1. CASE Next
  <2>1. Types' /\ Filed' /\ Budget' /\ Flow'
    BY <1>1, TypesNext, FiledNext, BudgetNext, FlowNext DEF AbortInv
  <2>2. Arrival' /\ NoSwaps'
    BY <1>1, <2>1, ArrivalNext, SwapsNext DEF AbortInv
  <2> QED BY <1>1, <2>1, <2>2, ServedNext DEF AbortInv
<1>2. ASSUME NEW r \in Requests, AbortSequenceGroup(r) PROVE AbortInv'
  BY <1>2, AbortFiled, AbortBudget, AbortFlow, AbortArrival DEF AbortInv
<1> QED BY <1>1, <1>2 DEF NextWithAborts

LEMMA AbortStutter == ASSUME AbortInv, UNCHANGED vars PROVE AbortInv'
<1>1. Types' /\ Filed' /\ Budget' /\ Flow' /\ Arrival' /\ Served'
  BY TypesNext, FiledNext, BudgetNext, FlowStutter, StutterDropped, ArrivalStutter, ServedStutter DEF AbortInv
<1>2. NoSwaps'
  BY DEF AbortInv, NoSwaps, vars, seqs
<1> QED BY <1>1, <1>2 DEF AbortInv

LEMMA AbortInitially == Init => AbortInv
<1> SUFFICES ASSUME Init PROVE AbortInv
  OBVIOUS
<1>1. NoSwaps
  BY DEF Init, NoSwaps
<1> QED BY <1>1, TypesInit, FiledInit, BudgetInit, FlowInit, ArrivalInit, ServedInit DEF AbortInv

LEMMA AbortInvariance == ~Chunked /\ OneCandidate => (SpecWithAborts => []AbortInv)
<1> SUFFICES ASSUME ~Chunked, OneCandidate PROVE SpecWithAborts => []AbortInv
  OBVIOUS
<1>1. AbortInv /\ [NextWithAborts]_vars => AbortInv'
  BY AbortInductive, AbortStutter
<1> QED BY <1>1, AbortInitially, PTL DEF SpecWithAborts

(* abort_sequence_group may be called for any request at any time between two
   passes, the batch in flight included: as long as nothing is ever swapped, no
   request is lost, duplicated or left in the wrong queue by it. *)
THEOREM AbortsLoseNothing == ~Chunked /\ OneCandidate => (SpecWithAborts => []QueuesMatchStatus)
<1> SUFFICES ASSUME ~Chunked, OneCandidate PROVE SpecWithAborts => []QueuesMatchStatus
  OBVIOUS
<1>1. AbortInv => QueuesMatchStatus
  BY QueuesMatch DEF AbortInv
<1> QED BY <1>1, AbortInvariance, PTL

(* ... and aborts change no one's turn: preempted requests still wait in front of
   new ones, and those run in order of arrival. *)
THEOREM AbortsKeepOrder ==
    ~Chunked /\ OneCandidate => (SpecWithAborts => [](PreemptedBeforeNew /\ AdmittedInArrivalOrder))
<1> SUFFICES ASSUME ~Chunked, OneCandidate
             PROVE  SpecWithAborts => [](PreemptedBeforeNew /\ AdmittedInArrivalOrder)
  OBVIOUS
<1>1. AbortInv => PreemptedBeforeNew /\ AdmittedInArrivalOrder
  BY InTurn DEF AbortInv
<1> QED BY <1>1, AbortInvariance, PTL

(* ... and what an aborted request held is free again, once: blocks add up,
   nothing that runs loses its slots, and no later pass fails. *)
THEOREM AbortsKeepBlocks ==
    ~Chunked /\ OneCandidate /\ DistinctIds
        => (SpecWithAborts => [](BlocksConserved /\ PreemptedHoldNothing /\ BatchBacked /\ NoSchedulerError))
<1> SUFFICES ASSUME ~Chunked, OneCandidate, DistinctIds
             PROVE  SpecWithAborts => [](BlocksConserved /\ PreemptedHoldNothing /\ BatchBacked /\ NoSchedulerError)
  OBVIOUS
<1> DEFINE I == Tables /\ OnlySwapFails
<1>1. Init => I
  BY TablesInit, FlowInit
<1>2. AbortInv /\ I /\ [NextWithAborts]_vars => I'
  <2>1. ASSUME AbortInv, I, Next PROVE I'
    <3>1. Tables'
      BY <2>1, TablesNext DEF AbortInv
    <3>2. err' = "none" \/ PassFails
      BY <2>1, FlowNext DEF AbortInv
    <3> QED BY <2>1, <3>1, <3>2, FailNext DEF AbortInv
  <2>2. ASSUME AbortInv, I, NEW r \in Requests, AbortSequenceGroup(r) PROVE I'
    <3>1. Tables'
      BY <2>2, AbortTables DEF AbortInv
    <3>2. err' = err
      BY <2>2 DEF AbortSequenceGroup
    <3> QED BY <2>2, <3>1, <3>2 DEF OnlySwapFails
  <2>3. ASSUME AbortInv, I, UNCHANGED vars PROVE I'
    <3>1. err' = err
      BY <2>3 DEF vars
    <3> QED BY <2>3, <3>1, TablesNext, StutterDropped DEF AbortInv, OnlySwapFails
  <2> QED BY <2>1, <2>2, <2>3 DEF NextWithAborts
<1>3. AbortInv /\ I => BlocksConserved /\ PreemptedHoldNothing /\ BatchBacked /\ NoSchedulerError
  BY BlocksSum, NothingHeld, Backed DEF AbortInv, OnlySwapFails, NoSchedulerError, OneCandidate
<1> HIDE DEF I
<1> QED BY <1>1, <1>2, <1>3, AbortInvariance, PTL DEF SpecWithAborts
=============================================================================
