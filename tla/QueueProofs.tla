---------------------------- MODULE QueueProofs ----------------------------
(***************************************************************************)
(* Types and exclusive ownership of tasks in the queue, for any tasks,     *)
(* workers and priorities and any timing constants.                        *)
(***************************************************************************)
EXTENDS DistributedTaskQueue, TLAPS
-----------------------------------------------------------------------------
(* Type correctness. *)

\* Times stay natural numbers, whatever is added to the clock.
LEMMA LaterNat ==
    ASSUME now \in Nat, NEW d \in Nat
    PROVE  Later(d) \in Nat
BY QueueAssumptions DEF Later

\* The backoff of nack is a number of seconds.
LEMMA BackoffNat ==
    ASSUME NEW n
    PROVE  Backoff(n) \in Nat
BY QueueAssumptions DEF Backoff

\* An enumeration of S is a sequence over S.
LEMMA OrdersAreSeqs ==
    ASSUME NEW S, NEW f \in Orders(S)
    PROVE  f \in Seq(S)
<1>1. Cardinality(Tasks) \in Nat
  BY QueueAssumptions
<1>2. PICK n \in 0..Cardinality(Tasks) : f \in [1..n -> S]
  BY DEF Orders
<1>3. n \in Nat
  BY <1>1
<1> QED
  BY <1>2, <1>3

\* What _get_task returns is a task object.
LEMMA GetType ==
    ASSUME RedisType, NEW t \in Tasks
    PROVE  Get(t) \in TaskObject
BY DEF RedisType, Get, NoTask, TaskObject

\* _save_task stores what it is given.
LEMMA SaveType ==
    ASSUME RedisType, NEW t \in Tasks, NEW obj \in TaskObject, Save(t, obj)
    PROVE  task' \in [Tasks -> [val: TaskObject, dies: Nat]]
BY LaterNat, QueueAssumptions DEF RedisType, Save

\* _requeue keeps the lists lists of task ids.
LEMMA LPushType ==
    ASSUME RedisType, NEW t \in Tasks, LPush(t)
    PROVE  queue' \in [Priorities -> Seq(Tasks)]
<1>1. PriorityOf[t] \in Priorities
  BY QueueAssumptions DEF Priorities
<1>2. Append(queue[PriorityOf[t]], t) \in Seq(Tasks)
  BY <1>1 DEF RedisType
<1> QED
  BY <1>1, <1>2 DEF LPush, RedisType

\* The steps of enqueue keep the types.
LEMMA EnqueueTypes ==
    ASSUME TypeOK, NEW t \in Tasks, Enqueue(t) \/ EnqueueDies(t)
    PROVE  TypeOK'
<1>1. WorkerType' /\ SweepType'
  BY DEF TypeOK, WorkerType, SweepType, workerVars, sweepVars, Enqueue, EnqueueDies,
         EnqueueSave, EnqueuePush, EnqueueZadd, EnqueueFlag
<1>2. CASE EnqueueSave(t)
  <2>1. PICK d \in Delays :
          /\ delay' = [delay EXCEPT ![t] = d]
          /\ due' = [due EXCEPT ![t] = Later(d)]
          /\ epc' = [epc EXCEPT ![t] = IF d > 0 THEN "zadd" ELSE "push"]
    BY <1>2, Zenon DEF EnqueueSave
  <2>2. Later(d) \in Nat /\ d \in Nat
    BY LaterNat, QueueAssumptions DEF TypeOK, RedisType
  <2>3. EnqueueType'
    BY <2>1, <2>2 DEF TypeOK, EnqueueType
  <2>4. task' \in [Tasks -> [val: TaskObject, dies: Nat]]
    BY <1>2, SaveType DEF EnqueueSave, TypeOK, TaskObject
  <2> QED
    BY <1>1, <1>2, <2>3, <2>4 DEF EnqueueSave, TypeOK, RedisType
<1>3. CASE EnqueuePush(t)
  BY <1>1, <1>3, LPushType, Zenon DEF EnqueuePush, TypeOK, RedisType, EnqueueType
<1>4. CASE EnqueueZadd(t)
  BY <1>1, <1>4, Zenon DEF EnqueueZadd, TypeOK, RedisType, EnqueueType
<1>5. CASE EnqueueFlag(t)
  <2>1. delay[t] + FlagGrace \in Nat
    BY QueueAssumptions DEF TypeOK, EnqueueType
  <2>2. Later(delay[t] + FlagGrace) \in Nat
    BY <2>1, LaterNat, Zenon DEF TypeOK, RedisType
  <2> QED
    BY <1>1, <1>5, <2>2, Zenon DEF EnqueueFlag, TypeOK, RedisType, EnqueueType
<1>6. CASE EnqueueDies(t)
  BY <1>1, <1>6, Zenon DEF EnqueueDies, TypeOK, RedisType, EnqueueType, redisVars
<1> QED
  BY <1>2, <1>3, <1>4, <1>5, <1>6 DEF Enqueue

\* process_delayed keeps the types.
LEMMA ProcessDelayedTypes ==
    ASSUME TypeOK, ProcessDelayed
    PROVE  TypeOK'
<1>1. Later(TaskTTL) \in Nat
  BY LaterNat, QueueAssumptions DEF TypeOK, RedisType
<1>2. task' \in [Tasks -> [val: TaskObject, dies: Nat]]
  BY <1>1, ZenonT(40) DEF ProcessDelayed, TypeOK, RedisType, TaskObject
<1>3. PICK order \in [Priorities -> UNION {Orders(S) : S \in SUBSET MovedIds}] :
          /\ \A p \in Priorities : order[p] \in Orders({t \in MovedIds : PriorityOf[t] = p})
          /\ queue' = [p \in Priorities |-> queue[p] \o order[p]]
  BY Zenon DEF ProcessDelayed
<1>4. ASSUME NEW p \in Priorities
      PROVE  queue[p] \o order[p] \in Seq(Tasks)
  <2>1. order[p] \in Seq({t \in MovedIds : PriorityOf[t] = p})
    BY <1>3, OrdersAreSeqs
  <2>2. {t \in MovedIds : PriorityOf[t] = p} \subseteq Tasks
    BY DEF MovedIds, FlaggedIds, DueIds
  <2>3. order[p] \in Seq(Tasks)
    BY <2>1, <2>2
  <2>4. queue[p] \in Seq(Tasks)
    BY DEF TypeOK, RedisType
  <2> QED
    BY <2>3, <2>4
<1>5. RedisType'
  BY <1>2, <1>3, <1>4, Zenon DEF ProcessDelayed, TypeOK, RedisType
<1> QED
  BY <1>5 DEF ProcessDelayed, TypeOK, EnqueueType, WorkerType, SweepType,
              enqVars, workerVars, sweepVars

\* A poll loop that starts over holds nothing.
LEMMA PollAtType ==
    ASSUME WorkerType, NEW w \in Workers, NEW p \in Polled, PollAt(w, p)
    PROVE  WorkerType'
BY DEF WorkerType, PollAt, Goto, NoTask, TaskObject

\* Priorities are polled from MaxPriority down to 0 and round again.
LEMMA NextPriorityType ==
    ASSUME WorkerType, NEW w \in Workers, NextPriority(w) \/ Finish(w)
    PROVE  WorkerType'
<1>1. MaxPriority \in Polled /\ prio[w] \in Polled
  BY QueueAssumptions DEF WorkerType, Polled
<1>2. (IF prio[w] > 0 THEN prio[w] - 1 ELSE MaxPriority) \in Polled
  BY <1>1, QueueAssumptions DEF Polled
<1> QED
  BY <1>1, <1>2, PollAtType DEF NextPriority, Finish

\* The steps of a poll loop keep the types.
LEMMA WorkerTypes ==
    ASSUME TypeOK, NEW w \in Workers, Worker(w) \/ TryFails(w) \/ WorkerDies(w)
    PROVE  TypeOK'
<1>1. EnqueueType' /\ SweepType'
  BY ZenonT(30) DEF TypeOK, EnqueueType, SweepType, enqVars, sweepVars, Worker, TryFails, WorkerDies,
         PopTimeout, Pop, DequeueGet, DequeueRequeue, DequeueSave, DequeueLease, Execute,
         AckGet, AckSave, AckDelete, PublishCompleted, NackGet, NackSave, NackZadd, NackDelete
<1>2. pc[w] # "pop" => cur[w] \in Tasks /\ Get(cur[w]) \in TaskObject
  BY GetType DEF TypeOK, WorkerType
<1>3. snap[w] \in TaskObject /\ until[w] \in Nat
  BY DEF TypeOK, WorkerType
<1>4. CASE PopTimeout(w) \/ PublishCompleted(w) \/ WorkerDies(w)
  BY <1>1, <1>4, NextPriorityType
     DEF PopTimeout, PublishCompleted, WorkerDies, TypeOK, RedisType, redisVars
<1>5. CASE Pop(w)
  <2>1. queue[prio[w]] \in Seq(Tasks) /\ queue[prio[w]] # <<>>
    BY <1>5 DEF Pop, TypeOK, RedisType, WorkerType, Priorities
  <2>2. Head(queue[prio[w]]) \in Tasks /\ Tail(queue[prio[w]]) \in Seq(Tasks)
    BY <2>1
  <2>3. RedisType'
    BY <1>5, <2>2, Zenon DEF Pop, TypeOK, RedisType
  <2>4. WorkerType'
    BY <1>5, <2>2 DEF Pop, Goto, TypeOK, WorkerType
  <2> QED
    BY <1>1, <2>3, <2>4 DEF TypeOK
<1>6. CASE DequeueGet(w)
  <2>1. RedisType'
    BY <1>6 DEF DequeueGet, TypeOK, RedisType, redisVars
  <2>2. CASE NextPriority(w)
    BY <1>1, <2>1, <2>2, NextPriorityType DEF TypeOK
  <2>3. CASE ~NextPriority(w)
    <3>1. [Get(cur[w]) EXCEPT !.st = "running"] \in TaskObject
      BY <1>2, <1>6 DEF DequeueGet, TaskObject
    <3>2. Later(Visibility) \in Nat
      BY LaterNat, QueueAssumptions, Zenon DEF TypeOK, RedisType
    <3>3. WorkerType'
      BY <1>6, <2>3, <3>1, <3>2 DEF DequeueGet, Goto, TypeOK, WorkerType
    <3> QED
      BY <1>1, <2>1, <3>3 DEF TypeOK
  <2> QED
    BY <2>2, <2>3
<1>7. CASE DequeueRequeue(w)
  BY <1>1, <1>2, <1>7, LPushType, NextPriorityType, Zenon DEF DequeueRequeue, TypeOK, RedisType
<1>8. CASE DequeueSave(w) \/ AckSave(w)
  <2>1. task' \in [Tasks -> [val: TaskObject, dies: Nat]]
    BY <1>2, <1>3, <1>8, SaveType DEF DequeueSave, AckSave, TypeOK
  <2>2. RedisType'
    BY <1>8, <2>1 DEF DequeueSave, AckSave, TypeOK, RedisType
  <2>3. WorkerType'
    BY <1>8 DEF DequeueSave, AckSave, Goto, TypeOK, WorkerType
  <2> QED
    BY <1>1, <2>2, <2>3 DEF TypeOK
<1>9. CASE DequeueLease(w)
  <2>1. Visibility + LeaseGrace \in Nat
    BY QueueAssumptions
  <2>2. Later(Visibility + LeaseGrace) \in Nat
    BY <2>1, LaterNat DEF TypeOK, RedisType
  <2>3. RedisType'
    BY <1>2, <1>3, <1>9, <2>2, Zenon DEF DequeueLease, TypeOK, RedisType
  <2>4. WorkerType'
    BY <1>9 DEF DequeueLease, Goto, TypeOK, WorkerType
  <2> QED
    BY <1>1, <2>3, <2>4 DEF TypeOK
<1>10. CASE Execute(w) \/ TryFails(w)
  <2>1. RedisType'
    BY <1>10 DEF Execute, TryFails, TypeOK, RedisType, redisVars
  <2>2. WorkerType'
    BY <1>10 DEF Execute, TryFails, Goto, TypeOK, WorkerType
  <2> QED
    BY <1>1, <2>1, <2>2 DEF TypeOK
<1>11. CASE AckGet(w)
  <2>1. RedisType'
    BY <1>11 DEF AckGet, TypeOK, RedisType, redisVars
  <2>2. [Get(cur[w]) EXCEPT !.st = "completed"] \in TaskObject
    BY <1>2, <1>11 DEF AckGet, TaskObject
  <2>3. WorkerType'
    BY <1>11, <2>2 DEF AckGet, Goto, TypeOK, WorkerType
  <2> QED
    BY <1>1, <2>1, <2>3 DEF TypeOK
<1>12. CASE AckDelete(w)
  <2>1. RedisType'
    BY <1>2, <1>12, Zenon DEF AckDelete, NoLease, TypeOK, RedisType
  <2>2. WorkerType'
    BY <1>12 DEF AckDelete, Goto, TypeOK, WorkerType
  <2> QED
    BY <1>1, <2>1, <2>2 DEF TypeOK
<1>13. CASE NackGet(w)
  <2>1. RedisType'
    BY <1>13 DEF NackGet, TypeOK, RedisType, redisVars
  <2>2. CASE Finish(w)
    BY <1>1, <2>1, <2>2, NextPriorityType DEF TypeOK
  <2>3. CASE ~Finish(w)
    <3> DEFINE n == Get(cur[w]).retries + 1
               obj == [st |-> IF n < MaxRetries THEN "retrying" ELSE "failed", retries |-> n]
    <3>1. n \in Nat
      BY <1>2, <1>13 DEF NackGet, TaskObject
    <3>2. obj \in TaskObject
      BY <3>1 DEF TaskObject
    <3>3. /\ snap' = [snap EXCEPT ![w] = obj]
          /\ Goto(w, "nack_save")
          /\ UNCHANGED <<prio, cur, until>>
          /\ pc[w] = "nack_get"
      BY <1>13, <2>3 DEF NackGet
    <3> HIDE DEF obj
    <3>4. WorkerType'
      BY <3>2, <3>3 DEF Goto, TypeOK, WorkerType
    <3> QED
      BY <1>1, <2>1, <3>4 DEF TypeOK
  <2> QED
    BY <2>2, <2>3
<1>14. CASE NackSave(w)
  <2>1. task' \in [Tasks -> [val: TaskObject, dies: Nat]]
    BY <1>2, <1>3, <1>14, SaveType, Zenon DEF NackSave, TypeOK
  <2>2. RedisType'
    BY <1>14, <2>1, Zenon DEF NackSave, TypeOK, RedisType
  <2>3. Later(Backoff(snap[w].retries)) \in Nat
    BY BackoffNat, LaterNat DEF TypeOK, RedisType
  <2>4. WorkerType'
    BY <1>14, <2>3 DEF NackSave, Goto, TypeOK, WorkerType
  <2> QED
    BY <1>1, <2>2, <2>4 DEF TypeOK
<1>15. CASE NackZadd(w)
  <2>1. RedisType'
    BY <1>2, <1>3, <1>15, Zenon DEF NackZadd, TypeOK, RedisType
  <2>2. WorkerType'
    BY <1>15 DEF NackZadd, Goto, TypeOK, WorkerType
  <2> QED
    BY <1>1, <2>1, <2>2 DEF TypeOK
<1>16. CASE NackDelete(w)
  BY <1>1, <1>2, <1>16, NextPriorityType, Zenon DEF NackDelete, NoLease, TypeOK, RedisType
<1> QED
  BY <1>4, <1>5, <1>6, <1>7, <1>8, <1>9, <1>10, <1>11, <1>12, <1>13, <1>14, <1>15, <1>16
     DEF Worker

\* The steps of requeue_expired keep the types.
LEMMA SweepTypes ==
    ASSUME TypeOK, NEW s \in Sweepers, Sweep(s)
    PROVE  TypeOK'
<1>1. EnqueueType' /\ WorkerType'
  BY Zenon DEF TypeOK, EnqueueType, WorkerType, enqVars, workerVars, Sweep, SweepStart, SweepScan,
         SweepLease, SweepGet, SweepSave, SweepPush, SweepDelete, SweepEnd
<1>2. CASE SweepStart(s) \/ SweepScan(s) \/ SweepLease(s) \/ SweepEnd(s)
  <2>1. RedisType'
    BY <1>2, Zenon DEF SweepStart, SweepScan, SweepLease, SweepEnd, TypeOK, RedisType, redisVars
  <2>2. CASE SweepStart(s)
    BY <1>1, <2>1, <2>2, Zenon DEF SweepStart, TypeOK, RedisType, SweepType
  <2>3. CASE SweepScan(s)
    BY <1>1, <2>1, <2>3 DEF SweepScan, TypeOK, SweepType
  <2>4. CASE SweepLease(s)
    BY <1>1, <2>1, <2>4 DEF SweepLease, TypeOK, SweepType
  <2>5. CASE SweepEnd(s)
    BY <1>1, <2>1, <2>5, Zenon DEF SweepEnd, TypeOK, SweepType, NoTask, TaskObject
  <2> QED
    BY <1>2, <2>2, <2>3, <2>4, <2>5
<1>3. CASE SweepGet(s)
  <2>1. RedisType'
    BY <1>3 DEF SweepGet, TypeOK, RedisType, redisVars
  <2>2. sweepCur[s] \in Tasks
    BY <1>3 DEF SweepGet, TypeOK, SweepType
  <2>3. [Get(sweepCur[s]) EXCEPT !.st = "queued"] \in TaskObject
    BY <2>2, GetType DEF TypeOK, TaskObject
  <2>4. CASE SweepNext(s)
    BY <1>1, <1>3, <2>1, <2>4 DEF SweepGet, SweepNext, TypeOK, SweepType, NoTask, TaskObject
  <2>5. CASE ~SweepNext(s)
    BY <1>1, <1>3, <2>1, <2>2, <2>3, <2>5 DEF SweepGet, TypeOK, SweepType
  <2> QED
    BY <2>4, <2>5
<1>4. CASE SweepSave(s)
  <2>1. task' \in [Tasks -> [val: TaskObject, dies: Nat]]
    BY <1>4, SaveType DEF SweepSave, TypeOK, SweepType
  <2>2. RedisType' /\ SweepType'
    BY <1>4, <2>1, Zenon DEF SweepSave, TypeOK, RedisType, SweepType
  <2> QED
    BY <1>1, <2>2 DEF TypeOK
<1>5. CASE SweepPush(s)
  <2>1. queue' \in [Priorities -> Seq(Tasks)]
    BY <1>5, LPushType DEF SweepPush, TypeOK, SweepType
  <2>2. RedisType' /\ SweepType'
    BY <1>5, <2>1, Zenon DEF SweepPush, TypeOK, RedisType, SweepType
  <2> QED
    BY <1>1, <2>2 DEF TypeOK
<1>6. CASE SweepDelete(s)
  <2>1. RedisType'
    BY <1>6, Zenon DEF SweepDelete, NoLease, TypeOK, RedisType, SweepType
  <2>2. SweepType'
    BY <1>6 DEF SweepDelete, SweepNext, TypeOK, SweepType, NoTask, TaskObject
  <2> QED
    BY <1>1, <2>1, <2>2 DEF TypeOK
<1> QED
  BY <1>2, <1>3, <1>4, <1>5, <1>6 DEF Sweep

\* Type correctness of the whole queue: every step of every enqueue call, poll
\* loop, process_delayed and requeue_expired keeps TypeOK.
THEOREM TypeCorrect == Spec => []TypeOK
<1>1. Init => TypeOK
  BY QueueAssumptions DEF Init, TypeOK, RedisType, EnqueueType, WorkerType, SweepType,
     NoKey, NoTask, NoLease, TaskObject, Polled
<1>2. TypeOK /\ [Next]_vars => TypeOK'
  <2> SUFFICES ASSUME TypeOK, [Next]_vars
               PROVE  TypeOK'
    OBVIOUS
  <2>1. CASE Tick
    BY <2>1 DEF Tick, TypeOK, RedisType, EnqueueType, WorkerType, SweepType,
                redisVars, enqVars, workerVars, sweepVars
  <2>2. CASE UNCHANGED vars
    BY <2>2, Zenon DEF vars, TypeOK, RedisType, EnqueueType, WorkerType, SweepType,
                redisVars, enqVars, workerVars, sweepVars
  <2> QED
    BY <2>1, <2>2, ProcessDelayedTypes, EnqueueTypes, WorkerTypes, SweepTypes DEF Next
<1> QED
  BY <1>1, <1>2, PTL DEF Spec

-----------------------------------------------------------------------------
(* What the list operations do to the ids in a list. *)

NoRepeats(seq) == \A i, j \in DOMAIN seq : seq[i] = seq[j] => i = j

\* LPUSH adds one id to a list and takes none away.
LEMMA HasAppend ==
    ASSUME NEW seq \in Seq(Tasks), NEW t \in Tasks
    PROVE  /\ \A x : Has(Append(seq, t), x) <=> Has(seq, x) \/ x = t
           /\ NoRepeats(seq) /\ ~Has(seq, t) => NoRepeats(Append(seq, t))
<1>1. /\ DOMAIN Append(seq, t) = 1..(Len(seq) + 1)
      /\ \A i \in 1..Len(seq) : Append(seq, t)[i] = seq[i]
      /\ Append(seq, t)[Len(seq) + 1] = t
      /\ DOMAIN seq = 1..Len(seq) /\ Len(seq) \in Nat
  OBVIOUS
<1>2. \A i \in 1..(Len(seq) + 1) : i \in 1..Len(seq) \/ i = Len(seq) + 1
  BY <1>1
<1>3. 1..Len(seq) \subseteq 1..(Len(seq) + 1) /\ Len(seq) + 1 \in 1..(Len(seq) + 1)
  BY <1>1
<1> QED
  BY <1>1, <1>2, <1>3, Zenon DEF Has, NoRepeats

\* BRPOP takes away the head of a list; it is nowhere else when no id repeats.
LEMMA HasTail ==
    ASSUME NEW seq \in Seq(Tasks), seq # <<>>
    PROVE  /\ Has(seq, Head(seq))
           /\ \A x : Has(Tail(seq), x) => Has(seq, x)
           /\ NoRepeats(seq) => NoRepeats(Tail(seq)) /\ ~Has(Tail(seq), Head(seq))
<1>1. /\ DOMAIN Tail(seq) = 1..(Len(seq) - 1)
      /\ \A i \in 1..(Len(seq) - 1) : Tail(seq)[i] = seq[i + 1]
      /\ Head(seq) = seq[1]
      /\ DOMAIN seq = 1..Len(seq) /\ Len(seq) \in Nat \ {0}
  OBVIOUS
<1>2. 1 \in DOMAIN seq
  BY <1>1
<1>3. \A i \in DOMAIN Tail(seq) : i + 1 \in DOMAIN seq /\ i + 1 # 1
  BY <1>1
<1>4. \A i, j \in DOMAIN Tail(seq) : i + 1 = j + 1 => i = j
  BY <1>1
<1>5. \A i \in DOMAIN Tail(seq) : Tail(seq)[i] = seq[i + 1]
  BY <1>1
<1>6. Head(seq) = seq[1]
  BY <1>1
<1>7. Has(seq, Head(seq)) /\ \A x : Has(Tail(seq), x) => Has(seq, x)
  BY <1>2, <1>3, <1>5, <1>6, Zenon DEF Has
<1>8. ASSUME NoRepeats(seq)
      PROVE  NoRepeats(Tail(seq)) /\ ~Has(Tail(seq), Head(seq))
  <2>1. NoRepeats(Tail(seq))
    BY <1>3, <1>4, <1>5, <1>8, Zenon DEF NoRepeats
  <2>2. ~Has(Tail(seq), Head(seq))
    BY <1>2, <1>3, <1>5, <1>6, <1>8, Zenon DEF Has, NoRepeats
  <2> QED
    BY <2>1, <2>2
<1> QED
  BY <1>7, <1>8

\* The ids of two lists put together, and when none of them repeats.
LEMMA HasConcat ==
    ASSUME NEW seq \in Seq(Tasks), NEW more \in Seq(Tasks)
    PROVE  /\ \A x : Has(seq \o more, x) <=> Has(seq, x) \/ Has(more, x)
           /\ NoRepeats(seq) /\ NoRepeats(more) /\ (\A x : ~(Has(seq, x) /\ Has(more, x)))
                => NoRepeats(seq \o more)
<1> DEFINE m == Len(seq)
           n == Len(more)
<1>1. /\ DOMAIN (seq \o more) = 1..(m + n)
      /\ \A i \in 1..m : (seq \o more)[i] = seq[i]
      /\ \A i \in 1..(m + n) : i > m => (seq \o more)[i] = more[i - m]
      /\ DOMAIN seq = 1..m /\ m \in Nat
      /\ DOMAIN more = 1..n /\ n \in Nat
  OBVIOUS
<1> HIDE DEF m, n
<1>2. \A i \in DOMAIN (seq \o more) :
         \/ i \in DOMAIN seq /\ (seq \o more)[i] = seq[i]
         \/ i - m \in DOMAIN more /\ (seq \o more)[i] = more[i - m]
  BY <1>1
<1>3. \A i \in DOMAIN seq : i \in DOMAIN (seq \o more) /\ (seq \o more)[i] = seq[i]
  BY <1>1
<1>4. \A i \in DOMAIN more : i + m \in DOMAIN (seq \o more) /\ (seq \o more)[i + m] = more[i]
  BY <1>1
<1>5. \A i, j \in DOMAIN (seq \o more) : i - m = j - m => i = j
  BY <1>1
<1>6. \A x : Has(seq \o more, x) <=> Has(seq, x) \/ Has(more, x)
  BY <1>2, <1>3, <1>4, Zenon DEF Has
<1>7. ASSUME NoRepeats(seq), NoRepeats(more), \A x : ~(Has(seq, x) /\ Has(more, x))
      PROVE  NoRepeats(seq \o more)
  BY <1>2, <1>5, <1>7, Zenon DEF Has, NoRepeats
<1> QED
  BY <1>6, <1>7

\* An enumeration of S has the members of S, each once.
LEMMA HasOrders ==
    ASSUME NEW S, NEW f \in Orders(S)
    PROVE  /\ \A x : Has(f, x) <=> x \in S
           /\ NoRepeats(f)
<1>1. f \in Seq(S)
  BY OrdersAreSeqs
<1>2. \A i \in DOMAIN f : f[i] \in S
  BY <1>1
<1> QED
  BY <1>2 DEF Orders, Has, NoRepeats
-----------------------------------------------------------------------------
(* What the steps do to the lists. *)

\* Pushing an id that is in no list puts it in the list of its priority alone.
LEMMA LPushPlaces ==
    ASSUME RedisType, ListedOnce, NEW id \in Tasks, ~InQueue(id), LPush(id)
    PROVE  /\ \A t \in Tasks : InQueue(t)' <=> InQueue(t) \/ t = id
           /\ ListedOnce'
<1> DEFINE q == PriorityOf[id]
<1>1. q \in Priorities /\ queue[q] \in Seq(Tasks) /\ DOMAIN queue = Priorities
  BY QueueAssumptions DEF Priorities, RedisType
<1>2. queue'[q] = Append(queue[q], id) /\ \A p \in Priorities : p # q => queue'[p] = queue[p]
  BY <1>1 DEF LPush
<1>3. /\ \A x : Has(queue'[q], x) <=> Has(queue[q], x) \/ x = id
      /\ NoRepeats(queue[q]) /\ ~Has(queue[q], id) => NoRepeats(queue'[q])
  BY <1>1, <1>2, HasAppend
<1>4. ~Has(queue[q], id)
  BY <1>1 DEF InQueue
<1>5. \A t \in Tasks : InQueue(t)' <=> InQueue(t) \/ t = id
  BY <1>1, <1>2, <1>3, Zenon DEF InQueue
<1>6. \A p \in Priorities : NoRepeats(queue[p])
  BY DEF ListedOnce, NoRepeats
<1>7. \A p \in Priorities : NoRepeats(queue'[p])
  BY <1>2, <1>3, <1>4, <1>6, Zenon
<1>8. \A p \in Priorities : \A t \in Tasks : Has(queue'[p], t) => PriorityOf[t] = p
  BY <1>2, <1>3, Zenon DEF ListedOnce
<1> QED
  BY <1>5, <1>7, <1>8, Zenon DEF ListedOnce, NoRepeats

\* Popping leaves the popped id in no list and the others where they are.
LEMMA PopPlaces ==
    ASSUME TypeOK, ListedOnce, NEW w \in Workers, Pop(w)
    PROVE  /\ \E id \in Tasks : cur'[w] = id /\ InQueue(id) /\ ~InQueue(id)'
           /\ \A t \in Tasks : InQueue(t)' => InQueue(t)
           /\ ListedOnce'
<1>0. PICK q \in Priorities : q = prio[w]
  BY DEF TypeOK, WorkerType, Priorities
<1>1. queue[q] \in Seq(Tasks) /\ queue[q] # <<>> /\ DOMAIN queue = Priorities
  BY <1>0, Zenon DEF Pop, TypeOK, RedisType
<1>2. PICK id \in Tasks : id = Head(queue[q])
  BY <1>1
<1>3. cur'[w] = id
  BY <1>0, <1>2, Zenon DEF Pop, TypeOK, WorkerType
<1>4. queue'[q] = Tail(queue[q]) /\ \A p \in Priorities : p # q => queue'[p] = queue[p]
  BY <1>0, <1>1, Zenon DEF Pop
<1>5. \A p \in Priorities : NoRepeats(queue[p])
  BY Zenon DEF ListedOnce, NoRepeats
<1>6. /\ Has(queue[q], id)
      /\ \A x : Has(queue'[q], x) => Has(queue[q], x)
      /\ NoRepeats(queue'[q]) /\ ~Has(queue'[q], id)
  BY <1>1, <1>2, <1>4, <1>5, HasTail
<1>7. \A p \in Priorities : \A t \in Tasks : Has(queue'[p], t) => Has(queue[p], t)
  BY <1>4, <1>6, Zenon
<1>8. \A t \in Tasks : InQueue(t)' => InQueue(t)
  BY <1>7, Zenon DEF InQueue
<1>9. InQueue(id)
  BY <1>6, Zenon DEF InQueue
<1>10. ~InQueue(id)'
  <2>1. SUFFICES ASSUME NEW p \in Priorities, Has(queue'[p], id)
                 PROVE  FALSE
    BY DEF InQueue
  <2>2. PriorityOf[id] = p /\ PriorityOf[id] = q
    BY <1>6, <1>7, <2>1, Zenon DEF ListedOnce
  <2> QED
    BY <1>6, <2>1, <2>2
<1>11. \A p \in Priorities : NoRepeats(queue'[p])
  BY <1>4, <1>5, <1>6, Zenon
<1>12. \A p \in Priorities : \A t \in Tasks : Has(queue'[p], t) => PriorityOf[t] = p
  BY <1>7, Zenon DEF ListedOnce
<1>13. ListedOnce'
  BY <1>11, <1>12, Zenon DEF ListedOnce, NoRepeats
<1> QED
  BY <1>3, <1>8, <1>9, <1>10, <1>13

\* The script puts the ids it moves in the lists of their priorities.
LEMMA ProcessDelayedPlaces ==
    ASSUME TypeOK, ListedOnce, \A t \in MovedIds : ~InQueue(t), ProcessDelayed
    PROVE  /\ \A t \in Tasks : InQueue(t)' <=> InQueue(t) \/ t \in MovedIds
           /\ ListedOnce'
<1> DEFINE M(p) == {t \in MovedIds : PriorityOf[t] = p}
<1>1. PICK order \in [Priorities -> UNION {Orders(S) : S \in SUBSET MovedIds}] :
          /\ \A p \in Priorities : order[p] \in Orders(M(p))
          /\ queue' = [p \in Priorities |-> queue[p] \o order[p]]
  BY Zenon DEF ProcessDelayed
<1>2. MovedIds \subseteq Tasks /\ \A t \in MovedIds : delayed[t] # 0
  BY DEF MovedIds, FlaggedIds, DueIds
<1>3. \A p \in Priorities : NoRepeats(queue[p])
  BY Zenon DEF ListedOnce, NoRepeats
<1>4. ASSUME NEW p \in Priorities
      PROVE  /\ \A x : Has(queue'[p], x) <=> Has(queue[p], x) \/ x \in M(p)
             /\ NoRepeats(queue'[p])
  <2>1. queue[p] \in Seq(Tasks) /\ queue'[p] = queue[p] \o order[p]
    BY <1>1 DEF TypeOK, RedisType
  <2>2. order[p] \in Seq(M(p))
    BY <1>1, OrdersAreSeqs
  <2>3. order[p] \in Seq(Tasks)
    BY <1>2, <2>2
  <2>4. (\A x : Has(order[p], x) <=> x \in M(p)) /\ NoRepeats(order[p])
    BY <1>1, HasOrders, Zenon
  <2>5. \A x : ~(Has(queue[p], x) /\ x \in M(p))
    BY DEF InQueue
  <2> QED
    BY <1>3, <2>1, <2>3, <2>4, <2>5, HasConcat
<1>5. \A t \in MovedIds : PriorityOf[t] \in Priorities
  BY <1>2, QueueAssumptions DEF Priorities
<1>6. \A t \in Tasks : InQueue(t)' <=> InQueue(t) \/ t \in MovedIds
  BY <1>4, <1>5, Zenon DEF InQueue
<1>7. ListedOnce'
  BY <1>4, Zenon DEF ListedOnce, NoRepeats
<1> QED
  BY <1>6, <1>7

\* Unchanged lists hold the same ids.
LEMMA SameLists ==
    ASSUME ListedOnce, UNCHANGED queue
    PROVE  /\ \A t \in Tasks : InQueue(t)' <=> InQueue(t)
           /\ ListedOnce'
BY Zenon DEF InQueue, ListedOnce
-----------------------------------------------------------------------------
(* OneCopy and QueuedOnTheWay are kept by every step but requeue_expired. *)

CopyInv == TypeOK /\ OneCopy /\ QueuedOnTheWay

\* The domains that the type invariant gives, as separate facts.
LEMMA Domains ==
    ASSUME TypeOK
    PROVE  /\ DOMAIN task = Tasks /\ DOMAIN delayed = Tasks /\ DOMAIN epc = Tasks
           /\ DOMAIN pc = Workers /\ DOMAIN cur = Workers
           /\ \A w \in Workers : pc[w] # "pop" => cur[w] \in Tasks
BY DEF TypeOK, RedisType, EnqueueType, WorkerType

\* enqueue passes its id on once.
LEMMA EnqueueKeeps ==
    ASSUME TypeOK, OneCopy, QueuedOnTheWay, NEW id \in Tasks, Enqueue(id) \/ EnqueueDies(id)
    PROVE  OneCopy' /\ QueuedOnTheWay'
<1> USE DEF OneCopy
<1>1. \A w \in Workers : \A t \in Tasks : Carries(w, t)' <=> Carries(w, t)
  BY ZenonT(30) DEF Carries, workerVars, Enqueue, EnqueueDies, EnqueueSave, EnqueuePush, EnqueueZadd, EnqueueFlag
<1>2. CarrierAlone'
  BY <1>1 DEF CarrierAlone
<1>3. CASE EnqueuePush(id)
  <2>1. ~InQueue(id) /\ delayed[id] = 0 /\ \A w \in Workers : ~Carries(w, id)
    BY <1>3, ZenonT(30) DEF EnqueuePush, EnqueuerAlone
  <2>2. (\A t \in Tasks : InQueue(t)' <=> InQueue(t) \/ t = id) /\ ListedOnce'
    BY <1>3, <2>1, LPushPlaces DEF EnqueuePush, TypeOK
  <2>3. epc' = [epc EXCEPT ![id] = "done"] /\ UNCHANGED <<task, delayed, pc, cur>>
    BY <1>3, SMTT(20) DEF EnqueuePush, workerVars
  <2>4. EnqueuerAlone' /\ ListedAlone' /\ DelayedAlone'
    BY <1>1, <2>1, <2>2, <2>3, Domains, ZenonT(30) DEF EnqueuerAlone, ListedAlone, DelayedAlone
  <2>5. QueuedOnTheWay'
    BY <1>3, <2>2, <2>3, Domains, Zenon DEF QueuedOnTheWay, EnqueuePush
  <2> QED
    BY <1>2, <2>2, <2>4, <2>5, SMTT(20)
<1>4. CASE ~EnqueuePush(id)
  <2>1. UNCHANGED <<queue, pc, cur>>
    BY <1>4, Zenon DEF Enqueue, EnqueueDies, EnqueueSave, EnqueueZadd, EnqueueFlag, workerVars, redisVars
  <2>2. (\A t \in Tasks : InQueue(t)' <=> InQueue(t)) /\ ListedOnce'
    BY <2>1, SameLists
  <2>3. \A t \in Tasks : t # id => epc'[t] = epc[t] /\ delayed'[t] = delayed[t] /\ task'[t] = task[t]
    BY <1>4, Domains, ZenonT(30) DEF Enqueue, EnqueueDies, EnqueueSave, Save, EnqueueZadd, EnqueueFlag, redisVars
  <2>4. CASE EnqueueSave(id)
    <3>1. epc[id] = "new" /\ epc'[id] \in {"push", "zadd"} /\ delayed' = delayed
      BY <2>4, Domains, Zenon DEF EnqueueSave
    <3>2. task'[id].val.st = "queued"
      BY <2>4, Domains, ZenonT(30) DEF EnqueueSave, Save
    <3>3. EnqueuerAlone' /\ ListedAlone' /\ DelayedAlone'
      BY <1>1, <2>2, <2>3, <3>1, Zenon DEF EnqueuerAlone, ListedAlone, DelayedAlone
    <3>4. \A w \in Workers : pc[w] = "get" => cur[w] \in Tasks
      BY Domains
    <3>5. QueuedOnTheWay'
      BY <2>1, <2>2, <2>3, <3>2, <3>4, Zenon DEF QueuedOnTheWay
    <3> QED
      BY <1>2, <2>2, <3>3, <3>5, SMTT(20)
  <2>5. CASE EnqueueZadd(id)
    <3>1. epc[id] = "zadd" /\ epc'[id] = "flag" /\ task' = task
      BY <2>5, Domains, Zenon DEF EnqueueZadd
    <3>2. EnqueuerAlone' /\ ListedAlone' /\ DelayedAlone'
      BY <1>1, <2>2, <2>3, <3>1, Zenon DEF EnqueuerAlone, ListedAlone, DelayedAlone
    <3>3. QueuedOnTheWay'
      BY <2>1, <2>2, <2>3, <3>1, ZenonT(30) DEF QueuedOnTheWay
    <3> QED
      BY <1>2, <2>2, <3>2, <3>3, SMTT(20)
  <2>6. CASE EnqueueFlag(id) \/ EnqueueDies(id)
    <3>1. epc'[id] = "done" /\ task' = task /\ delayed' = delayed
      BY <2>6, Domains, Zenon DEF EnqueueFlag, EnqueueDies, redisVars
    <3>2. EnqueuerAlone' /\ ListedAlone' /\ DelayedAlone'
      BY <1>1, <2>2, <2>3, <3>1, Zenon DEF EnqueuerAlone, ListedAlone, DelayedAlone
    <3>3. QueuedOnTheWay'
      BY <2>1, <2>2, <2>3, <3>1, Zenon DEF QueuedOnTheWay
    <3> QED
      BY <1>2, <2>2, <3>2, <3>3, SMTT(20)
  <2> QED
    BY <1>4, <2>4, <2>5, <2>6 DEF Enqueue
<1> QED
  BY <1>3, <1>4

\* The script moves ids from the delayed set to lists that do not hold them.
LEMMA ProcessDelayedKeeps ==
    ASSUME TypeOK, OneCopy, QueuedOnTheWay, ProcessDelayed
    PROVE  OneCopy' /\ QueuedOnTheWay'
<1> USE DEF OneCopy
<1>1. \A w \in Workers : \A t \in Tasks : Carries(w, t)' <=> Carries(w, t)
  BY DEF Carries, workerVars, ProcessDelayed
<1>0. \A t \in MovedIds : ~InQueue(t)
  BY DEF MovedIds, FlaggedIds, DueIds, ListedAlone
<1>2. (\A t \in Tasks : InQueue(t)' <=> InQueue(t) \/ t \in MovedIds) /\ ListedOnce'
  BY <1>0, ProcessDelayedPlaces
<1>3. MovedIds \subseteq Tasks /\ \A t \in MovedIds : delayed[t] # 0 /\ delayed'[t] = 0
  BY DEF MovedIds, FlaggedIds, DueIds, ProcessDelayed
<1>4. \A t \in Tasks : delayed'[t] # 0 => delayed[t] # 0
  BY DEF ProcessDelayed
<1>5. UNCHANGED <<epc, pc, cur>>
  BY DEF ProcessDelayed, enqVars, workerVars
<1>6. \A t \in Tasks : IF t \in MovedIds THEN task'[t].val.st = "queued" ELSE task'[t] = task[t]
  BY DEF ProcessDelayed, TypeOK, RedisType, TaskObject
<1>7. EnqueuerAlone'
  BY <1>1, <1>2, <1>3, <1>4, <1>5, Zenon DEF EnqueuerAlone
<1>8. ListedAlone'
  BY <1>1, <1>2, <1>3, <1>4, Zenon DEF ListedAlone, DelayedAlone
<1>9. DelayedAlone' /\ CarrierAlone'
  BY <1>1, <1>4, Zenon DEF DelayedAlone, CarrierAlone
<1>10. \A w \in Workers : pc[w] = "get" => cur[w] \in Tasks
  BY Domains
<1>11. QueuedOnTheWay'
  BY <1>2, <1>5, <1>6, <1>10, Zenon DEF QueuedOnTheWay
<1> QED
  BY <1>2, <1>7, <1>8, <1>9, <1>11, Zenon

\* A step that leaves the lists, the delayed set and the enqueue calls alone and
\* gives no worker a new id.
LEMMA NoNewCarrier ==
    ASSUME OneCopy, UNCHANGED <<queue, delayed, epc>>,
           \A w \in Workers : \A t \in Tasks : Carries(w, t)' => Carries(w, t)
    PROVE  OneCopy'
<1>1. (\A t \in Tasks : InQueue(t)' <=> InQueue(t)) /\ ListedOnce'
  BY SameLists DEF OneCopy
<1> QED
  BY <1>1, Zenon DEF OneCopy, EnqueuerAlone, ListedAlone, DelayedAlone, CarrierAlone

\* A worker that saves a task saves the one it carries, so no id on its way to
\* another worker is affected.
LEMMA SaveKeepsQueued ==
    ASSUME TypeOK, OneCopy, QueuedOnTheWay, NEW w \in Workers, NEW obj, pc[w] \notin {"pop", "get", "nack_del"},
           Save(cur[w], obj), UNCHANGED <<queue, epc, cur>>,
           NEW step, step \notin {"get", "push"}, Goto(w, step)
    PROVE  QueuedOnTheWay'
<1> USE DEF OneCopy
<1>1. cur[w] \in Tasks /\ Carries(w, cur[w])
  BY Domains, Zenon DEF Carries
<1>2. (\A t \in Tasks : InQueue(t)' <=> InQueue(t))
  BY SameLists, Zenon
<1>3. \A t \in Tasks : t # cur[w] => task'[t] = task[t]
  BY Domains, Zenon DEF Save
<1>4. ~InQueue(cur[w]) /\ epc[cur[w]] # "push"
  BY <1>1, ZenonT(30) DEF ListedAlone, EnqueuerAlone
<1>5. \A v \in Workers : v # w => pc'[v] = pc[v]
  BY Domains, Zenon DEF Goto
<1>6. pc'[w] = step
  BY Domains DEF Goto
<1>7. \A v \in Workers : pc[v] = "get" => cur[v] \in Tasks /\ Carries(v, cur[v])
  BY Domains, Zenon DEF Carries
<1>8. \A v \in Workers : pc[v] = "get" => cur[v] # cur[w]
  BY <1>1, <1>7, Zenon DEF CarrierAlone
<1>9. \A t \in Tasks : InQueue(t)' \/ epc'[t] = "push" => task'[t].val.st = "queued"
  BY <1>2, <1>3, <1>4, Zenon DEF QueuedOnTheWay
<1>10. \A v \in Workers : pc'[v] = "get" => task'[cur'[v]].val.st = "queued"
  BY <1>3, <1>5, <1>6, <1>7, <1>8, Zenon DEF QueuedOnTheWay
<1>11. \A v \in Workers : pc'[v] # "push"
  BY <1>5, <1>6, Zenon DEF QueuedOnTheWay
<1> QED
  BY <1>9, <1>10, <1>11, Zenon DEF QueuedOnTheWay

\* A step of a worker that saves nothing and does not pop.
LEMMA MoveKeepsQueued ==
    ASSUME TypeOK, OneCopy, QueuedOnTheWay, NEW w \in Workers, UNCHANGED <<queue, epc, task>>,
           \A v \in Workers : v # w => pc'[v] = pc[v] /\ cur'[v] = cur[v],
           pc'[w] \notin {"get", "push"}
    PROVE  QueuedOnTheWay'
<1>1. \A t \in Tasks : InQueue(t)' <=> InQueue(t)
  BY SameLists, Zenon DEF OneCopy
<1> QED
  BY <1>1, Zenon DEF QueuedOnTheWay

\* A worker takes an id from one list and hands it to at most one place.
LEMMA WorkerKeeps ==
    ASSUME TypeOK, OneCopy, QueuedOnTheWay, NEW w \in Workers, Worker(w) \/ TryFails(w) \/ WorkerDies(w)
    PROVE  OneCopy' /\ QueuedOnTheWay'
<1>1. pc[w] # "push" /\ (pc[w] = "get" => Get(cur[w]).st \in {"queued", "none"})
  BY Zenon DEF QueuedOnTheWay, Get, NoTask
<1>2. pc[w] # "pop" => cur[w] \in Tasks
  BY Domains, Zenon
<1>3. CASE Pop(w)
  <2>1. PICK id \in Tasks : cur'[w] = id /\ InQueue(id) /\ ~InQueue(id)'
    BY <1>3, PopPlaces DEF OneCopy
  <2>2. (\A t \in Tasks : InQueue(t)' => InQueue(t)) /\ ListedOnce'
    BY <1>3, PopPlaces, SMTT(20) DEF OneCopy
  <2>3. /\ UNCHANGED <<epc, delayed, task>>
        /\ pc'[w] = "get"
        /\ \A v \in Workers : v # w => pc'[v] = pc[v] /\ cur'[v] = cur[v]
    BY <1>3, Domains, Zenon DEF Pop, Goto, enqVars
  <2>4. \A v \in Workers : \A t \in Tasks : Carries(v, t)' <=> Carries(v, t) \/ (v = w /\ t = id)
    BY <1>3, <2>1, <2>3, Zenon DEF Pop, Carries
  <2>5. EnqueuerAlone'
    BY <2>1, <2>2, <2>3, <2>4, Zenon DEF OneCopy, EnqueuerAlone
  <2>6. ListedAlone'
    BY <2>1, <2>2, <2>3, <2>4, ZenonT(30) DEF OneCopy, ListedAlone
  <2>7. DelayedAlone'
    BY <2>1, <2>3, <2>4, Zenon DEF OneCopy, ListedAlone, DelayedAlone
  <2>8. CarrierAlone'
    BY <2>1, <2>4, ZenonT(40) DEF OneCopy, ListedAlone, CarrierAlone
  <2>9. QueuedOnTheWay'
    BY <2>1, <2>2, <2>3, ZenonT(30) DEF QueuedOnTheWay
  <2> QED
    BY <2>2, <2>5, <2>6, <2>7, <2>8, <2>9 DEF OneCopy
<1>4. CASE NackZadd(w)
  <2>1. /\ UNCHANGED <<epc, queue, task, cur>>
        /\ pc[w] = "nack_zadd" /\ pc'[w] = "nack_del"
        /\ \A v \in Workers : v # w => pc'[v] = pc[v]
        /\ \A t \in Tasks : t # cur[w] => delayed'[t] = delayed[t]
    BY <1>4, Domains, ZenonT(30) DEF NackZadd, Goto, enqVars
  <2>2. Carries(w, cur[w]) /\ cur[w] \in Tasks
    BY <1>2, <2>1, Zenon DEF Carries
  <2>3. \A v \in Workers : \A t \in Tasks : Carries(v, t)' <=> Carries(v, t) /\ v # w
    BY <2>1, ZenonT(30) DEF Carries
  <2>4. (\A t \in Tasks : InQueue(t)' <=> InQueue(t)) /\ ListedOnce'
    BY <2>1, SameLists, ZenonT(30) DEF OneCopy
  <2>5. EnqueuerAlone'
    BY <2>1, <2>2, <2>3, <2>4, Zenon DEF OneCopy, EnqueuerAlone
  <2>6. ListedAlone'
    BY <2>1, <2>2, <2>3, <2>4, Zenon DEF OneCopy, ListedAlone
  <2>7. DelayedAlone'
    <3>1. \A t \in Tasks : t # cur[w] /\ delayed'[t] # 0 => \A v \in Workers : ~Carries(v, t)'
      BY <2>1, <2>3, Zenon DEF OneCopy, DelayedAlone
    <3>2. \A t \in Tasks : t = cur[w] => \A v \in Workers : ~Carries(v, t)'
      BY <2>2, <2>3, Zenon DEF OneCopy, CarrierAlone
    <3> QED
      BY <3>1, <3>2, Zenon DEF DelayedAlone
  <2>8. CarrierAlone'
    BY <2>3 DEF OneCopy, CarrierAlone
  <2>9. QueuedOnTheWay'
    BY <2>1, MoveKeepsQueued, ZenonT(30)
  <2> QED
    BY <2>4, <2>5, <2>6, <2>7, <2>8, <2>9, SMTT(20) DEF OneCopy
<1>5. CASE DequeueSave(w) \/ AckSave(w) \/ NackSave(w)
  <2>1. UNCHANGED <<queue, delayed, epc, cur>> /\ pc[w] \notin {"pop", "get", "nack_del"}
        /\ Save(cur[w], snap[w])
    BY <1>5, Zenon DEF DequeueSave, AckSave, NackSave, enqVars
  <2>2. PICK step \in {"lease", "ack_del", "nack_zadd", "nack_del"} : Goto(w, step)
    BY <1>5, Zenon DEF DequeueSave, AckSave, NackSave
  <2>3. \A v \in Workers : \A t \in Tasks : Carries(v, t)' => Carries(v, t)
    BY <2>1, <2>2, Domains, Zenon DEF Carries, Goto
  <2>4. OneCopy'
    BY <2>1, <2>3, NoNewCarrier, Zenon
  <2>5. step \notin {"get", "push"}
    OBVIOUS
  <2>6. QueuedOnTheWay'
    BY <2>1, <2>2, <2>5, SaveKeepsQueued, Zenon
  <2> QED
    BY <2>4, <2>6, SMTT(20)
<1>6. CASE DequeueLease(w) \/ Execute(w) \/ TryFails(w) \/ AckGet(w) \/ AckDelete(w)
  <2>1. UNCHANGED <<queue, delayed, epc, task, cur>> /\ pc[w] \notin {"pop", "get", "nack_del"}
    BY <1>6 DEF DequeueLease, Execute, TryFails, AckGet, AckDelete, enqVars, redisVars
  <2>2. PICK step \in {"exec", "ack_get", "nack_get", "ack_save", "ack_del", "publish"} :
           Goto(w, step)
    BY <1>6 DEF DequeueLease, Execute, TryFails, AckGet, AckDelete
  <2>3. pc'[w] = step /\ \A v \in Workers : v # w => pc'[v] = pc[v]
    BY <2>2, Domains, ZenonT(30) DEF Goto
  <2>4. \A v \in Workers : \A t \in Tasks : Carries(v, t)' => Carries(v, t)
    BY <2>1, <2>3, Zenon DEF Carries
  <2> QED
    BY <2>1, <2>3, <2>4, NoNewCarrier, MoveKeepsQueued, Zenon
<1>7. CASE PopTimeout(w) \/ PublishCompleted(w) \/ NackDelete(w) \/ WorkerDies(w)
           \/ DequeueGet(w) \/ NackGet(w)
  <2>1. UNCHANGED <<queue, delayed, epc, task>>
    BY <1>7, Zenon DEF PopTimeout, PublishCompleted, NackDelete, WorkerDies, DequeueGet, NackGet,
                enqVars, redisVars
  <2>2. \/ \E p : PollAt(w, p)
        \/ /\ pc[w] \in {"get", "nack_get"}
           /\ \E step \in {"save", "nack_save"} : Goto(w, step)
           /\ cur' = cur
    BY <1>1, <1>7 DEF PopTimeout, PublishCompleted, NackDelete, WorkerDies, DequeueGet, NackGet,
                      NextPriority, Finish
  <2>3. /\ \A v \in Workers : v # w => pc'[v] = pc[v] /\ cur'[v] = cur[v]
        /\ \/ pc'[w] = "pop"
           \/ /\ pc[w] \in {"get", "nack_get"} /\ pc'[w] \in {"save", "nack_save"}
              /\ cur'[w] = cur[w]
    BY <2>2, Domains, ZenonT(30) DEF PollAt, Goto
  <2>4. \A v \in Workers : \A t \in Tasks : Carries(v, t)' => Carries(v, t)
    BY <2>3, ZenonT(30) DEF Carries
  <2> QED
    BY <2>1, <2>3, <2>4, NoNewCarrier, MoveKeepsQueued, Zenon
<1>8. CASE DequeueRequeue(w)
  BY <1>1, <1>8, Zenon DEF DequeueRequeue
<1> QED
  BY <1>3, <1>4, <1>5, <1>6, <1>7, <1>8, Zenon DEF Worker

\* As long as nobody calls requeue_expired, which is how the repository wires
\* the queue, a task id exists once and only ids of queued tasks are handed out,
\* whatever crashes and delays the enqueue calls and the workers suffer.
THEOREM OneCopyAlways ==
    ASSUME Sweepers = {}
    PROVE  Spec => [](OneCopy /\ QueuedOnTheWay)
<1>1. Init => OneCopy /\ QueuedOnTheWay
  <2> SUFFICES ASSUME Init
               PROVE  OneCopy /\ QueuedOnTheWay
    OBVIOUS
  <2>1. \A p \in Priorities : queue[p] = <<>> /\ DOMAIN queue[p] = {}
    BY DEF Init
  <2>2. ListedOnce /\ \A t \in Tasks : ~InQueue(t)
    BY <2>1, Zenon DEF ListedOnce, InQueue, Has
  <2>3. \A w \in Workers : pc[w] = "pop"
    BY Zenon DEF Init
  <2>4. \A t \in Tasks : delayed[t] = 0 /\ epc[t] = "new"
    BY Zenon DEF Init
  <2>5. OneCopy
    BY <2>2, <2>3, <2>4, Zenon
       DEF OneCopy, EnqueuerAlone, ListedAlone, DelayedAlone, CarrierAlone, Carries
  <2> QED
    BY <2>2, <2>3, <2>4, <2>5, Zenon DEF QueuedOnTheWay
<1>2. CopyInv /\ [Next]_vars => (OneCopy /\ QueuedOnTheWay)'
  <2> SUFFICES ASSUME CopyInv, [Next]_vars
               PROVE  OneCopy' /\ QueuedOnTheWay'
    OBVIOUS
  <2>1. CASE Tick \/ UNCHANGED vars
    <3>1. UNCHANGED <<queue, delayed, task, epc, pc, cur>>
      BY <2>1, Zenon DEF Tick, vars, redisVars, enqVars, workerVars
    <3>2. \A t \in Tasks : InQueue(t)' <=> InQueue(t)
      BY <3>1, SameLists DEF CopyInv, OneCopy
    <3>3. \A w \in Workers : \A t \in Tasks : Carries(w, t)' => Carries(w, t)
      BY <3>1 DEF Carries
    <3> QED
      BY <3>1, <3>2, <3>3, NoNewCarrier, Zenon DEF CopyInv, QueuedOnTheWay
  <2> QED
    BY <2>1, ProcessDelayedKeeps, EnqueueKeeps, WorkerKeeps DEF Next, CopyInv
<1> QED
  BY <1>1, <1>2, TypeCorrect, PTL DEF Spec, CopyInv

\* The id that a list, the delayed set or a BRPOP holds is that of a task whose
\* record says so, while nobody calls requeue_expired.
THEOREM OnTheWayAlwaysQueued ==
    ASSUME Sweepers = {}
    PROVE  Spec => []QueuedOnTheWay
BY OneCopyAlways, PTL

\* Exclusive ownership, for any number of tasks and workers: two workers never
\* run the same task at once while nobody calls requeue_expired.
THEOREM ExclusiveOwnership ==
    ASSUME Sweepers = {}
    PROVE  Spec => []ExclusiveOwner
<1>1. OneCopy => ExclusiveOwner
  BY DEF OneCopy, CarrierAlone, ExclusiveOwner, Carries, Owns, Holds
<1> QED
  BY <1>1, OneCopyAlways, PTL
=============================================================================
