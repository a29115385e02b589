------------------------- MODULE QueueOutcomeProofs -------------------------
(***************************************************************************)
(* What becomes of a task once a worker has it: its outcome is final, and  *)
(* its id is not lost.  For any number of tasks, workers and priorities    *)
(* and any timing constants, while nobody calls requeue_expired and no     *)
(* coroutine dies half way.                                                *)
(***************************************************************************)
EXTENDS QueueProofs
-----------------------------------------------------------------------------
(* The record of a task that a worker has in hand. *)

\* The record between two steps of dequeue, ack and nack, and what the worker
\* is about to write over it.
RecordOf(w) ==
    /\ pc[w] = "save" => task[cur[w]].val.st = "queued" /\ snap[w].st = "running"
    /\ pc[w] \in {"lease", "exec", "ack_get", "ack_save", "nack_get", "nack_save"} =>
          task[cur[w]].val.st = "running"
    /\ pc[w] = "ack_save" => snap[w].st = "completed"
    /\ pc[w] = "nack_save" => snap[w].st \in {"retrying", "failed"}

NewIsUnsaved == \A t \in Tasks : epc[t] = "new" => task[t].val.st = "none"

RecordInv == NewIsUnsaved /\ \A w \in Workers : RecordOf(w)

\* The invariant of QueueProofs, for use below.
LEMMA CopyAlways == ASSUME Sweepers = {} PROVE Spec => []CopyInv
BY OneCopyAlways, TypeCorrect, PTL DEF CopyInv

\* A worker writes to the record it carries, and to no other worker's.
LEMMA RecordsApart ==
    ASSUME CopyInv, RecordInv, NEW w \in Workers, pc[w] \notin {"pop", "nack_del"},
           \A t \in Tasks : t # cur[w] => task'[t] = task[t],
           UNCHANGED epc,
           \A v \in Workers : v # w => pc'[v] = pc[v] /\ cur'[v] = cur[v] /\ snap'[v] = snap[v],
           RecordOf(w)'
    PROVE  RecordInv'
<1>1. cur[w] \in Tasks /\ Carries(w, cur[w])
  BY Domains DEF CopyInv, Carries
<1>2. epc[cur[w]] # "new"
  BY <1>1 DEF CopyInv, OneCopy, EnqueuerAlone
<1>3. NewIsUnsaved'
  BY <1>2 DEF RecordInv, NewIsUnsaved
<1>4. ASSUME NEW v \in Workers, v # w PROVE RecordOf(v)'
  <2>1. CASE pc[v] \in {"pop", "nack_del"}
    BY <1>4, <2>1 DEF RecordOf
  <2>2. CASE pc[v] \notin {"pop", "nack_del"}
    <3>1. cur[v] \in Tasks /\ Carries(v, cur[v])
      BY <2>2, Domains DEF CopyInv, Carries
    <3>2. cur[v] # cur[w]
      BY <1>1, <1>4, <3>1 DEF CopyInv, OneCopy, CarrierAlone
    <3>3. task'[cur'[v]] = task[cur[v]]
      BY <1>4, <3>1, <3>2
    <3>4. RecordOf(v)
      BY DEF RecordInv
    <3> QED
      BY <1>4, <3>3, <3>4 DEF RecordOf
  <2> QED
    BY <2>1, <2>2
<1> QED
  BY <1>3, <1>4 DEF RecordInv

\* What a step of a worker does to the record it has in hand.
RecordMove(w) ==
    /\ RecordOf(w)'
    /\ UNCHANGED epc
    /\ \A v \in Workers : v # w => pc'[v] = pc[v] /\ cur'[v] = cur[v] /\ snap'[v] = snap[v]
    /\ \/ UNCHANGED task
       \/ /\ pc[w] \in {"save", "ack_save", "nack_save"}
          /\ \A t \in Tasks : t # cur[w] => task'[t] = task[t]
          /\ task[cur[w]].val.st \in {"queued", "running"}

\* A worker writes only to an unsettled record, that of the task it carries.
LEMMA RecordMoves ==
    ASSUME MayFail = FALSE, CopyInv, RecordInv, NEW w \in Workers,
           Worker(w) \/ TryFails(w) \/ WorkerDies(w)
    PROVE  RecordMove(w)
<1>1. /\ DOMAIN cur = Workers /\ DOMAIN snap = Workers
      /\ DOMAIN task = Tasks /\ DOMAIN pc = Workers
      /\ pc[w] # "pop" => cur[w] \in Tasks
      /\ pc[w] # "push"
  BY DEF CopyInv, TypeOK, WorkerType, RedisType, QueuedOnTheWay
<1>2. RecordOf(w) /\ (pc[w] = "get" => task[cur[w]].val.st = "queued")
  BY DEF RecordInv, CopyInv, QueuedOnTheWay
<1>3. CASE DequeueSave(w) \/ AckSave(w) \/ NackSave(w)
  <2>1. /\ pc[w] \in {"save", "ack_save", "nack_save"} /\ cur' = cur /\ snap' = snap
        /\ UNCHANGED epc /\ Save(cur[w], snap[w]) /\ cur[w] \in Tasks
    BY <1>1, <1>3 DEF DequeueSave, AckSave, NackSave, enqVars
  <2>2. /\ task'[cur[w]].val = snap[w]
        /\ \A t \in Tasks : t # cur[w] => task'[t] = task[t]
    BY <1>1, <2>1 DEF Save
  <2>3. \/ pc[w] = "save" /\ Goto(w, "lease")
        \/ \E step \in {"ack_del", "nack_zadd", "nack_del"} : Goto(w, step)
    BY <1>3 DEF DequeueSave, AckSave, NackSave
  <2>4. /\ (pc[w] = "save" /\ pc'[w] = "lease") \/ pc'[w] \in {"ack_del", "nack_zadd", "nack_del"}
        /\ \A v \in Workers : v # w => pc'[v] = pc[v]
    BY <1>1, <2>3 DEF Goto
  <2>5. RecordOf(w)'
    BY <1>2, <2>1, <2>2, <2>4 DEF RecordOf
  <2> QED
    BY <1>2, <2>1, <2>2, <2>4, <2>5, Zenon DEF RecordOf, RecordMove
<1>4. CASE DequeueLease(w) \/ Execute(w) \/ AckDelete(w) \/ NackZadd(w)
  <2>1. /\ UNCHANGED <<task, epc, cur, snap>>
        /\ \/ pc[w] = "lease" /\ Goto(w, "exec")
           \/ pc[w] = "exec" /\ (Goto(w, "ack_get") \/ Goto(w, "nack_get"))
           \/ Goto(w, "publish") \/ Goto(w, "nack_del")
    BY <1>4 DEF DequeueLease, Execute, AckDelete, NackZadd, enqVars, redisVars
  <2>2. /\ \A v \in Workers : v # w => pc'[v] = pc[v]
        /\ \/ pc[w] = "lease" /\ pc'[w] = "exec"
           \/ pc[w] = "exec" /\ pc'[w] \in {"ack_get", "nack_get"}
           \/ pc'[w] \in {"publish", "nack_del"}
    BY <1>1, <2>1 DEF Goto
  <2>3. RecordOf(w)'
    BY <1>2, <2>1, <2>2 DEF RecordOf
  <2> QED
    BY <2>1, <2>2, <2>3 DEF RecordMove
<1>5. CASE \/ DequeueGet(w) /\ pc'[w] = "save"
           \/ AckGet(w)
           \/ NackGet(w) /\ pc'[w] = "nack_save"
  <2>1. UNCHANGED <<task, epc>>
    BY <1>5 DEF DequeueGet, AckGet, NackGet, enqVars, redisVars
  <2>2. \/ /\ pc[w] = "get" /\ Goto(w, "save") /\ cur' = cur
           /\ snap' = [snap EXCEPT ![w] = [Get(cur[w]) EXCEPT !.st = "running"]]
        \/ /\ pc[w] = "ack_get" /\ Goto(w, "ack_save") /\ cur' = cur
           /\ snap' = [snap EXCEPT ![w] = [Get(cur[w]) EXCEPT !.st = "completed"]]
        \/ /\ pc[w] = "ack_get" /\ Goto(w, "ack_del") /\ cur' = cur /\ snap' = snap
        \/ /\ pc[w] = "nack_get" /\ Goto(w, "nack_save") /\ cur' = cur
           /\ \E st \in {"retrying", "failed"} : \E n : snap' = [snap EXCEPT ![w] = [st |-> st, retries |-> n]]
    <3>1. \A p : PollAt(w, p) => pc'[w] = "pop"
      BY <1>1 DEF PollAt, Goto
    <3>2. Goto(w, "push") => pc'[w] = "push"
      BY <1>1 DEF Goto
    <3>3. CASE DequeueGet(w) /\ pc'[w] = "save"
      BY <3>1, <3>2, <3>3, Zenon DEF DequeueGet, NextPriority
    <3>4. CASE AckGet(w)
      BY <3>4, Zenon DEF AckGet
    <3>5. CASE NackGet(w) /\ pc'[w] = "nack_save"
      BY <3>1, <3>5 DEF NackGet, Finish
    <3> QED
      BY <1>5, <3>3, <3>4, <3>5, Zenon
  <2>3. Get(cur[w]) \in TaskObject
    BY <1>1, <2>2 DEF CopyInv, TypeOK, RedisType, Get, NoTask, TaskObject
  <2>4. \A s : ([Get(cur[w]) EXCEPT !.st = s]).st = s
    BY <2>3 DEF TaskObject
  <2>5. /\ \A v \in Workers : v # w => pc'[v] = pc[v] /\ cur'[v] = cur[v] /\ snap'[v] = snap[v]
        /\ cur'[w] = cur[w]
        /\ \/ pc[w] = "get" /\ pc'[w] = "save" /\ snap'[w].st = "running"
           \/ pc[w] = "ack_get" /\ pc'[w] = "ack_save" /\ snap'[w].st = "completed"
           \/ pc[w] = "ack_get" /\ pc'[w] = "ack_del"
           \/ pc[w] = "nack_get" /\ pc'[w] = "nack_save" /\ snap'[w].st \in {"retrying", "failed"}
    <3>1. /\ cur' = cur
          /\ \/ pc[w] = "get" /\ Goto(w, "save")
             \/ pc[w] = "ack_get" /\ (Goto(w, "ack_save") \/ Goto(w, "ack_del"))
             \/ pc[w] = "nack_get" /\ Goto(w, "nack_save")
          /\ snap' = snap \/ \E x : snap' = [snap EXCEPT ![w] = x]
      BY <2>2, Zenon
    <3>2. \A v \in Workers : v # w => pc'[v] = pc[v] /\ cur'[v] = cur[v] /\ snap'[v] = snap[v]
      BY <1>1, <3>1 DEF Goto
    <3>3. CASE /\ pc[w] = "get" /\ Goto(w, "save") /\ cur' = cur
               /\ snap' = [snap EXCEPT ![w] = [Get(cur[w]) EXCEPT !.st = "running"]]
      BY <1>1, <2>4, <3>2, <3>3 DEF Goto
    <3>4. CASE /\ pc[w] = "ack_get" /\ Goto(w, "ack_save") /\ cur' = cur
               /\ snap' = [snap EXCEPT ![w] = [Get(cur[w]) EXCEPT !.st = "completed"]]
      BY <1>1, <2>4, <3>2, <3>4 DEF Goto
    <3>5. CASE pc[w] = "ack_get" /\ Goto(w, "ack_del") /\ cur' = cur /\ snap' = snap
      BY <1>1, <3>2, <3>5 DEF Goto
    <3>6. CASE /\ pc[w] = "nack_get" /\ Goto(w, "nack_save") /\ cur' = cur
               /\ \E st \in {"retrying", "failed"} : \E n : snap' = [snap EXCEPT ![w] = [st |-> st, retries |-> n]]
      BY <1>1, <3>2, <3>6 DEF Goto
    <3> QED
      BY <2>2, <3>3, <3>4, <3>5, <3>6, Zenon
  <2>6. RecordOf(w)'
    BY <1>2, <2>1, <2>5 DEF RecordOf
  <2> QED
    BY <2>1, <2>5, <2>6 DEF RecordMove
<1>6. CASE \/ PopTimeout(w) \/ PublishCompleted(w) \/ NackDelete(w) \/ Pop(w)
           \/ DequeueGet(w) /\ pc'[w] # "save"
           \/ NackGet(w) /\ pc'[w] # "nack_save"
  <2>1. UNCHANGED <<task, epc>>
    BY <1>6 DEF PopTimeout, PublishCompleted, NackDelete, Pop, DequeueGet, NackGet, enqVars, redisVars
  <2>2. \/ \E p : PollAt(w, p)
        \/ Goto(w, "get") /\ (\A v \in Workers : v # w => cur'[v] = cur[v]) /\ snap' = snap
    <3>1. Goto(w, "save") => pc'[w] = "save"
      BY <1>1 DEF Goto
    <3>2. Goto(w, "nack_save") => pc'[w] = "nack_save"
      BY <1>1 DEF Goto
    <3>3. pc[w] = "get" => Get(cur[w]).st \in {"queued", "none"}
      BY <1>2, Zenon DEF Get, NoTask
    <3>4. CASE Pop(w)
      BY <1>1, <3>4, Zenon DEF Pop
    <3>5. CASE PopTimeout(w) \/ PublishCompleted(w) \/ NackDelete(w)
      BY <3>5, Zenon DEF PopTimeout, PublishCompleted, NackDelete, NextPriority, Finish
    <3>6. CASE DequeueGet(w) /\ pc'[w] # "save"
      BY <3>1, <3>3, <3>6 DEF DequeueGet, NextPriority
    <3>7. CASE NackGet(w) /\ pc'[w] # "nack_save"
      BY <3>2, <3>7 DEF NackGet, Finish
    <3> QED
      BY <1>6, <3>4, <3>5, <3>6, <3>7
  <2>3. /\ pc'[w] \in {"pop", "get"}
        /\ \A v \in Workers : v # w => pc'[v] = pc[v] /\ cur'[v] = cur[v] /\ snap'[v] = snap[v]
    BY <1>1, <2>2 DEF PollAt, Goto
  <2>4. RecordOf(w)'
    BY <2>3 DEF RecordOf
  <2> QED
    BY <2>1, <2>3, <2>4 DEF RecordMove
<1>7. ~TryFails(w) /\ ~WorkerDies(w) /\ ~DequeueRequeue(w)
  BY <1>1, Zenon DEF TryFails, WorkerDies, DequeueRequeue
<1>8. CASE DequeueGet(w)
  BY <1>5, <1>6, <1>8
<1>9. CASE NackGet(w)
  BY <1>5, <1>6, <1>9
<1>10. CASE AckGet(w)
  BY <1>5, <1>10
<1>11. CASE PopTimeout(w) \/ PublishCompleted(w) \/ NackDelete(w) \/ Pop(w)
  BY <1>6, <1>11
<1> QED
  BY <1>3, <1>4, <1>7, <1>8, <1>9, <1>10, <1>11 DEF Worker

\* What a step may do to a record that ack or nack has settled: nothing.
SettledStep ==
    \A t \in Tasks : task[t].val.st \in {"completed", "failed"} => task'[t].val.st = task[t].val.st

\* So its steps keep RecordInv and leave settled records alone,
LEMMA WorkerRecords ==
    ASSUME CopyInv, RecordInv, NEW w \in Workers, RecordMove(w)
    PROVE  RecordInv' /\ SettledStep
<1>1. CASE UNCHANGED task
  <2>1. SettledStep
    BY <1>1 DEF SettledStep
  <2>2. NewIsUnsaved'
    BY <1>1 DEF RecordMove, RecordInv, NewIsUnsaved
  <2>3. \A v \in Workers : RecordOf(v)'
    BY <1>1 DEF RecordMove, RecordInv, RecordOf
  <2> QED
    BY <2>1, <2>2, <2>3 DEF RecordInv
<1>2. CASE /\ pc[w] \in {"save", "ack_save", "nack_save"}
           /\ \A t \in Tasks : t # cur[w] => task'[t] = task[t]
           /\ task[cur[w]].val.st \in {"queued", "running"}
  <2>1. SettledStep
    BY <1>2 DEF SettledStep
  <2>2. RecordInv'
    BY <1>2, RecordsApart, Zenon DEF RecordMove
  <2> QED
    BY <2>1, <2>2
<1> QED
  BY <1>1, <1>2 DEF RecordMove

\* as do those of enqueue, whose task has no record yet,
LEMMA EnqueueRecords ==
    ASSUME CopyInv, RecordInv, NEW id \in Tasks, Enqueue(id) \/ EnqueueDies(id)
    PROVE  RecordInv' /\ SettledStep
<1>1. UNCHANGED <<pc, cur, snap>>
  BY Zenon DEF Enqueue, EnqueueDies, EnqueueSave, EnqueuePush, EnqueueZadd, EnqueueFlag, workerVars
<1>2. \A t \in Tasks : epc'[t] = "new" => epc[t] = "new"
  <2>1. \A step : epc' = [epc EXCEPT ![id] = step] /\ step # "new" =>
           \A t \in Tasks : epc'[t] = "new" => epc[t] = "new"
    BY Domains DEF CopyInv
  <2> QED
    BY <2>1, Zenon DEF Enqueue, EnqueueDies, EnqueueSave, EnqueuePush, EnqueueZadd, EnqueueFlag
<1>3. CASE UNCHANGED task
  BY <1>1, <1>2, <1>3, Zenon DEF RecordInv, NewIsUnsaved, RecordOf, SettledStep
<1>4. CASE EnqueueSave(id)
  <2>1. /\ epc[id] = "new" /\ epc'[id] # "new"
        /\ \A t \in Tasks : t # id => task'[t] = task[t]
    BY <1>4, Domains, Zenon DEF CopyInv, EnqueueSave, Save
  <2>2. task[id].val.st = "none"
    BY <2>1 DEF RecordInv, NewIsUnsaved
  <2>3. NewIsUnsaved'
    BY <1>2, <2>1 DEF RecordInv, NewIsUnsaved
  <2>4. ASSUME NEW v \in Workers PROVE RecordOf(v)'
    <3>1. CASE pc[v] \in {"pop", "nack_del"}
      BY <1>1, <3>1, Zenon DEF RecordOf
    <3>2. CASE pc[v] \notin {"pop", "nack_del"}
      <4>1. cur[v] \in Tasks /\ Carries(v, cur[v])
        BY <3>2, Domains DEF CopyInv, Carries
      <4>2. cur[v] # id
        BY <2>1, <4>1, Zenon DEF CopyInv, OneCopy, EnqueuerAlone
      <4>3. task'[cur[v]] = task[cur[v]]
        BY <2>1, <4>1, <4>2, Zenon
      <4> QED
        BY <1>1, <4>3, Zenon DEF RecordInv, RecordOf
    <3> QED
      BY <3>1, <3>2
  <2>5. SettledStep
    BY <2>1, <2>2 DEF SettledStep
  <2> QED
    BY <2>3, <2>4, <2>5 DEF RecordInv
<1> QED
  BY <1>3, <1>4 DEF Enqueue, EnqueueDies, EnqueuePush, EnqueueZadd, EnqueueFlag, redisVars

\* and process_delayed, which writes to records saved as queued or retrying.
LEMMA DelayedRecords ==
    ASSUME CopyInv, RecordInv, ProcessDelayed
    PROVE  RecordInv' /\ SettledStep
<1>1. UNCHANGED <<pc, cur, snap, epc>>
  BY DEF ProcessDelayed, workerVars, enqVars
<1>2. \A t \in Tasks : t \notin MovedIds => task'[t] = task[t]
  BY DEF ProcessDelayed
<1>3. \A t \in MovedIds : /\ t \in Tasks /\ delayed[t] # 0
                          /\ task[t].val.st \in {"queued", "retrying"}
  BY DEF MovedIds, FlaggedIds, DueIds, Get, NoTask
<1>4. NewIsUnsaved'
  BY <1>1, <1>2, <1>3 DEF RecordInv, NewIsUnsaved
<1>5. SettledStep
  BY <1>2, <1>3 DEF SettledStep
<1>6. ASSUME NEW v \in Workers PROVE RecordOf(v)'
  <2>1. CASE pc[v] \in {"pop", "nack_del"}
    BY <1>1, <2>1 DEF RecordOf
  <2>2. CASE pc[v] \notin {"pop", "nack_del"}
    <3>1. cur[v] \in Tasks /\ Carries(v, cur[v])
      BY <2>2, Domains DEF CopyInv, Carries
    <3>2. cur[v] \notin MovedIds
      BY <1>3, <3>1 DEF CopyInv, OneCopy, DelayedAlone
    <3>3. task'[cur[v]] = task[cur[v]]
      BY <1>2, <3>1, <3>2
    <3> QED
      BY <1>1, <3>3 DEF RecordInv, RecordOf
  <2> QED
    BY <2>1, <2>2
<1> QED
  BY <1>4, <1>5, <1>6 DEF RecordInv

\* The record of a task in hand is what its worker takes it for, in every step.
LEMMA RecordKeeps ==
    ASSUME Sweepers = {}, MayFail = FALSE, CopyInv, RecordInv, [Next]_vars
    PROVE  RecordInv' /\ SettledStep
<1>1. CASE Tick
  BY <1>1, Zenon DEF Tick, redisVars, enqVars, workerVars, RecordInv, NewIsUnsaved, RecordOf, SettledStep
<1>2. CASE UNCHANGED vars
  BY <1>2, Zenon DEF vars, redisVars, enqVars, workerVars, RecordInv, NewIsUnsaved, RecordOf, SettledStep
<1>3. CASE ProcessDelayed
  BY <1>3, DelayedRecords
<1>4. ASSUME NEW t \in Tasks, Enqueue(t) \/ EnqueueDies(t) PROVE RecordInv' /\ SettledStep
  BY <1>4, EnqueueRecords
<1>5. ASSUME NEW w \in Workers, Worker(w) \/ TryFails(w) \/ WorkerDies(w)
      PROVE  RecordInv' /\ SettledStep
  <2>1. RecordMove(w)
    BY <1>5, RecordMoves, Zenon
  <2> QED
    BY <2>1, WorkerRecords
<1> QED
  BY <1>1, <1>2, <1>3, <1>4, <1>5 DEF Next

\* At first there are no records.
LEMMA RecordStarts == Init => RecordInv
BY DEF Init, RecordInv, NewIsUnsaved, RecordOf, NoKey, NoTask

\* The outcome of a task is final: once ack or nack has saved it as completed or
\* failed, no worker, no call of process_delayed and no enqueue changes it.
THEOREM OutcomesStay ==
    ASSUME Sweepers = {}, MayFail = FALSE
    PROVE  Spec => SettledStays
<1>1. CopyInv /\ RecordInv /\ [Next]_vars => RecordInv' /\ [SettledStep]_vars
  BY RecordKeeps, Zenon
<1>2. [SettledStep]_vars =>
        [\A t \in Tasks : task[t].val.st \in {"completed", "failed"} =>
                              task'[t].val.st \in {task[t].val.st, "none"}]_vars
  BY DEF SettledStep
<1> QED
  BY <1>1, <1>2, CopyAlways, RecordStarts, PTL DEF Spec, SettledStays
-----------------------------------------------------------------------------
(* No task is lost on the way. *)

\* What is in a list is its head or in its tail.
LEMMA HasHeadOrTail ==
    ASSUME NEW seq \in Seq(Tasks), seq # <<>>
    PROVE  \A x : Has(seq, x) => x = Head(seq) \/ Has(Tail(seq), x)
<1>1. /\ DOMAIN Tail(seq) = 1..(Len(seq) - 1)
      /\ \A i \in 1..(Len(seq) - 1) : Tail(seq)[i] = seq[i + 1]
      /\ Head(seq) = seq[1]
      /\ DOMAIN seq = 1..Len(seq) /\ Len(seq) \in Nat \ {0}
  OBVIOUS
<1>2. \A i \in DOMAIN seq :
         \/ seq[i] = Head(seq)
         \/ i - 1 \in DOMAIN Tail(seq) /\ Tail(seq)[i - 1] = seq[i]
  BY <1>1
<1> QED
  BY <1>2, Zenon DEF Has

\* BRPOP removes one id and leaves every other one where it is.
LEMMA PopLeaves ==
    ASSUME TypeOK, NEW w \in Workers, Pop(w)
    PROVE  \A t \in Tasks : InQueue(t) => t = cur'[w] \/ InQueue(t)'
<1>0. PICK q \in Priorities : q = prio[w]
  BY DEF TypeOK, WorkerType, Priorities
<1>1. queue[q] \in Seq(Tasks) /\ queue[q] # <<>> /\ DOMAIN queue = Priorities
  BY <1>0, Zenon DEF Pop, TypeOK, RedisType
<1>2. cur'[w] = Head(queue[q])
  BY <1>0 DEF Pop, TypeOK, WorkerType
<1>3. queue'[q] = Tail(queue[q]) /\ \A p \in Priorities : p # q => queue'[p] = queue[p]
  BY <1>0, <1>1 DEF Pop
<1>4. \A x : Has(queue[q], x) => x = cur'[w] \/ Has(queue'[q], x)
  BY <1>1, <1>2, <1>3, HasHeadOrTail, Zenon
<1> QED
  BY <1>3, <1>4, Zenon DEF InQueue

\* Without delays enqueue sets no flag, so process_delayed moves nothing.
NoFlags == \A t \in Tasks : flag[t] = 0 /\ epc[t] \notin {"zadd", "flag"}

\* From the BRPOP to the end of ack or nack a worker alone has the id, and no
\* list has it.
HeldAlone ==
    \A w \in Workers : pc[w] # "pop" =>
        /\ epc[cur[w]] = "done"
        /\ ~InQueue(cur[w])
        /\ \A v \in Workers : pc[v] # "pop" /\ cur[v] = cur[w] => v = w

\* The worker has written the last state of the task, or found no task.
Parting(w) == pc[w] \in {"ack_del", "publish", "nack_zadd", "nack_del"}
Unfinished(t) == Get(t).st \in {"queued", "running"}
PartsSettled == \A w \in Workers : Parting(w) => ~Unfinished(cur[w])

HandInv == NoFlags /\ HeldAlone /\ PartsSettled

\* What a step of a worker does to the id it has in hand: it keeps it, lets go
\* of it, or takes it from a list.
KeepsHand(w) ==
    /\ pc[w] # "pop" /\ pc'[w] # "pop" /\ cur'[w] = cur[w]
    /\ UNCHANGED queue
    /\ \A t \in Tasks : t # cur[w] => task'[t] = task[t]
    /\ Parting(w)' => ~Unfinished(cur[w])'
LetsGo(w) ==
    /\ pc'[w] = "pop"
    /\ UNCHANGED <<queue, task>>
    /\ pc[w] # "pop" => ~Unfinished(cur[w])
TakesUp(w) ==
    /\ pc[w] = "pop" /\ pc'[w] = "get"
    /\ UNCHANGED task
    /\ \E id \in Tasks :
          /\ cur'[w] = id /\ InQueue(id) /\ ~InQueue(id)'
          /\ \A t \in Tasks : t # id => (InQueue(t)' <=> InQueue(t))
HandMove(w) ==
    /\ UNCHANGED <<now, epc, flag>>
    /\ \A v \in Workers : v # w => pc'[v] = pc[v] /\ cur'[v] = cur[v]
    /\ KeepsHand(w) \/ LetsGo(w) \/ TakesUp(w)

\* A worker keeps its task, lets it go once it is settled, or takes one up.
LEMMA HandMoves ==
    ASSUME MayFail = FALSE, CopyInv, RecordInv, HandInv, NEW w \in Workers,
           Worker(w) \/ TryFails(w) \/ WorkerDies(w)
    PROVE  HandMove(w)
<1>1. /\ DOMAIN cur = Workers /\ DOMAIN task = Tasks /\ DOMAIN pc = Workers
      /\ pc[w] # "pop" => cur[w] \in Tasks
      /\ pc[w] # "push"
  BY DEF CopyInv, TypeOK, WorkerType, RedisType, QueuedOnTheWay
<1>2. /\ RecordOf(w)
      /\ pc[w] = "get" => task[cur[w]].val.st = "queued"
      /\ Parting(w) => ~Unfinished(cur[w])
  BY DEF RecordInv, CopyInv, QueuedOnTheWay, HandInv, PartsSettled
<1>3. \A step : Goto(w, step) => pc'[w] = step /\ \A v \in Workers : v # w => pc'[v] = pc[v]
  BY <1>1 DEF Goto
<1>4. \A p : PollAt(w, p) => /\ pc'[w] = "pop"
                             /\ \A v \in Workers : v # w => pc'[v] = pc[v] /\ cur'[v] = cur[v]
  BY <1>1, <1>3, Zenon DEF PollAt
<1>5. CASE DequeueSave(w) \/ AckSave(w) \/ NackSave(w)
  <2>1. /\ UNCHANGED <<now, queue, flag, epc, cur>> /\ Save(cur[w], snap[w])
        /\ pc[w] \in {"save", "ack_save", "nack_save"}
        /\ \/ pc[w] = "save" /\ Goto(w, "lease")
           \/ pc[w] # "save" /\ \E step \in {"ack_del", "nack_zadd", "nack_del"} : Goto(w, step)
    BY <1>5, Zenon DEF DequeueSave, AckSave, NackSave, enqVars
  <2>2. /\ cur[w] \in Tasks /\ task'[cur[w]].val = snap[w]
        /\ \A t \in Tasks : t # cur[w] => task'[t] = task[t]
    BY <1>1, <2>1, Zenon DEF Save
  <2>3. \/ pc[w] = "save" /\ pc'[w] = "lease"
        \/ pc[w] # "save" /\ pc'[w] \in {"ack_del", "nack_zadd", "nack_del"}
    BY <1>3, <2>1, Zenon
  <2>4. pc[w] # "save" => task'[cur[w]].val.st \in {"completed", "retrying", "failed"}
    BY <1>2, <2>1, <2>2, Zenon DEF RecordOf
  <2>5. pc[w] # "save" => ~Unfinished(cur[w])'
    <3>1. SUFFICES ASSUME pc[w] # "save" PROVE Get(cur[w]).st' \notin {"queued", "running"}
      BY Zenon DEF Unfinished
    <3>2. cur'[w] = cur[w] /\ task'[cur[w]].val.st \in {"completed", "retrying", "failed"}
      BY <2>1, <2>4, <3>1, Zenon
    <3>3. Get(cur[w])' = task'[cur[w]].val \/ Get(cur[w])' = NoTask
      BY <3>2, Zenon DEF Get
    <3> QED
      BY <3>2, <3>3 DEF NoTask
  <2> QED
    BY <1>3, <2>1, <2>2, <2>3, <2>5, Zenon DEF HandMove, KeepsHand, Parting
<1>6. CASE \/ DequeueLease(w) \/ Execute(w) \/ AckDelete(w) \/ NackZadd(w) \/ AckGet(w)
           \/ DequeueGet(w) /\ pc'[w] = "save"
           \/ NackGet(w) /\ pc'[w] = "nack_save"
  <2>1. UNCHANGED <<now, queue, task, flag, epc>> /\ pc[w] # "pop"
    BY <1>6, Zenon DEF DequeueLease, Execute, AckDelete, NackZadd, AckGet, DequeueGet, NackGet,
                enqVars, redisVars
  <2>2. /\ cur' = cur
        /\ \/ \E step \in {"save", "exec", "ack_get", "nack_get", "ack_save", "nack_save"} : Goto(w, step)
           \/ Get(cur[w]).st = "none" /\ Goto(w, "ack_del")
           \/ Parting(w) /\ (Goto(w, "publish") \/ Goto(w, "nack_del"))
    <3>1. CASE DequeueLease(w) \/ Execute(w) \/ AckDelete(w) \/ NackZadd(w) \/ AckGet(w)
      BY <3>1 DEF DequeueLease, Execute, AckDelete, NackZadd, AckGet, Parting
    <3>2. CASE DequeueGet(w) /\ pc'[w] = "save"
      BY <1>3, <1>4, <3>2 DEF DequeueGet, NextPriority
    <3>3. CASE NackGet(w) /\ pc'[w] = "nack_save"
      BY <1>4, <3>3, Zenon DEF NackGet, Finish
    <3> QED
      BY <1>6, <3>1, <3>2, <3>3, Zenon
  <2>3. Unfinished(cur[w])' <=> Unfinished(cur[w])
    BY <2>1, <2>2, Zenon DEF Unfinished, Get
  <2>4. Get(cur[w]).st = "none" => ~Unfinished(cur[w])
    BY DEF Unfinished
  <2>5. pc'[w] # "pop" /\ (Parting(w)' => ~Unfinished(cur[w])')
    BY <1>2, <1>3, <2>2, <2>3, <2>4, SMTT(30) DEF Parting
  <2>6. \A v \in Workers : v # w => pc'[v] = pc[v] /\ cur'[v] = cur[v]
    BY <1>3, <2>2, Zenon
  <2> QED
    BY <2>1, <2>2, <2>5, <2>6, Zenon DEF HandMove, KeepsHand
<1>7. CASE \/ PopTimeout(w) \/ PublishCompleted(w) \/ NackDelete(w)
           \/ DequeueGet(w) /\ pc'[w] # "save"
           \/ NackGet(w) /\ pc'[w] # "nack_save"
  <2>1. UNCHANGED <<now, queue, task, flag, epc>>
    BY <1>7 DEF PopTimeout, PublishCompleted, NackDelete, DequeueGet, NackGet, enqVars, redisVars
  <2>2. /\ \E p : PollAt(w, p)
        /\ pc[w] = "pop" \/ Parting(w) \/ Get(cur[w]).st = "none"
    <3>1. pc[w] = "get" => Get(cur[w]).st \in {"queued", "none"}
      BY <1>2, Zenon DEF Get, NoTask
    <3>2. CASE PopTimeout(w) \/ PublishCompleted(w) \/ NackDelete(w)
      BY <3>2, Zenon DEF PopTimeout, PublishCompleted, NackDelete, NextPriority, Finish, Parting
    <3>3. CASE DequeueGet(w) /\ pc'[w] # "save"
      BY <1>3, <3>1, <3>3 DEF DequeueGet, NextPriority
    <3>4. CASE NackGet(w) /\ pc'[w] # "nack_save"
      BY <1>3, <3>4, Zenon DEF NackGet, Finish
    <3> QED
      BY <1>7, <3>2, <3>3, <3>4, Zenon
  <2>3. pc[w] # "pop" => ~Unfinished(cur[w])
    BY <1>2, <2>2, Zenon DEF Unfinished
  <2> QED
    BY <1>4, <2>1, <2>2, <2>3, Zenon DEF HandMove, LetsGo
<1>8. CASE Pop(w)
  <2>1. UNCHANGED <<now, task, flag, epc>> /\ pc[w] = "pop" /\ Goto(w, "get")
    BY <1>8, Zenon DEF Pop, enqVars
  <2>2. \A v \in Workers : v # w => cur'[v] = cur[v]
    BY <1>1, <1>8, Zenon DEF Pop
  <2>3. /\ \E id \in Tasks : cur'[w] = id /\ InQueue(id) /\ ~InQueue(id)'
        /\ \A t \in Tasks : InQueue(t)' => InQueue(t)
    BY <1>8, PopPlaces DEF CopyInv, OneCopy
  <2>4. \A t \in Tasks : InQueue(t) => t = cur'[w] \/ InQueue(t)'
    BY <1>8, PopLeaves DEF CopyInv
  <2> QED
    BY <1>3, <2>1, <2>2, <2>3, <2>4, Zenon DEF HandMove, TakesUp
<1> QED
  BY <1>1, <1>5, <1>6, <1>7, <1>8, Zenon DEF Worker, DequeueRequeue, TryFails, WorkerDies

\* So its steps lose no task,
LEMMA WorkerHands ==
    ASSUME CopyInv, HandInv, NeverLost, NEW w \in Workers, HandMove(w)
    PROVE  HandInv' /\ NeverLost'
<1>0. \A v \in Workers : pc[v] # "pop" => cur[v] \in Tasks
  BY DEF CopyInv, TypeOK, WorkerType
<1>1. NoFlags'
  BY DEF HandMove, HandInv, NoFlags
<1>2. \A t \in Tasks : task'[t] = task[t] => (Unfinished(t)' <=> Unfinished(t))
  BY DEF HandMove, Unfinished, Get
<1>3. CASE KeepsHand(w)
  <2>1. \A v \in Workers : cur'[v] = cur[v] \/ (pc[v] = "pop" /\ pc'[v] = "pop")
    BY <1>3, Zenon DEF HandMove, KeepsHand
  <2>2. \A v \in Workers : pc'[v] = "pop" <=> pc[v] = "pop"
    BY <1>3, Zenon DEF HandMove, KeepsHand
  <2>3. \A t : InQueue(t)' <=> InQueue(t)
    BY <1>3, Zenon DEF KeepsHand, InQueue
  <2>4. HeldAlone'
    BY <2>1, <2>2, <2>3 DEF HandInv, HeldAlone, HandMove
  <2>5. \A v \in Workers : v # w /\ pc[v] # "pop" => cur[v] # cur[w]
    BY <1>3, Zenon DEF HandInv, HeldAlone, KeepsHand
  <2>6. PartsSettled'
    <3>1. SUFFICES ASSUME NEW v \in Workers, Parting(v)' PROVE ~Unfinished(cur[v])'
      BY DEF PartsSettled
    <3>2. CASE v = w
      BY <1>3, <3>1, <3>2, Zenon DEF KeepsHand
    <3>3. CASE v # w
      <4>1. Parting(v) /\ cur'[v] = cur[v] /\ cur[v] \in Tasks /\ pc[v] # "pop"
        BY <1>0, <3>1, <3>3, Zenon DEF HandMove, Parting
      <4>2. task'[cur[v]] = task[cur[v]]
        BY <1>3, <2>5, <3>3, <4>1, Zenon DEF KeepsHand
      <4> QED
        BY <1>2, <4>1, <4>2, Zenon DEF HandInv, PartsSettled
    <3> QED
      BY <3>2, <3>3
  <2>7. NeverLost'
    <3>1. SUFFICES ASSUME NEW t \in Tasks, Unfinished(t)'
                   PROVE  epc'[t] = "push" \/ InQueue(t)' \/ \E v \in Workers : Holds(v, t)'
      BY Zenon DEF NeverLost, Unfinished
    <3>2. CASE t = cur[w]
      BY <1>3, <3>2, Zenon DEF KeepsHand, Holds
    <3>3. CASE t # cur[w]
      <4>1. Unfinished(t)
        BY <1>2, <1>3, <3>1, <3>3, Zenon DEF KeepsHand
      <4>2. epc[t] = "push" \/ InQueue(t) \/ \E v \in Workers : Holds(v, t)
        BY <4>1 DEF NeverLost, Unfinished
      <4> QED
        BY <2>1, <2>2, <2>3, <4>2, Zenon DEF Holds, HandMove
    <3> QED
      BY <3>2, <3>3
  <2> QED
    BY <1>1, <2>4, <2>6, <2>7 DEF HandInv
<1>4. CASE LetsGo(w)
  <2>1. \A t : InQueue(t)' <=> InQueue(t)
    BY <1>4 DEF LetsGo, InQueue
  <2>2. \A v \in Workers : pc'[v] # "pop" => v # w /\ pc[v] = pc'[v] /\ cur'[v] = cur[v]
    BY <1>4, Zenon DEF LetsGo, HandMove
  <2>3. HeldAlone'
    BY <2>1, <2>2 DEF HandInv, HeldAlone, HandMove
  <2>4. \A t \in Tasks : Unfinished(t)' <=> Unfinished(t)
    BY <1>2, <1>4, Zenon DEF LetsGo
  <2>5. PartsSettled'
    BY <1>0, <2>2, <2>4, Zenon DEF HandInv, PartsSettled, Parting
  <2>6. ASSUME NEW t \in Tasks, Unfinished(t)
        PROVE  epc'[t] = "push" \/ InQueue(t)' \/ \E v \in Workers : Holds(v, t)'
    <3>1. ~Holds(w, t)
      BY <1>4, <2>6, Zenon DEF LetsGo, Holds
    <3>2. \A v \in Workers : v # w /\ Holds(v, t) => Holds(v, t)'
      BY DEF HandMove, Holds
    <3>3. epc[t] = "push" \/ InQueue(t) \/ \E v \in Workers : Holds(v, t)
      BY <2>6 DEF NeverLost, Unfinished
    <3> QED
      BY <2>1, <3>1, <3>2, <3>3, Zenon DEF HandMove
  <2>7. NeverLost'
    BY <2>4, <2>6, Zenon DEF NeverLost, Unfinished
  <2> QED
    BY <1>1, <2>3, <2>5, <2>7 DEF HandInv
<1>5. CASE TakesUp(w)
  <2>1. PICK id \in Tasks :
           /\ cur'[w] = id /\ InQueue(id) /\ ~InQueue(id)'
           /\ \A t \in Tasks : t # id => (InQueue(t)' <=> InQueue(t))
    BY <1>5, Zenon DEF TakesUp
  <2>2. epc[id] = "done"
    BY <2>1, Zenon DEF CopyInv, OneCopy, EnqueuerAlone, TypeOK, EnqueueType, HandInv, NoFlags
  <2>3. \A v \in Workers : pc[v] # "pop" => v # w /\ cur[v] # id /\ cur[v] \in Tasks
    BY <1>0, <1>5, <2>1, Zenon DEF TakesUp, HandInv, HeldAlone
  <2>4. \A v \in Workers : v # w => pc'[v] = pc[v] /\ cur'[v] = cur[v]
    BY Zenon DEF HandMove
  <2>5. HeldAlone'
    BY <1>5, <2>1, <2>2, <2>3, <2>4, SMTT(30) DEF TakesUp, HandInv, HeldAlone, HandMove
  <2>6. \A t \in Tasks : Unfinished(t)' <=> Unfinished(t)
    BY <1>2, <1>5, Zenon DEF TakesUp
  <2>7. PartsSettled'
    BY <1>5, <2>3, <2>4, <2>6, Zenon DEF TakesUp, HandInv, PartsSettled, Parting
  <2>8. ASSUME NEW t \in Tasks, Unfinished(t)
        PROVE  epc'[t] = "push" \/ InQueue(t)' \/ \E v \in Workers : Holds(v, t)'
    <3>1. CASE t = id
      BY <1>5, <2>1, <3>1, Zenon DEF TakesUp, Holds
    <3>2. CASE t # id
      <4>1. InQueue(t)' <=> InQueue(t)
        BY <2>1, <3>2
      <4>2. \A v \in Workers : Holds(v, t) => Holds(v, t)'
        BY <2>3, <2>4, Zenon DEF Holds
      <4>3. epc[t] = "push" \/ InQueue(t) \/ \E v \in Workers : Holds(v, t)
        BY <2>8 DEF NeverLost, Unfinished
      <4> QED
        BY <4>1, <4>2, <4>3, Zenon DEF HandMove
    <3> QED
      BY <3>1, <3>2
  <2>9. NeverLost'
    BY <2>6, <2>8, Zenon DEF NeverLost, Unfinished
  <2> QED
    BY <1>1, <2>5, <2>7, <2>9 DEF HandInv
<1> QED
  BY <1>3, <1>4, <1>5 DEF HandMove

\* nor do those of enqueue without a delay.
LEMMA EnqueueHands ==
    ASSUME MayFail = FALSE, Delays \subseteq {0}, CopyInv, HandInv, NeverLost,
           NEW id \in Tasks, Enqueue(id) \/ EnqueueDies(id)
    PROVE  HandInv' /\ NeverLost'
<1>0. /\ \A v \in Workers : pc[v] # "pop" => cur[v] \in Tasks
      /\ DOMAIN epc = Tasks /\ DOMAIN task = Tasks
  BY DEF CopyInv, TypeOK, WorkerType, EnqueueType, RedisType
<1>1. EnqueueSave(id) \/ EnqueuePush(id)
  BY Zenon DEF Enqueue, EnqueueDies, EnqueueZadd, EnqueueFlag, HandInv, NoFlags
<1>2. UNCHANGED <<now, flag, pc, cur>>
  BY <1>1, Zenon DEF EnqueueSave, EnqueuePush, workerVars
<1>3. \A v \in Workers : pc[v] # "pop" => cur[v] # id
  BY <1>1, Zenon DEF EnqueueSave, EnqueuePush, HandInv, HeldAlone
<1>4. /\ epc'[id] \in {"push", "done"}
      /\ \A t \in Tasks : t # id => epc'[t] = epc[t]
      /\ \A t \in Tasks : t # id => task'[t] = task[t]
  <2>1. CASE EnqueueSave(id)
    <3>1. PICK d \in Delays : epc' = [epc EXCEPT ![id] = IF d > 0 THEN "zadd" ELSE "push"]
      BY <2>1, Zenon DEF EnqueueSave
    <3>2. ~(d > 0)
      BY <3>1
    <3> QED
      BY <1>0, <2>1, <3>1, <3>2, Zenon DEF EnqueueSave, Save
  <2>2. CASE EnqueuePush(id)
    BY <1>0, <2>2, Zenon DEF EnqueuePush
  <2> QED
    BY <1>1, <2>1, <2>2, Zenon
<1>5. /\ \A t \in Tasks : t # id => (InQueue(t)' <=> InQueue(t))
      /\ epc'[id] = "push" \/ InQueue(id)'
  <2>1. CASE EnqueueSave(id)
    <3>1. UNCHANGED queue
      BY <2>1 DEF EnqueueSave
    <3>2. \A t : InQueue(t)' <=> InQueue(t)
      BY <3>1 DEF InQueue
    <3>3. PICK d \in Delays : epc' = [epc EXCEPT ![id] = IF d > 0 THEN "zadd" ELSE "push"]
      BY <2>1, Zenon DEF EnqueueSave
    <3>4. epc'[id] = "push"
      BY <1>0, <3>3
    <3> QED
      BY <3>2, <3>4
  <2>2. CASE EnqueuePush(id)
    <3>1. epc[id] = "push" /\ LPush(id)
      BY <2>2, Zenon DEF EnqueuePush
    <3>2. RedisType /\ ListedOnce /\ EnqueuerAlone
      BY Zenon DEF CopyInv, TypeOK, OneCopy
    <3>3. ~InQueue(id)
      BY <3>1, <3>2, Zenon DEF EnqueuerAlone
    <3>4. \A t \in Tasks : InQueue(t)' <=> InQueue(t) \/ t = id
      BY <3>1, <3>2, <3>3, LPushPlaces, Zenon
    <3> QED
      BY <3>4, Zenon
  <2> QED
    BY <1>1, <2>1, <2>2, Zenon
<1>6. \A t \in Tasks : t # id => (Unfinished(t)' <=> Unfinished(t))
  BY <1>2, <1>4, Zenon DEF Unfinished, Get
<1>7. NoFlags'
  BY <1>2, <1>4 DEF HandInv, NoFlags
<1>8. HeldAlone'
  BY <1>0, <1>2, <1>3, <1>4, <1>5, Zenon DEF HandInv, HeldAlone
<1>9. PartsSettled'
  <2>1. SUFFICES ASSUME NEW v \in Workers, Parting(v)' PROVE ~Unfinished(cur[v])'
    BY DEF PartsSettled
  <2>2. Parting(v) /\ cur'[v] = cur[v] /\ cur[v] \in Tasks /\ cur[v] # id
    BY <1>0, <1>2, <1>3, <2>1, Zenon DEF Parting
  <2> QED
    BY <1>6, <2>2, Zenon DEF HandInv, PartsSettled
<1>10. ASSUME NEW t \in Tasks, Unfinished(t)'
       PROVE  epc'[t] = "push" \/ InQueue(t)' \/ \E v \in Workers : Holds(v, t)'
  <2>1. CASE t = id
    BY <1>5, <2>1
  <2>2. CASE t # id
    <3>1. epc[t] = "push" \/ InQueue(t) \/ \E v \in Workers : Holds(v, t)
      BY <1>6, <1>10, <2>2 DEF NeverLost, Unfinished
    <3> QED
      BY <1>2, <1>4, <1>5, <2>2, <3>1, Zenon DEF Holds
  <2> QED
    BY <2>1, <2>2
<1>11. NeverLost'
  BY <1>10, Zenon DEF NeverLost, Unfinished
<1> QED
  BY <1>7, <1>8, <1>9, <1>11 DEF HandInv

\* Whatever keeps the lists, the flags and the workers and finishes no less,
\* loses nothing: a tick, and a process_delayed that finds no flag.
LEMMA QuietHands ==
    ASSUME CopyInv, HandInv, NeverLost, UNCHANGED <<flag, epc, pc, cur>>,
           \A t \in Tasks : InQueue(t)' <=> InQueue(t),
           \A t \in Tasks : Unfinished(t)' => Unfinished(t)
    PROVE  HandInv' /\ NeverLost'
<1>0. \A v \in Workers : pc[v] # "pop" => cur[v] \in Tasks
  BY DEF CopyInv, TypeOK, WorkerType
<1>1. NoFlags'
  BY DEF HandInv, NoFlags
<1>2. HeldAlone'
  BY <1>0, Zenon DEF HandInv, HeldAlone
<1>3. PartsSettled'
  BY <1>0, Zenon DEF HandInv, PartsSettled, Parting
<1>4. ASSUME NEW t \in Tasks, Unfinished(t)'
      PROVE  epc'[t] = "push" \/ InQueue(t)' \/ \E v \in Workers : Holds(v, t)'
  BY <1>4, Zenon DEF NeverLost, Unfinished, Holds
<1>5. NeverLost'
  BY <1>4, Zenon DEF NeverLost, Unfinished
<1> QED
  BY <1>1, <1>2, <1>3, <1>5 DEF HandInv

\* No step loses a task.
LEMMA HandsKeep ==
    ASSUME Sweepers = {}, MayFail = FALSE, Delays \subseteq {0},
           CopyInv, RecordInv, HandInv, NeverLost, [Next]_vars
    PROVE  HandInv' /\ NeverLost'
<1>1. CASE Tick
  <2>1. UNCHANGED <<task, queue, flag, epc, pc, cur>> /\ now' = now + 1
    BY <1>1 DEF Tick, redisVars, enqVars, workerVars
  <2>2. \A t \in Tasks : InQueue(t)' <=> InQueue(t)
    BY <2>1 DEF InQueue
  <2>3. \A t \in Tasks : now + 1 < task[t].dies => now < task[t].dies
    BY DEF CopyInv, TypeOK, RedisType
  <2>4. \A t \in Tasks : Unfinished(t)' => Unfinished(t)
    BY <2>1, <2>3, Zenon DEF Unfinished, Get, NoTask
  <2> QED
    BY <2>1, <2>2, <2>4, QuietHands, Zenon
<1>2. CASE UNCHANGED vars
  <2>1. UNCHANGED <<now, task, queue, flag, epc, pc, cur>>
    BY <1>2 DEF vars, redisVars, enqVars, workerVars
  <2>2. /\ \A t \in Tasks : InQueue(t)' <=> InQueue(t)
        /\ \A t \in Tasks : Unfinished(t)' => Unfinished(t)
    BY <2>1, Zenon DEF InQueue, Unfinished, Get
  <2> QED
    BY <2>1, <2>2, QuietHands, Zenon
<1>3. CASE ProcessDelayed
  <2>0. \A t \in Tasks : ~HasFlag(t)
    BY DEF HasFlag, HandInv, NoFlags, CopyInv, TypeOK, RedisType
  <2>1. FlaggedIds = {} /\ MovedIds = {}
    BY <2>0 DEF FlaggedIds, MovedIds, DueIds
  <2>2. UNCHANGED <<now, epc, pc, cur>> /\ \A t \in Tasks : flag'[t] = flag[t] /\ task'[t] = task[t]
    BY <1>3, <2>1 DEF ProcessDelayed, enqVars, workerVars
  <2>3. \A t \in Tasks : InQueue(t)' <=> InQueue(t)
    BY <1>3, <2>1, ProcessDelayedPlaces DEF CopyInv, OneCopy
  <2>4. \A t \in Tasks : Unfinished(t)' => Unfinished(t)
    BY <2>2, Zenon DEF Unfinished, Get
  <2>5. UNCHANGED flag
    BY <1>3, <2>1 DEF ProcessDelayed, CopyInv, TypeOK, RedisType
  <2> QED
    BY <2>2, <2>3, <2>4, <2>5, QuietHands, Zenon
<1>4. ASSUME NEW t \in Tasks, Enqueue(t) \/ EnqueueDies(t) PROVE HandInv' /\ NeverLost'
  BY <1>4, EnqueueHands, Zenon
<1>5. ASSUME NEW w \in Workers, Worker(w) \/ TryFails(w) \/ WorkerDies(w)
      PROVE  HandInv' /\ NeverLost'
  <2>1. HandMove(w)
    BY <1>5, HandMoves, Zenon
  <2> QED
    BY <2>1, WorkerHands
<1> QED
  BY <1>1, <1>2, <1>3, <1>4, <1>5, Zenon DEF Next

\* While a task's record says queued or running, somebody has its id: the
\* enqueue call that is about to push it, one of the lists, or a worker.  The
\* dequeue, ack and nack of any number of workers never drop it in between.
THEOREM NothingLost ==
    ASSUME Sweepers = {}, MayFail = FALSE, Delays \subseteq {0}
    PROVE  Spec => []NeverLost
<1>1. Init => HandInv /\ NeverLost
  BY SMTT(30), Zenon DEF Init, HandInv, NoFlags, HeldAlone, PartsSettled, Parting, NeverLost, Get, NoKey, NoTask
<1>2. CopyInv /\ RecordInv /\ [Next]_vars => RecordInv'
  BY RecordKeeps, Zenon
<1>3. CopyInv /\ RecordInv /\ HandInv /\ NeverLost /\ [Next]_vars => HandInv' /\ NeverLost'
  BY HandsKeep, Zenon
<1> QED
  BY <1>1, <1>2, <1>3, CopyAlways, RecordStarts, PTL DEF Spec
=============================================================================
