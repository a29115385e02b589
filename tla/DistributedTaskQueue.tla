------------------------ MODULE DistributedTaskQueue ------------------------
(***************************************************************************)
(* The Redis task queue of app/distributed/distributed_queue.py, the       *)
(* process_delayed script of app/distributed/redis_client.py and the       *)
(* worker of app/worker.py that consumes from it.                          *)
(*                                                                         *)
(* Every awaited Redis command is one atomic step, and so is a Lua script. *)
(* What a coroutine read before an await it still holds after it (snap,    *)
(* sweepSnap, due, ...): the interleavings of these steps are the model.   *)
(* A key with a TTL is stored with the time it dies and is there as long   *)
(* as now is smaller; 0 stands for a key that is not there.                *)
(***************************************************************************)
EXTENDS Integers, Sequences, FiniteSets

CONSTANTS
    Tasks,        \* task ids handed out by enqueue
    None,         \* no task id
    Workers,      \* poll loops of all worker processes
    Sweepers,     \* callers of requeue_expired
    MaxPriority,  \* highest priority polled by dequeue (10 in the code)
    PriorityOf,   \* priority given to enqueue for each task, any integer
    MaxRetries,   \* max_retries given to enqueue
    Delays,       \* delay arguments given to enqueue, 0 for none
    BackoffCap,   \* cap of the retry backoff of nack (60 s)
    Visibility,   \* visibility_timeout
    LeaseGrace,   \* seconds a lease key outlives its lease (10)
    FlagGrace,    \* seconds the ":delayed" flag outlives the delay (60)
    TaskTTL,      \* TASK_TTL
    MaxTime,      \* bound on the clock
    Outcomes,     \* what TaskWorker.execute does: "ok" returns, "error" raises
    MayFail       \* whether coroutines die and Redis calls raise half way

ASSUME QueueAssumptions ==
    /\ IsFiniteSet(Tasks) /\ Cardinality(Tasks) \in Nat /\ None \notin Tasks
    /\ MaxPriority \in Nat /\ PriorityOf \in [Tasks -> Int]
    /\ MaxRetries \in Nat /\ Delays \subseteq Nat /\ BackoffCap \in Nat \ {0}
    /\ Visibility \in Nat \ {0} /\ LeaseGrace \in Nat /\ FlagGrace \in Nat
    /\ TaskTTL \in Nat /\ MaxTime \in Nat
    /\ Outcomes \subseteq {"ok", "error"} /\ MayFail \in BOOLEAN

VARIABLES
    now,        \* time.time()
    task,       \* dist_task:<id>
    queue,      \* dist_queue:<priority>, the next id to pop first
    delayed,    \* dist_delayed: score of each id, 0 when not a member
    flag,       \* dist_task:<id>:delayed, the time the flag dies
    lease,      \* dist_lease:<id>
    epc,        \* where the enqueue call of each task is
    delay,      \* the delay argument of that call
    due,        \* its exec_at
    pc,         \* where each poll loop is
    prio,       \* loop variable of dequeue
    cur,        \* task id in the hands of the poll loop
    snap,       \* DistributedTask object it will write back
    until,      \* lease_expires_at, or the exec_at of a retry
    spc,        \* where each requeue_expired call is
    sweepNow,   \* its now, read once at the start
    sweepKeys,  \* lease keys of its scan not handled yet
    sweepCur,   \* the key being handled
    sweepSnap   \* the task it will write back

redisVars  == <<task, queue, delayed, flag, lease>>
enqVars    == <<epc, delay, due>>
workerVars == <<pc, prio, cur, snap, until>>
sweepVars  == <<spc, sweepNow, sweepKeys, sweepCur, sweepSnap>>
vars       == <<now, redisVars, enqVars, workerVars, sweepVars>>

\* The lists dequeue polls, and all there are: enqueue checks no priority.
Polled     == 0..MaxPriority
Priorities == Polled \cup {PriorityOf[t] : t \in Tasks}
TaskObject == [st: {"none", "queued", "running", "completed", "failed", "retrying"},
               retries: Nat]
NoTask     == [st |-> "none", retries |-> 0]
NoKey      == [val |-> NoTask, dies |-> 0]
NoLease    == [exp |-> 0, dies |-> 0]

\* now + d. Beyond the last tick all times are alike, so they are kept as one.
Later(d) == IF now + d <= MaxTime THEN now + d ELSE MaxTime + 1

\* min(2 ** retry_count, 60)
Backoff(n) == IF 2^n \in 0..BackoffCap THEN 2^n ELSE BackoffCap

\* _get_task and _save_task
Get(t)       == IF now < task[t].dies THEN task[t].val ELSE NoTask
Save(t, obj) == task' = [task EXCEPT ![t] = [val |-> obj, dies |-> Later(TaskTTL)]]

\* _requeue: LPUSH at one end, BRPOP at the other
LPush(t) == queue' = [queue EXCEPT ![PriorityOf[t]] = Append(@, t)]

Has(seq, t) == \E i \in DOMAIN seq : seq[i] = t
InQueue(t)  == \E p \in Priorities : Has(queue[p], t)
HasLease(t) == now < lease[t].dies
HasFlag(t)  == now < flag[t]
-----------------------------------------------------------------------------
Init ==
    /\ now = 0
    /\ task = [t \in Tasks |-> NoKey]
    /\ queue = [p \in Priorities |-> <<>>]
    /\ delayed = [t \in Tasks |-> 0]
    /\ flag = [t \in Tasks |-> 0]
    /\ lease = [t \in Tasks |-> NoLease]
    /\ epc = [t \in Tasks |-> "new"]
    /\ delay = [t \in Tasks |-> 0]
    /\ due = [t \in Tasks |-> 0]
    /\ pc = [w \in Workers |-> "pop"]
    /\ prio = [w \in Workers |-> MaxPriority]
    /\ cur = [w \in Workers |-> None]
    /\ snap = [w \in Workers |-> NoTask]
    /\ until = [w \in Workers |-> 0]
    /\ spc = [s \in Sweepers |-> "idle"]
    /\ sweepNow = [s \in Sweepers |-> 0]
    /\ sweepKeys = [s \in Sweepers |-> {}]
    /\ sweepCur = [s \in Sweepers |-> None]
    /\ sweepSnap = [s \in Sweepers |-> NoTask]

Tick ==
    /\ now < MaxTime
    /\ now' = now + 1
    /\ UNCHANGED <<redisVars, enqVars, workerVars, sweepVars>>
-----------------------------------------------------------------------------
(* enqueue: save the task, then push it, or schedule it and then flag it. *)

EnqueueSave(t) ==
    /\ epc[t] = "new"
    /\ \E d \in Delays :
          /\ delay' = [delay EXCEPT ![t] = d]
          /\ due' = [due EXCEPT ![t] = Later(d)]
          /\ epc' = [epc EXCEPT ![t] = IF d > 0 THEN "zadd" ELSE "push"]
    /\ Save(t, [st |-> "queued", retries |-> 0])
    /\ UNCHANGED <<now, queue, delayed, flag, lease, workerVars, sweepVars>>

EnqueuePush(t) ==
    /\ epc[t] = "push"
    /\ LPush(t)
    /\ epc' = [epc EXCEPT ![t] = "done"]
    /\ UNCHANGED <<now, task, delayed, flag, lease, delay, due, workerVars, sweepVars>>

EnqueueZadd(t) ==
    /\ epc[t] = "zadd"
    /\ delayed' = [delayed EXCEPT ![t] = due[t]]
    /\ epc' = [epc EXCEPT ![t] = "flag"]
    /\ UNCHANGED <<now, task, queue, flag, lease, delay, due, workerVars, sweepVars>>

EnqueueFlag(t) ==
    /\ epc[t] = "flag"
    /\ flag' = [flag EXCEPT ![t] = Later(delay[t] + FlagGrace)]
    /\ epc' = [epc EXCEPT ![t] = "done"]
    /\ UNCHANGED <<now, task, queue, delayed, lease, delay, due, workerVars, sweepVars>>

\* A Redis call of enqueue raises, or its process dies, after the save.
EnqueueDies(t) ==
    /\ MayFail
    /\ epc[t] \in {"push", "zadd", "flag"}
    /\ epc' = [epc EXCEPT ![t] = "done"]
    /\ UNCHANGED <<now, redisVars, delay, due, workerVars, sweepVars>>
-----------------------------------------------------------------------------
(* process_delayed: one atomic script over the members that are due, in the *)
(* order of their scores. An id without its flag is only removed.           *)

Orders(S) ==
    {f \in UNION {[1..n -> S] : n \in 0..Cardinality(Tasks)} :
        /\ \A t \in S : \E i \in DOMAIN f : f[i] = t
        /\ \A i, j \in DOMAIN f : f[i] = f[j] => i = j
        /\ \A i, j \in DOMAIN f : i < j => delayed[f[i]] <= delayed[f[j]]}

DueIds     == {t \in Tasks : delayed[t] # 0 /\ delayed[t] <= now}
FlaggedIds == {t \in DueIds : HasFlag(t)}
MovedIds   == {t \in FlaggedIds : Get(t).st \in {"queued", "retrying"}}

ProcessDelayed ==
    /\ DueIds # {}
    /\ delayed' = [t \in Tasks |-> IF t \in DueIds THEN 0 ELSE delayed[t]]
    /\ flag' = [t \in Tasks |-> IF t \in FlaggedIds THEN 0 ELSE flag[t]]
    /\ task' = [t \in Tasks |->
                  IF t \in MovedIds
                  THEN [val |-> [task[t].val EXCEPT !.st = "queued"], dies |-> Later(TaskTTL)]
                  ELSE task[t]]
    /\ \E order \in [Priorities -> UNION {Orders(S) : S \in SUBSET MovedIds}] :
          /\ \A p \in Priorities : order[p] \in Orders({t \in MovedIds : PriorityOf[t] = p})
          /\ queue' = [p \in Priorities |-> queue[p] \o order[p]]
    /\ UNCHANGED <<now, lease, enqVars, workerVars, sweepVars>>
-----------------------------------------------------------------------------
(* dequeue, and the process_one of a worker's poll loop around it. *)

Goto(w, step) == pc' = [pc EXCEPT ![w] = step]

\* The poll loop drops what it holds and goes on polling at priority p.
PollAt(w, p) ==
    /\ Goto(w, "pop")
    /\ prio' = [prio EXCEPT ![w] = p]
    /\ cur' = [cur EXCEPT ![w] = None]
    /\ snap' = [snap EXCEPT ![w] = NoTask]
    /\ until' = [until EXCEPT ![w] = 0]

\* Mutant: the loop runs one priority too far.
NextPriorityTooFar(w) == PollAt(w, IF prio[w] >= 0 THEN prio[w] - 1 ELSE MaxPriority)

\* Mutant: the loop stops one priority too early.
NextPriorityTooShort(w) == PollAt(w, IF prio[w] > 1 THEN prio[w] - 1 ELSE MaxPriority)

\* The next iteration of dequeue, or its end and a new process_one.
NextPriority(w) == PollAt(w, IF prio[w] > 0 THEN prio[w] - 1 ELSE MaxPriority)

Finish(w) == PollAt(w, MaxPriority)

PopTimeout(w) ==
    /\ pc[w] = "pop" /\ queue[prio[w]] = <<>>
    /\ NextPriority(w)
    /\ UNCHANGED <<now, redisVars, enqVars, sweepVars>>

\* Mutant: the id is read and not removed.
PopPeeks(w) ==
    /\ pc[w] = "pop" /\ queue[prio[w]] # <<>>
    /\ cur' = [cur EXCEPT ![w] = Head(queue[prio[w]])]
    /\ Goto(w, "get")
    /\ UNCHANGED <<now, redisVars, enqVars, prio, snap, until, sweepVars>>

Pop(w) ==
    /\ pc[w] = "pop" /\ queue[prio[w]] # <<>>
    /\ cur' = [cur EXCEPT ![w] = Head(queue[prio[w]])]
    /\ queue' = [queue EXCEPT ![prio[w]] = Tail(@)]
    /\ Goto(w, "get")
    /\ UNCHANGED <<now, task, delayed, flag, lease, enqVars, prio, snap, until, sweepVars>>

DequeueGet(w) ==
    /\ pc[w] = "get"
    /\ \/ /\ Get(cur[w]).st = "queued"
          /\ snap' = [snap EXCEPT ![w] = [Get(cur[w]) EXCEPT !.st = "running"]]
          /\ until' = [until EXCEPT ![w] = Later(Visibility)]
          /\ Goto(w, "save")
          /\ UNCHANGED <<prio, cur>>
       \/ /\ Get(cur[w]).st \notin {"queued", "none"}
          /\ Goto(w, "push")
          /\ UNCHANGED <<prio, cur, snap, until>>
       \/ /\ Get(cur[w]).st = "none"
          /\ NextPriority(w)
    /\ UNCHANGED <<now, redisVars, enqVars, sweepVars>>

DequeueRequeue(w) ==
    /\ pc[w] = "push"
    /\ LPush(cur[w])
    /\ NextPriority(w)
    /\ UNCHANGED <<now, task, delayed, flag, lease, enqVars, sweepVars>>

DequeueSave(w) ==
    /\ pc[w] = "save"
    /\ Save(cur[w], snap[w])
    /\ Goto(w, "lease")
    /\ UNCHANGED <<now, queue, delayed, flag, lease, enqVars, prio, cur, snap, until, sweepVars>>

DequeueLease(w) ==
    /\ pc[w] = "lease"
    /\ lease' = [lease EXCEPT ![cur[w]] =
                    [exp |-> until[w], dies |-> Later(Visibility + LeaseGrace)]]
    /\ Goto(w, "exec")
    /\ UNCHANGED <<now, task, queue, delayed, flag, enqVars, prio, cur, snap, until, sweepVars>>

Execute(w) ==
    /\ pc[w] = "exec"
    /\ \/ "ok" \in Outcomes /\ Goto(w, "ack_get")
       \/ "error" \in Outcomes /\ Goto(w, "nack_get")
    /\ UNCHANGED <<now, redisVars, enqVars, prio, cur, snap, until, sweepVars>>

\* A Redis call inside the try raises: except Exception calls nack.
TryFails(w) ==
    /\ MayFail
    /\ pc[w] \in {"ack_get", "ack_save", "ack_del", "publish"}
    /\ Goto(w, "nack_get")
    /\ UNCHANGED <<now, redisVars, enqVars, prio, cur, snap, until, sweepVars>>

\* The worker is killed, its poll loop cancelled, or a call outside the try
\* raises: what it holds is forgotten and the (restarted) loop polls again.
WorkerDies(w) ==
    /\ MayFail
    /\ pc[w] # "pop"
    /\ Finish(w)
    /\ UNCHANGED <<now, redisVars, enqVars, sweepVars>>
-----------------------------------------------------------------------------
(* ack and nack *)

\* Mutant: ack gives the lease back and does not save the outcome.
AckGetUnsaved(w) ==
    /\ pc[w] = "ack_get" /\ Goto(w, "ack_del")
    /\ UNCHANGED <<now, redisVars, enqVars, prio, cur, snap, until, sweepVars>>

AckGet(w) ==
    /\ pc[w] = "ack_get"
    /\ \/ /\ Get(cur[w]).st # "none"
          /\ snap' = [snap EXCEPT ![w] = [Get(cur[w]) EXCEPT !.st = "completed"]]
          /\ Goto(w, "ack_save")
       \/ /\ Get(cur[w]).st = "none"
          /\ Goto(w, "ack_del")
          /\ UNCHANGED snap
    /\ UNCHANGED <<now, redisVars, enqVars, prio, cur, until, sweepVars>>

AckSave(w) ==
    /\ pc[w] = "ack_save"
    /\ Save(cur[w], snap[w])
    /\ Goto(w, "ack_del")
    /\ UNCHANGED <<now, queue, delayed, flag, lease, enqVars, prio, cur, snap, until, sweepVars>>

\* Mutant: the worker nacks in a finally clause, after an ack too.
AckDeleteThenNack(w) ==
    /\ pc[w] = "ack_del"
    /\ lease' = [lease EXCEPT ![cur[w]] = NoLease]
    /\ Goto(w, "nack_get")
    /\ UNCHANGED <<now, task, queue, delayed, flag, enqVars, prio, cur, snap, until, sweepVars>>

AckDelete(w) ==
    /\ pc[w] = "ack_del"
    /\ lease' = [lease EXCEPT ![cur[w]] = NoLease]
    /\ Goto(w, "publish")
    /\ UNCHANGED <<now, task, queue, delayed, flag, enqVars, prio, cur, snap, until, sweepVars>>

PublishCompleted(w) ==
    /\ pc[w] = "publish"
    /\ Finish(w)
    /\ UNCHANGED <<now, redisVars, enqVars, sweepVars>>

NackGet(w) ==
    /\ pc[w] = "nack_get"
    /\ LET obj == Get(cur[w])
           n   == obj.retries + 1
       IN  \/ /\ obj.st = "none"
              /\ Finish(w)
           \/ /\ obj.st # "none"
              /\ snap' = [snap EXCEPT ![w] =
                            [st |-> IF n < MaxRetries THEN "retrying" ELSE "failed",
                             retries |-> n]]
              /\ Goto(w, "nack_save")
              /\ UNCHANGED <<prio, cur, until>>
    /\ UNCHANGED <<now, redisVars, enqVars, sweepVars>>

NackSave(w) ==
    /\ pc[w] = "nack_save"
    /\ Save(cur[w], snap[w])
    /\ \/ /\ snap[w].st = "retrying"
          /\ until' = [until EXCEPT ![w] = Later(Backoff(snap[w].retries))]
          /\ Goto(w, "nack_zadd")
       \/ /\ snap[w].st = "failed"
          /\ Goto(w, "nack_del")
          /\ UNCHANGED until
    /\ UNCHANGED <<now, queue, delayed, flag, lease, enqVars, prio, cur, snap, sweepVars>>

\* Mutant: a retry goes straight to the list.
NackPushes(w) ==
    /\ pc[w] = "nack_zadd"
    /\ LPush(cur[w])
    /\ Goto(w, "nack_del")
    /\ UNCHANGED <<now, task, delayed, flag, lease, enqVars, prio, cur, snap, until, sweepVars>>

NackZadd(w) ==
    /\ pc[w] = "nack_zadd"
    /\ delayed' = [delayed EXCEPT ![cur[w]] = until[w]]
    /\ Goto(w, "nack_del")
    /\ UNCHANGED <<now, task, queue, flag, lease, enqVars, prio, cur, snap, until, sweepVars>>

NackDelete(w) ==
    /\ pc[w] = "nack_del"
    /\ lease' = [lease EXCEPT ![cur[w]] = NoLease]
    /\ Finish(w)
    /\ UNCHANGED <<now, task, queue, delayed, flag, enqVars, sweepVars>>
-----------------------------------------------------------------------------
(* requeue_expired: scan the lease keys, then handle them one by one. *)

SweepStart(s) ==
    /\ spc[s] = "idle"
    /\ sweepNow' = [sweepNow EXCEPT ![s] = now]
    /\ spc' = [spc EXCEPT ![s] = "scan"]
    /\ UNCHANGED <<now, redisVars, enqVars, workerVars, sweepKeys, sweepCur, sweepSnap>>

SweepScan(s) ==
    /\ spc[s] = "scan"
    /\ sweepKeys' = [sweepKeys EXCEPT ![s] = {t \in Tasks : HasLease(t)}]
    /\ spc' = [spc EXCEPT ![s] = "next"]
    /\ UNCHANGED <<now, redisVars, enqVars, workerVars, sweepNow, sweepCur, sweepSnap>>

\* Mutant: every lease found is taken for an expired one.
SweepLeaseUnchecked(s) ==
    /\ spc[s] = "next"
    /\ \E t \in sweepKeys[s] :
          /\ sweepKeys' = [sweepKeys EXCEPT ![s] = @ \ {t}]
          /\ sweepCur' = [sweepCur EXCEPT ![s] = t]
          /\ spc' = [spc EXCEPT ![s] = "get"]
    /\ UNCHANGED <<now, redisVars, enqVars, workerVars, sweepNow, sweepSnap>>

SweepLease(s) ==
    /\ spc[s] = "next"
    /\ \E t \in sweepKeys[s] :
          /\ sweepKeys' = [sweepKeys EXCEPT ![s] = @ \ {t}]
          /\ \/ /\ HasLease(t) /\ lease[t].exp < sweepNow[s]
                /\ sweepCur' = [sweepCur EXCEPT ![s] = t]
                /\ spc' = [spc EXCEPT ![s] = "get"]
             \/ /\ ~(HasLease(t) /\ lease[t].exp < sweepNow[s])
                /\ UNCHANGED <<spc, sweepCur>>
    /\ UNCHANGED <<now, redisVars, enqVars, workerVars, sweepNow, sweepSnap>>

\* On to the next key.
SweepNext(s) ==
    /\ spc' = [spc EXCEPT ![s] = "next"]
    /\ sweepCur' = [sweepCur EXCEPT ![s] = None]
    /\ sweepSnap' = [sweepSnap EXCEPT ![s] = NoTask]

SweepGet(s) ==
    /\ spc[s] = "get"
    /\ \/ /\ Get(sweepCur[s]).st = "running"
          /\ sweepSnap' = [sweepSnap EXCEPT ![s] = [Get(sweepCur[s]) EXCEPT !.st = "queued"]]
          /\ spc' = [spc EXCEPT ![s] = "save"]
          /\ UNCHANGED sweepCur
       \/ /\ Get(sweepCur[s]).st # "running"
          /\ SweepNext(s)
    /\ UNCHANGED <<now, redisVars, enqVars, workerVars, sweepNow, sweepKeys>>

SweepSave(s) ==
    /\ spc[s] = "save"
    /\ Save(sweepCur[s], sweepSnap[s])
    /\ spc' = [spc EXCEPT ![s] = "push"]
    /\ UNCHANGED <<now, queue, delayed, flag, lease, enqVars, workerVars,
                   sweepNow, sweepKeys, sweepCur, sweepSnap>>

SweepPush(s) ==
    /\ spc[s] = "push"
    /\ LPush(sweepCur[s])
    /\ spc' = [spc EXCEPT ![s] = "del"]
    /\ UNCHANGED <<now, task, delayed, flag, lease, enqVars, workerVars,
                   sweepNow, sweepKeys, sweepCur, sweepSnap>>

SweepDelete(s) ==
    /\ spc[s] = "del"
    /\ lease' = [lease EXCEPT ![sweepCur[s]] = NoLease]
    /\ SweepNext(s)
    /\ UNCHANGED <<now, task, queue, delayed, flag, enqVars, workerVars, sweepNow, sweepKeys>>

\* The call ends, or its process dies on the way.
SweepEnd(s) ==
    /\ spc[s] # "idle"
    /\ MayFail \/ (spc[s] = "next" /\ sweepKeys[s] = {})
    /\ spc' = [spc EXCEPT ![s] = "idle"]
    /\ sweepNow' = [sweepNow EXCEPT ![s] = 0]
    /\ sweepKeys' = [sweepKeys EXCEPT ![s] = {}]
    /\ sweepCur' = [sweepCur EXCEPT ![s] = None]
    /\ sweepSnap' = [sweepSnap EXCEPT ![s] = NoTask]
    /\ UNCHANGED <<now, redisVars, enqVars, workerVars>>
-----------------------------------------------------------------------------
Enqueue(t) == EnqueueSave(t) \/ EnqueuePush(t) \/ EnqueueZadd(t) \/ EnqueueFlag(t)

Worker(w) ==
    \/ PopTimeout(w) \/ Pop(w) \/ DequeueGet(w) \/ DequeueRequeue(w)
    \/ DequeueSave(w) \/ DequeueLease(w) \/ Execute(w)
    \/ AckGet(w) \/ AckSave(w) \/ AckDelete(w) \/ PublishCompleted(w)
    \/ NackGet(w) \/ NackSave(w) \/ NackZadd(w) \/ NackDelete(w)

Sweep(s) ==
    \/ SweepStart(s) \/ SweepScan(s) \/ SweepLease(s) \/ SweepGet(s)
    \/ SweepSave(s) \/ SweepPush(s) \/ SweepDelete(s) \/ SweepEnd(s)

Next ==
    \/ Tick
    \/ ProcessDelayed
    \/ \E t \in Tasks : Enqueue(t) \/ EnqueueDies(t)
    \/ \E w \in Workers : Worker(w) \/ TryFails(w) \/ WorkerDies(w)
    \/ \E s \in Sweepers : Sweep(s)

Spec == Init /\ [][Next]_vars
-----------------------------------------------------------------------------
RedisType ==
    /\ now \in Nat
    /\ task \in [Tasks -> [val: TaskObject, dies: Nat]]
    /\ queue \in [Priorities -> Seq(Tasks)]
    /\ delayed \in [Tasks -> Nat]
    /\ flag \in [Tasks -> Nat]
    /\ lease \in [Tasks -> [exp: Nat, dies: Nat]]

EnqueueType ==
    /\ epc \in [Tasks -> {"new", "push", "zadd", "flag", "done"}]
    /\ delay \in [Tasks -> Nat]
    /\ due \in [Tasks -> Nat]

WorkerType ==
    /\ pc \in [Workers -> {"pop", "get", "save", "lease", "push", "exec",
                           "ack_get", "ack_save", "ack_del", "publish",
                           "nack_get", "nack_save", "nack_zadd", "nack_del"}]
    /\ prio \in [Workers -> Polled]
    /\ cur \in [Workers -> Tasks \cup {None}]
    /\ \A w \in Workers : pc[w] # "pop" => cur[w] \in Tasks
    /\ snap \in [Workers -> TaskObject]
    /\ until \in [Workers -> Nat]

SweepType ==
    /\ spc \in [Sweepers -> {"idle", "scan", "next", "get", "save", "push", "del"}]
    /\ sweepNow \in [Sweepers -> Nat]
    /\ sweepKeys \in [Sweepers -> SUBSET Tasks]
    /\ sweepCur \in [Sweepers -> Tasks \cup {None}]
    /\ \A s \in Sweepers : spc[s] \in {"get", "save", "push", "del"} => sweepCur[s] \in Tasks
    /\ sweepSnap \in [Sweepers -> TaskObject]

\* Each variable holds what its Redis key or its coroutine can hold; in
\* particular a coroutine past its first step has a task in hand.
TypeOK == RedisType /\ EnqueueType /\ WorkerType /\ SweepType

\* Worker w has popped task t and has not handed it back yet: it answers for it.
Holds(w, t) == cur[w] = t /\ pc[w] # "pop"

\* Between dequeue and the last write of ack or nack, worker w works on t.
Owns(w, t) == Holds(w, t) /\ pc[w] \in
    {"save", "lease", "exec", "ack_get", "ack_save", "nack_get", "nack_save"}

\* Ownership of a task is exclusive: two workers never work on the same task at
\* once (dequeue, ack and nack check no lease_id, so only the list operations of
\* Redis protect a task from being run twice).
ExclusiveOwner ==
    \A t \in Tasks : \A v, w \in Workers : Owns(v, t) /\ Owns(w, t) => v = w

\* The lease is exclusive: two workers that work on the same task at once do not
\* both have time left on their lease (requeue_expired takes a task back only
\* once its lease is over). That is README.md:2653, "leases [...] so exactly one
\* worker owns a task", and it takes that sweeps do not overlap: two of them may
\* both find the same expired lease and push the task twice.
ExclusiveLease ==
    \A t \in Tasks : \A v, w \in Workers :
        Owns(v, t) /\ Owns(w, t) /\ now <= until[v] /\ now <= until[w] => v = w

\* Worker w has the only copy of task id t, from BRPOP to the ZADD of nack.
Carries(w, t) == cur[w] = t /\ pc[w] \notin {"pop", "nack_del"}

\* A task id exists once: the enqueue call has not passed it on yet, or it is at
\* one place of one list, or it is in the delayed set, or one worker carries it.
\* Nothing but the order of the Redis calls in enqueue, dequeue, nack and the
\* script ensures this, and ExclusiveOwner follows from it.
EnqueuerAlone ==
    \A t \in Tasks : epc[t] \in {"new", "push", "zadd"} =>
        ~InQueue(t) /\ delayed[t] = 0 /\ \A w \in Workers : ~Carries(w, t)
ListedAlone ==
    \A t \in Tasks : InQueue(t) => delayed[t] = 0 /\ \A w \in Workers : ~Carries(w, t)
DelayedAlone ==
    \A t \in Tasks : delayed[t] # 0 => \A w \in Workers : ~Carries(w, t)
CarrierAlone ==
    \A t \in Tasks : \A v, w \in Workers : Carries(v, t) /\ Carries(w, t) => v = w
ListedOnce ==
    \A p \in Priorities :
        /\ \A t \in Tasks : Has(queue[p], t) => PriorityOf[t] = p
        /\ \A i, j \in DOMAIN queue[p] : queue[p][i] = queue[p][j] => i = j

OneCopy == EnqueuerAlone /\ ListedAlone /\ DelayedAlone /\ CarrierAlone /\ ListedOnce

\* An id on its way to a worker belongs to a task saved as queued.
QueuedOnTheWay ==
    /\ \A t \in Tasks : InQueue(t) \/ epc[t] = "push" => task[t].val.st = "queued"
    /\ \A w \in Workers : pc[w] = "get" => task[cur[w]].val.st = "queued"
    /\ \A w \in Workers : pc[w] # "push"

\* No task is lost: as long as its record says queued or running, its id is in
\* the hands of enqueue, in a list (of its priority, which may be one that no
\* worker polls), or in the hands of a worker.
NeverLost ==
    \A t \in Tasks :
        Get(t).st \in {"queued", "running"} =>
            epc[t] = "push" \/ InQueue(t) \/ \E w \in Workers : Holds(w, t)

\* A task that ack or nack has settled is never taken up again by anyone: its
\* record stays as it is until it is gone.
SettledStays ==
    [][\A t \in Tasks : task[t].val.st \in {"completed", "failed"} =>
                            task'[t].val.st \in {task[t].val.st, "none"}]_vars

\* Fairness: an enqueue call and a poll loop are asyncio tasks the event loop
\* keeps running (while self._running), and their Redis calls return.
FairSpec ==
    /\ Spec
    /\ \A t \in Tasks : WF_vars(Enqueue(t))
    /\ \A w \in Workers : WF_vars(Worker(w))

\* Every task that enqueue has saved with a priority that is polled is run to an
\* end by some worker, unless more urgent tasks keep being pushed without end:
\* dequeue starts again at the most urgent list for every task it takes.
UrgentPushes(t) == \E u \in Tasks : PriorityOf[u] > PriorityOf[t] /\ epc[u] = "push"
EventuallySettled ==
    \A t \in Tasks : PriorityOf[t] \in Polled =>
        \/ []<>UrgentPushes(t)
        \/ Get(t).st = "queued" ~> Get(t).st \in {"completed", "failed"}

\* FairSpec with the clock running and process_delayed called again and again.
FairDelayedSpec == FairSpec /\ WF_vars(Tick) /\ WF_vars(ProcessDelayed)

\* README.md:2700, "DLQ + retry recover failures": a task nack has scheduled for
\* a retry (before the last tick) is eventually back in its list.
RetryRecovers ==
    \A t \in Tasks :
        Get(t).st = "retrying" /\ delayed[t] \in 1..MaxTime ~> Get(t).st = "queued"
=============================================================================
