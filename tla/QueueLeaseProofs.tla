-------------------------- MODULE QueueLeaseProofs --------------------------
(***************************************************************************)
(* The lease of a task, with a requeue_expired that runs at any time: for  *)
(* any number of tasks, workers and priorities and any timing constants,   *)
(* as long as one process at a time sweeps, no call is given up half way   *)
(* and no task is enqueued with a delay.  (Two sweeps at once, a sweep     *)
(* that dies before it deletes the lease, or a retry that comes back from  *)
(* the delayed set each give a task to two workers.)                       *)
(***************************************************************************)
EXTENDS QueueOutcomeProofs
-----------------------------------------------------------------------------
(* Where a task can be. *)

\* The worker has popped the id and has not written a lease yet; it has fixed
\* the end of the lease already in the last two of these steps.
Fresh(w, t)   == cur[w] = t /\ pc[w] \in {"get", "push", "save", "lease"}
Granted(w, t) == cur[w] = t /\ pc[w] \in {"save", "lease"}

\* The worker has written its lease and works on the task.
Late(w, t)    == cur[w] = t /\ pc[w] \in {"exec", "ack_get", "ack_save", "nack_get", "nack_save"}

\* The sweep has found the lease of t over and will push t; it has pushed t and
\* will delete the lease.
Sweeping(s, t) == sweepCur[s] = t /\ spc[s] \in {"get", "save", "push"}
Cleans(s, t)   == sweepCur[s] = t /\ spc[s] = "del"
Cleaning(t)    == \E s \in Sweepers : Cleans(s, t)

Unsent(t) == epc[t] \in {"new", "push"}
Active(t) == InQueue(t) \/ \E w \in Workers : Fresh(w, t)
Overdue(t) == \A v \in Workers : Late(v, t) => until[v] < now

\* An id that enqueue has not pushed yet is nowhere else.
UnsentAlone(t) == Unsent(t) =>
    /\ ~Active(t) /\ lease[t] = NoLease
    /\ \A w \in Workers : ~Late(w, t)
    /\ \A s \in Sweepers : ~Sweeping(s, t) /\ ~Cleans(s, t)

\* One copy of the id may still be handed out or has just been.
OneActive(t) ==
    /\ InQueue(t) => \A w \in Workers : ~Fresh(w, t)
    /\ \A v, w \in Workers : Fresh(v, t) /\ Fresh(w, t) => v = w

\* While there is one, everybody else who works on the task is overdue, and a
\* lease that is still there is one the sweep is about to delete.
ActiveAlone(t) ==
    /\ Active(t) => (lease[t] = NoLease \/ Cleaning(t)) /\ Overdue(t)
    /\ \A v, w \in Workers : Granted(w, t) /\ Late(v, t) => until[v] <= until[w]

\* Of several workers past their lease one is in time at most, and a lease that
\* stays is as long as any of theirs.
LateAlone(t) ==
    /\ \A v, w \in Workers : Late(v, t) /\ Late(w, t) => v = w \/ until[v] < now \/ until[w] < now
    /\ lease[t] # NoLease /\ ~Cleaning(t) =>
          \A v \in Workers : Late(v, t) => until[v] <= lease[t].exp

SweptAlone(t) == \A s \in Sweepers : Sweeping(s, t) => ~Active(t) /\ Overdue(t)

TaskLease(t) == UnsentAlone(t) /\ OneActive(t) /\ ActiveAlone(t) /\ LateAlone(t) /\ SweptAlone(t)

\* A sweep compares with the time at which it began.
SweepClock == now <= MaxTime /\ \A s \in Sweepers : sweepNow[s] <= now

LeaseInv == NoFlags /\ ListedOnce /\ SweepClock /\ \A t \in Tasks : TaskLease(t)
-----------------------------------------------------------------------------
(* Steps after which there is no more of a task than before. *)

\* Nobody comes to hold t, no list gets it, its lease stays or goes, and a sweep
\* that was to delete it still is or has done so.
Lessens(t) ==
    /\ now <= now'
    /\ Unsent(t)' => Unsent(t)
    /\ InQueue(t)' => InQueue(t)
    /\ \A w \in Workers :
          /\ Fresh(w, t)' => Fresh(w, t)
          /\ Late(w, t)' => Late(w, t) /\ until'[w] = until[w]
          /\ Granted(w, t)' => Granted(w, t) /\ until'[w] = until[w]
    /\ \A s \in Sweepers :
          /\ Sweeping(s, t)' => Sweeping(s, t)
          /\ Cleans(s, t)' => Cleans(s, t)
    /\ \/ lease'[t] = NoLease
       \/ lease'[t] = lease[t] /\ \A s \in Sweepers : Cleans(s, t) => Cleans(s, t)'

\* A step that gives nobody more than they had on a task keeps its invariant.
LEMMA LessKeeps ==
    ASSUME TypeOK, TypeOK', NEW t \in Tasks, TaskLease(t), Lessens(t)
    PROVE  TaskLease(t)'
<1>1. now \in Nat /\ now' \in Nat /\ \A w \in Workers : until[w] \in Nat /\ until'[w] \in Nat
  BY DEF TypeOK, RedisType, WorkerType
<1>2. Active(t)' => Active(t)
  BY DEF Active, Lessens
<1>3. Overdue(t) => Overdue(t)'
  <2>1. SUFFICES ASSUME Overdue(t), NEW v \in Workers, Late(v, t)' PROVE until'[v] < now'
    BY DEF Overdue
  <2>2. until'[v] = until[v] /\ until[v] < now
    BY <2>1 DEF Overdue, Lessens
  <2> QED
    BY <1>1, <2>2 DEF Lessens
<1>4. lease'[t] # NoLease => lease'[t] = lease[t] /\ (Cleaning(t)' <=> Cleaning(t))
  BY DEF Lessens, Cleaning
<1>5. UnsentAlone(t)'
  BY <1>2, <1>4 DEF TaskLease, UnsentAlone, Lessens
<1>6. OneActive(t)'
  BY DEF TaskLease, OneActive, Lessens
<1>7. ActiveAlone(t)'
  <2>1. Active(t)' => (lease'[t] = NoLease \/ Cleaning(t)') /\ Overdue(t)'
    BY <1>2, <1>3, <1>4 DEF TaskLease, ActiveAlone
  <2>2. ASSUME NEW v \in Workers, NEW w \in Workers, Granted(w, t)', Late(v, t)'
        PROVE  until'[v] <= until'[w]
    BY <2>2 DEF TaskLease, ActiveAlone, Lessens
  <2> QED
    BY <2>1, <2>2 DEF ActiveAlone
<1>8. LateAlone(t)'
  <2>1. ASSUME NEW v \in Workers, NEW w \in Workers, Late(v, t)', Late(w, t)'
        PROVE  v = w \/ until'[v] < now' \/ until'[w] < now'
    <3>1. /\ Late(v, t) /\ Late(w, t) /\ until'[v] = until[v] /\ until'[w] = until[w]
          /\ now <= now'
      BY <2>1 DEF Lessens
    <3>2. v = w \/ until[v] < now \/ until[w] < now
      BY <3>1 DEF TaskLease, LateAlone
    <3> QED
      BY <1>1, <3>1, <3>2
  <2>2. ASSUME lease'[t] # NoLease, ~Cleaning(t)', NEW v \in Workers, Late(v, t)'
        PROVE  until'[v] <= lease'[t].exp
    <3>1. lease'[t] = lease[t] /\ ~Cleaning(t)
      BY <1>4, <2>2
    <3>2. Late(v, t) /\ until'[v] = until[v]
      BY <2>2 DEF Lessens
    <3> QED
      BY <2>2, <3>1, <3>2 DEF TaskLease, LateAlone
  <2> QED
    BY <2>1, <2>2 DEF LateAlone
<1>9. SweptAlone(t)'
  BY <1>2, <1>3, Zenon DEF TaskLease, SweptAlone, Lessens
<1> QED
  BY <1>5, <1>6, <1>7, <1>8, <1>9, Zenon DEF TaskLease
-----------------------------------------------------------------------------
(* The steps of a worker. *)

WorkerFrame(w) ==
    /\ UNCHANGED <<now, epc, flag, sweepNow, sweepCur, spc>>
    /\ \A v \in Workers : v # w => pc'[v] = pc[v] /\ cur'[v] = cur[v] /\ until'[v] = until[v]

\* When a step of one worker takes nothing up, nobody has more than before.
LEMMA FrameLessens ==
    ASSUME TypeOK, NEW w \in Workers, WorkerFrame(w), NEW t \in Tasks,
           InQueue(t)' => InQueue(t), lease'[t] = lease[t] \/ lease'[t] = NoLease,
           Fresh(w, t)' => Fresh(w, t),
           Late(w, t)' => Late(w, t) /\ until'[w] = until[w],
           Granted(w, t)' => Granted(w, t) /\ until'[w] = until[w]
    PROVE  Lessens(t)
<1>1. now <= now' /\ (Unsent(t)' => Unsent(t))
  BY DEF WorkerFrame, TypeOK, RedisType, Unsent
<1>2. ASSUME NEW v \in Workers
      PROVE  /\ Fresh(v, t)' => Fresh(v, t)
             /\ Late(v, t)' => Late(v, t) /\ until'[v] = until[v]
             /\ Granted(v, t)' => Granted(v, t) /\ until'[v] = until[v]
  BY DEF WorkerFrame, Fresh, Late, Granted
<1>3. ASSUME NEW s \in Sweepers
      PROVE  /\ Sweeping(s, t)' => Sweeping(s, t)
             /\ Cleans(s, t)' <=> Cleans(s, t)
  BY Zenon DEF WorkerFrame, Sweeping, Cleans
<1> QED
  BY <1>1, <1>2, <1>3, Zenon DEF Lessens

\* The steps that bring nothing of a task into being.
QuietStep(w) ==
    \/ PopTimeout(w) \/ DequeueSave(w) \/ Execute(w) \/ AckGet(w) \/ AckSave(w) \/ AckDelete(w)
    \/ PublishCompleted(w) \/ NackGet(w) \/ NackSave(w) \/ NackZadd(w) \/ NackDelete(w)
    \/ DequeueGet(w) /\ pc'[w] # "save"

\* How a worker goes on: it lets go of the task, is past its last write, or
\* stays before or after the lease.
GoesOn(w) ==
    \/ pc'[w] = "pop"
    \/ cur'[w] = cur[w] /\ pc'[w] \in {"ack_del", "publish", "nack_zadd", "nack_del"}
    \/ /\ cur'[w] = cur[w] /\ until'[w] = until[w]
       /\ pc[w] \in {"exec", "ack_get", "nack_get"}
       /\ pc'[w] \in {"ack_get", "ack_save", "nack_get", "nack_save"}
    \/ cur'[w] = cur[w] /\ until'[w] = until[w] /\ pc[w] = "save" /\ pc'[w] = "lease"
    \/ cur'[w] = cur[w] /\ pc[w] = "get" /\ pc'[w] = "push"

\* What moving the program counter of one worker does to it and to the others.
LEMMA Moves ==
    ASSUME TypeOK, NEW w \in Workers
    PROVE  /\ \A step : Goto(w, step) => pc'[w] = step /\ \A v \in Workers : v # w => pc'[v] = pc[v]
           /\ \A p : PollAt(w, p) =>
                 /\ pc'[w] = "pop"
                 /\ \A v \in Workers : v # w => pc'[v] = pc[v] /\ cur'[v] = cur[v] /\ until'[v] = until[v]
           /\ \A x : until' = [until EXCEPT ![w] = x] =>
                 until'[w] = x /\ \A v \in Workers : v # w => until'[v] = until[v]
<1>1. DOMAIN pc = Workers /\ DOMAIN cur = Workers /\ DOMAIN until = Workers
  BY DEF TypeOK, WorkerType
<1> QED
  BY <1>1 DEF Goto, PollAt

\* A quiet step goes on with the task in hand or lets it go, and touches no one else.
LEMMA QuietGoesOn ==
    ASSUME TypeOK, NEW w \in Workers, QuietStep(w)
    PROVE  GoesOn(w) /\ WorkerFrame(w)
<1>1. UNCHANGED <<now, epc, flag, sweepNow, sweepCur, spc>>
  BY Zenon DEF QuietStep, PopTimeout, DequeueGet, DequeueSave, Execute, AckGet, AckSave, AckDelete,
         PublishCompleted, NackGet, NackSave, NackZadd, NackDelete, enqVars, sweepVars, redisVars
<1>2. CASE PopTimeout(w) \/ PublishCompleted(w) \/ NackDelete(w)
  <2>1. \E p : PollAt(w, p)
    BY <1>2, Zenon DEF PopTimeout, PublishCompleted, NackDelete, NextPriority, Finish
  <2> QED
    BY <1>1, <2>1, Moves DEF GoesOn, WorkerFrame
<1>3. CASE DequeueSave(w) \/ Execute(w) \/ AckSave(w) \/ AckDelete(w) \/ AckGet(w) \/ NackZadd(w)
  <2>1. /\ UNCHANGED <<cur, until>>
        /\ \/ pc[w] = "save" /\ Goto(w, "lease")
           \/ pc[w] = "exec" /\ (Goto(w, "ack_get") \/ Goto(w, "nack_get"))
           \/ pc[w] = "ack_get" /\ Goto(w, "ack_save")
           \/ Goto(w, "ack_del") \/ Goto(w, "publish") \/ Goto(w, "nack_del")
    BY <1>3 DEF DequeueSave, Execute, AckSave, AckDelete, AckGet, NackZadd
  <2> QED
    BY <1>1, <2>1, Moves DEF GoesOn, WorkerFrame
<1>4. CASE NackSave(w)
  <2>1. /\ UNCHANGED cur
        /\ until' = until \/ \E x : until' = [until EXCEPT ![w] = x]
        /\ Goto(w, "nack_zadd") \/ Goto(w, "nack_del")
    BY <1>4 DEF NackSave
  <2> QED
    BY <1>1, <2>1, Moves DEF GoesOn, WorkerFrame
<1>5. CASE NackGet(w)
  <2>1. \/ \E p : PollAt(w, p)
        \/ pc[w] = "nack_get" /\ Goto(w, "nack_save") /\ UNCHANGED <<cur, until>>
    BY <1>5 DEF NackGet, Finish
  <2> QED
    BY <1>1, <2>1, Moves DEF GoesOn, WorkerFrame
<1>6. CASE DequeueGet(w) /\ pc'[w] # "save"
  <2>1. \/ \E p : PollAt(w, p)
        \/ pc[w] = "get" /\ Goto(w, "push") /\ UNCHANGED <<cur, until>>
    BY <1>6, Moves DEF DequeueGet, NextPriority
  <2> QED
    BY <1>1, <2>1, Moves DEF GoesOn, WorkerFrame
<1> QED
  BY <1>2, <1>3, <1>4, <1>5, <1>6 DEF QuietStep

\* So it leaves the lists alone and gives nobody more.
LEMMA QuietLessens ==
    ASSUME TypeOK, NEW w \in Workers, QuietStep(w)
    PROVE  UNCHANGED <<queue, flag, epc, now, sweepNow>> /\ \A t \in Tasks : Lessens(t)
<1>1. GoesOn(w) /\ WorkerFrame(w)
  BY QuietGoesOn
<1>2. UNCHANGED queue
  BY Zenon DEF QuietStep, PopTimeout, DequeueGet, DequeueSave, Execute, AckGet, AckSave, AckDelete,
         PublishCompleted, NackGet, NackSave, NackZadd, NackDelete, redisVars
<1>3. lease' = lease \/ lease' = [lease EXCEPT ![cur[w]] = NoLease]
  BY Zenon DEF QuietStep, PopTimeout, DequeueGet, DequeueSave, Execute, AckGet, AckSave, AckDelete,
         PublishCompleted, NackGet, NackSave, NackZadd, NackDelete, redisVars
<1>4. ASSUME NEW t \in Tasks PROVE Lessens(t)
  <2>1. lease'[t] = lease[t] \/ lease'[t] = NoLease
    BY <1>3, Zenon DEF TypeOK, RedisType
  <2>2. InQueue(t)' => InQueue(t)
    BY <1>2 DEF InQueue
  <2>3. /\ Fresh(w, t)' => Fresh(w, t)
        /\ Late(w, t)' => Late(w, t) /\ until'[w] = until[w]
        /\ Granted(w, t)' => Granted(w, t) /\ until'[w] = until[w]
    BY <1>1, Zenon DEF GoesOn, Fresh, Late, Granted
  <2> QED
    BY <1>1, <2>1, <2>2, <2>3, FrameLessens, Zenon
<1> QED
  BY <1>1, <1>2, <1>4 DEF WorkerFrame

\* The rest of the invariant, when a worker moves.
LEMMA WorkerRest ==
    ASSUME LeaseInv, NEW w \in Workers, WorkerFrame(w)
    PROVE  NoFlags' /\ SweepClock'
BY DEF LeaseInv, WorkerFrame, NoFlags, SweepClock

\* BRPOP: the one copy of the id goes from a list to the worker.
LEMMA PopLease ==
    ASSUME TypeOK, TypeOK', LeaseInv, NEW w \in Workers, Pop(w)
    PROVE  LeaseInv'
<1>1. WorkerFrame(w) /\ UNCHANGED lease /\ pc[w] = "pop" /\ pc'[w] = "get"
  <2>1. UNCHANGED <<now, epc, flag, sweepNow, sweepCur, spc, lease, until>> /\ Goto(w, "get") /\ pc[w] = "pop"
    BY DEF Pop, enqVars, sweepVars
  <2>2. \A v \in Workers : v # w => cur'[v] = cur[v]
    BY DEF Pop, TypeOK, WorkerType
  <2> QED
    BY <2>1, <2>2, Moves DEF WorkerFrame
<1>2. PICK id \in Tasks : cur'[w] = id /\ InQueue(id) /\ ~InQueue(id)'
  BY PopPlaces DEF LeaseInv
<1>3. (\A t \in Tasks : InQueue(t)' => InQueue(t)) /\ ListedOnce'
  BY PopPlaces DEF LeaseInv
<1>4. ASSUME NEW t \in Tasks, t # id PROVE TaskLease(t)'
  <2>1. ~Fresh(w, t)' /\ ~Late(w, t)' /\ ~Granted(w, t)'
    BY <1>2, <1>4 DEF Fresh, Late, Granted
  <2>2. Lessens(t)
    BY <1>1, <1>3, <2>1, FrameLessens, Zenon
  <2> QED
    BY <2>2, LessKeeps DEF LeaseInv
<1>5. TaskLease(id)'
  <2>0. TaskLease(id) /\ Active(id)
    BY <1>2 DEF LeaseInv, Active
  <2>1. /\ \A v \in Workers : Fresh(v, id)' => v = w
        /\ \A v \in Workers : ~Granted(v, id)'
    BY <1>1, <1>2, <2>0, Zenon DEF TaskLease, OneActive, WorkerFrame, Fresh, Granted
  <2>2. \A v \in Workers : (Late(v, id)' <=> Late(v, id)) /\ (Late(v, id) => until'[v] = until[v])
    BY <1>1, Zenon DEF WorkerFrame, Late
  <2>3. \A s \in Sweepers : (Sweeping(s, id)' <=> Sweeping(s, id)) /\ (Cleans(s, id)' <=> Cleans(s, id))
    BY <1>1, Zenon DEF WorkerFrame, Sweeping, Cleans
  <2>4. now' = now /\ lease'[id] = lease[id] /\ (Unsent(id)' <=> Unsent(id))
        /\ (Cleaning(id)' <=> Cleaning(id))
    BY <1>1, <2>3, Zenon DEF WorkerFrame, Unsent, Cleaning
  <2>5. UnsentAlone(id)'
    BY <2>0, <2>4, Zenon DEF TaskLease, UnsentAlone
  <2>6. OneActive(id)'
    BY <1>2, <2>1 DEF OneActive
  <2>7. Overdue(id) /\ Overdue(id)' /\ (lease[id] = NoLease \/ Cleaning(id))
    BY <2>0, <2>2, <2>4, Zenon DEF TaskLease, ActiveAlone, Overdue
  <2>8. ActiveAlone(id)'
    BY <2>1, <2>4, <2>7, Zenon DEF ActiveAlone
  <2>9. LateAlone(id)'
    BY <2>0, <2>2, <2>4, Zenon DEF TaskLease, LateAlone
  <2>10. SweptAlone(id)'
    BY <2>0, <2>3 DEF TaskLease, SweptAlone
  <2> QED
    BY <2>5, <2>6, <2>8, <2>9, <2>10, Zenon DEF TaskLease
<1> QED
  BY <1>1, <1>3, <1>4, <1>5, WorkerRest DEF LeaseInv

\* dequeue has read the task and fixes the end of the lease: later than now, so
\* later than those of all the others.
LEMMA GetLease ==
    ASSUME TypeOK, TypeOK', LeaseInv, NEW w \in Workers, DequeueGet(w), pc'[w] = "save"
    PROVE  LeaseInv'
<1>1. /\ UNCHANGED <<now, epc, flag, sweepNow, sweepCur, spc, lease, queue>> /\ pc[w] = "get"
  BY DEF DequeueGet, redisVars, enqVars, sweepVars
<1>2. cur' = cur /\ until' = [until EXCEPT ![w] = Later(Visibility)] /\ Goto(w, "save")
  BY Moves DEF DequeueGet, NextPriority
<1>3. WorkerFrame(w) /\ until'[w] = Later(Visibility)
  BY <1>1, <1>2, Moves, Zenon DEF WorkerFrame
<1>4. PICK id \in Tasks : id = cur[w]
  BY <1>1 DEF TypeOK, WorkerType
<1>5. \A t \in Tasks : InQueue(t)' <=> InQueue(t)
  BY <1>1 DEF InQueue
<1>6. ListedOnce'
  BY <1>1, Zenon DEF LeaseInv, ListedOnce
<1>7. ASSUME NEW t \in Tasks, t # id PROVE TaskLease(t)'
  <2>1. ~Fresh(w, t)' /\ ~Late(w, t)' /\ ~Granted(w, t)'
    BY <1>2, <1>4, <1>7, Zenon DEF Fresh, Late, Granted
  <2>2. Lessens(t)
    BY <1>1, <1>3, <1>5, <2>1, FrameLessens, Zenon
  <2> QED
    BY <2>2, LessKeeps DEF LeaseInv
<1>8. TaskLease(id)'
  <2>0. TaskLease(id) /\ Fresh(w, id) /\ Active(id)
    BY <1>1, <1>4 DEF LeaseInv, Active, Fresh
  <2>1. \A v \in Workers : (Fresh(v, id)' <=> Fresh(v, id)) /\ (Granted(v, id)' => v = w)
    BY <1>1, <1>2, <1>3, <1>4, <2>0, Zenon DEF TaskLease, OneActive, WorkerFrame, Fresh, Granted
  <2>2. \A v \in Workers : (Late(v, id)' <=> Late(v, id)) /\ (Late(v, id) => until'[v] = until[v])
    BY <1>1, <1>3, Zenon DEF WorkerFrame, Late
  <2>3. \A s \in Sweepers : (Sweeping(s, id)' <=> Sweeping(s, id)) /\ (Cleans(s, id)' <=> Cleans(s, id))
    BY <1>1 DEF Sweeping, Cleans
  <2>4. /\ now' = now /\ lease'[id] = lease[id] /\ (Unsent(id)' <=> Unsent(id))
        /\ (Cleaning(id)' <=> Cleaning(id)) /\ (Active(id)' <=> Active(id))
    BY <1>1, <1>5, <2>1, <2>3, Zenon DEF Unsent, Cleaning, Active
  <2>5. UnsentAlone(id)'
    BY <2>0, <2>4, Zenon DEF TaskLease, UnsentAlone
  <2>6. OneActive(id)'
    BY <1>5, <2>0, <2>1 DEF TaskLease, OneActive
  <2>7. Overdue(id) /\ Overdue(id)' /\ (lease[id] = NoLease \/ Cleaning(id))
    BY <2>0, <2>2, <2>4, Zenon DEF TaskLease, ActiveAlone, Overdue
  <2>8. now <= Later(Visibility) /\ Later(Visibility) \in Nat /\ now \in Nat
    BY QueueAssumptions DEF Later, TypeOK, RedisType, LeaseInv, SweepClock
  <2>9. \A v \in Workers : Late(v, id) => until[v] <= Later(Visibility)
    BY <2>7, <2>8 DEF Overdue, TypeOK, WorkerType
  <2>10. ActiveAlone(id)'
    BY <1>3, <2>1, <2>2, <2>4, <2>7, <2>9, Zenon DEF ActiveAlone
  <2>11. LateAlone(id)'
    BY <2>0, <2>2, <2>4, Zenon DEF TaskLease, LateAlone
  <2>12. SweptAlone(id)'
    BY <2>0, <2>3 DEF TaskLease, SweptAlone
  <2> QED
    BY <2>5, <2>6, <2>10, <2>11, <2>12, Zenon DEF TaskLease
<1> QED
  BY <1>3, <1>6, <1>7, <1>8, WorkerRest, Zenon DEF LeaseInv

\* dequeue puts the id back: the one copy goes from the worker to a list.
LEMMA RequeueLease ==
    ASSUME TypeOK, TypeOK', LeaseInv, NEW w \in Workers, DequeueRequeue(w)
    PROVE  LeaseInv'
<1>1. /\ UNCHANGED <<now, epc, flag, sweepNow, sweepCur, spc, lease>> /\ pc[w] = "push"
      /\ LPush(cur[w]) /\ \E p : PollAt(w, p)
  BY DEF DequeueRequeue, enqVars, sweepVars, NextPriority
<1>2. WorkerFrame(w) /\ pc'[w] = "pop"
  BY <1>1, Moves, Zenon DEF WorkerFrame
<1>3. PICK id \in Tasks : id = cur[w]
  BY <1>1 DEF TypeOK, WorkerType
<1>4. TaskLease(id) /\ Fresh(w, id) /\ Active(id) /\ ~InQueue(id)
  BY <1>1, <1>3, Zenon DEF LeaseInv, Active, Fresh, TaskLease, OneActive
<1>5. (\A t \in Tasks : InQueue(t)' <=> InQueue(t) \/ t = id) /\ ListedOnce'
  BY <1>1, <1>3, <1>4, LPushPlaces, Zenon DEF LeaseInv, TypeOK
<1>6. \A t : ~Fresh(w, t)' /\ ~Late(w, t)' /\ ~Granted(w, t)'
  BY <1>2 DEF Fresh, Late, Granted
<1>7. ASSUME NEW t \in Tasks, t # id PROVE TaskLease(t)'
  <2>1. Lessens(t)
    BY <1>1, <1>2, <1>5, <1>6, <1>7, FrameLessens, Zenon
  <2> QED
    BY <2>1, LessKeeps DEF LeaseInv
<1>8. TaskLease(id)'
  <2>1. \A v \in Workers : ~Fresh(v, id)' /\ ~Granted(v, id)'
    BY <1>2, <1>4, <1>6, Zenon DEF TaskLease, OneActive, WorkerFrame, Fresh, Granted
  <2>2. \A v \in Workers : Late(v, id)' => Late(v, id) /\ until'[v] = until[v]
    BY <1>2, <1>6, Zenon DEF WorkerFrame, Late
  <2>3. \A s \in Sweepers : (Sweeping(s, id)' <=> Sweeping(s, id)) /\ (Cleans(s, id)' <=> Cleans(s, id))
    BY <1>1, Zenon DEF Sweeping, Cleans
  <2>4. /\ now' = now /\ lease'[id] = lease[id] /\ (Unsent(id)' <=> Unsent(id))
        /\ (Cleaning(id)' <=> Cleaning(id))
    <3>1. now' = now /\ lease'[id] = lease[id] /\ (Unsent(id)' <=> Unsent(id))
      BY <1>1, Zenon DEF Unsent
    <3>2. Cleaning(id)' <=> Cleaning(id)
      BY <2>3, Zenon DEF Cleaning
    <3> QED
      BY <3>1, <3>2, Zenon
  <2>5. UnsentAlone(id)'
    BY <1>4, <2>4, Zenon DEF TaskLease, UnsentAlone
  <2>6. OneActive(id)'
    BY <2>1 DEF OneActive
  <2>7. Overdue(id)' /\ (lease[id] = NoLease \/ Cleaning(id))
    BY <1>4, <2>2, <2>4, Zenon DEF TaskLease, ActiveAlone, Overdue
  <2>8. ActiveAlone(id)'
    BY <2>1, <2>4, <2>7, Zenon DEF ActiveAlone
  <2>9. LateAlone(id)'
    BY <1>4, <2>2, <2>4, Zenon DEF TaskLease, LateAlone
  <2>10. SweptAlone(id)'
    BY <1>4, <2>3 DEF TaskLease, SweptAlone
  <2> QED
    BY <2>5, <2>6, <2>8, <2>9, <2>10 DEF TaskLease
<1> QED
  BY <1>2, <1>5, <1>7, <1>8, WorkerRest, Zenon DEF LeaseInv

\* dequeue writes the lease: from now on the worker is one of those past their
\* lease, and the only one in time.
LEMMA GrantLease ==
    ASSUME TypeOK, TypeOK', LeaseInv, NEW w \in Workers, DequeueLease(w)
    PROVE  LeaseInv'
<1>1. /\ UNCHANGED <<now, epc, flag, sweepNow, sweepCur, spc, queue, cur, until>> /\ pc[w] = "lease"
      /\ Goto(w, "exec")
  BY DEF DequeueLease, enqVars, sweepVars
<1>2. WorkerFrame(w) /\ pc'[w] = "exec"
  BY <1>1, Moves, Zenon DEF WorkerFrame
<1>3. PICK id \in Tasks : id = cur[w]
  BY <1>1, Zenon DEF TypeOK, WorkerType
<1>4. /\ lease'[id].exp = until[w]
      /\ \A t \in Tasks : t # id => lease'[t] = lease[t]
  BY <1>3, Zenon DEF DequeueLease, TypeOK, RedisType
<1>5. \A t \in Tasks : InQueue(t)' <=> InQueue(t)
  BY <1>1 DEF InQueue
<1>6. ListedOnce'
  BY <1>1, Zenon DEF LeaseInv, ListedOnce
<1>7. ASSUME NEW t \in Tasks, t # id PROVE TaskLease(t)'
  <2>1. ~Fresh(w, t)' /\ ~Late(w, t)' /\ ~Granted(w, t)'
    BY <1>1, <1>3, <1>7, Zenon DEF Fresh, Late, Granted
  <2>2. Lessens(t)
    BY <1>2, <1>4, <1>5, <1>7, <2>1, FrameLessens, Zenon
  <2> QED
    BY <2>2, LessKeeps DEF LeaseInv
<1>8. TaskLease(id)'
  <2>0. TaskLease(id) /\ Fresh(w, id) /\ Granted(w, id) /\ Active(id)
    BY <1>1, <1>3, Zenon DEF LeaseInv, Active, Fresh, Granted
  <2>1. ~Active(id)' /\ \A v \in Workers : ~Fresh(v, id)' /\ ~Granted(v, id)'
    BY <1>2, <1>5, <2>0, Zenon DEF TaskLease, OneActive, WorkerFrame, Fresh, Granted, Active
  <2>2. \A v \in Workers : Late(v, id)' => v = w \/ Late(v, id)
    BY <1>2, Zenon DEF WorkerFrame, Late
  <2>3. \A s \in Sweepers : (Sweeping(s, id)' <=> Sweeping(s, id)) /\ (Cleans(s, id)' <=> Cleans(s, id))
    BY <1>1, Zenon DEF Sweeping, Cleans
  <2>4. ~Unsent(id)' /\ \A s \in Sweepers : ~Sweeping(s, id)
    BY <1>1, <2>0, Zenon DEF Unsent, TaskLease, UnsentAlone, SweptAlone
  <2>5. \A v \in Workers : Late(v, id) => until[v] < now /\ until[v] <= until[w]
    BY <2>0 DEF TaskLease, ActiveAlone, Overdue
  <2>6. \A v \in Workers : until[v] \in Nat
    BY DEF TypeOK, WorkerType
  <2>7. LateAlone(id)'
    BY <1>1, <1>4, <2>2, <2>5, <2>6, SMTT(30) DEF LateAlone
  <2>8. UnsentAlone(id)' /\ SweptAlone(id)'
    BY <2>3, <2>4 DEF UnsentAlone, SweptAlone
  <2>9. OneActive(id)' /\ ActiveAlone(id)'
    BY <2>1 DEF OneActive, ActiveAlone
  <2> QED
    BY <2>7, <2>8, <2>9 DEF TaskLease
<1> QED
  BY <1>2, <1>6, <1>7, <1>8, WorkerRest, Zenon DEF LeaseInv

\* Every step of a worker keeps the invariant.
LEMMA WorkerLease ==
    ASSUME MayFail = FALSE, TypeOK, TypeOK', LeaseInv, NEW w \in Workers,
           Worker(w) \/ TryFails(w) \/ WorkerDies(w)
    PROVE  LeaseInv'
<1>1. CASE QuietStep(w)
  <2>1. UNCHANGED <<queue, flag, epc, now, sweepNow>> /\ \A t \in Tasks : Lessens(t)
    BY <1>1, QuietLessens
  <2>2. NoFlags' /\ SweepClock' /\ ListedOnce'
    BY <2>1, Zenon DEF LeaseInv, NoFlags, SweepClock, ListedOnce
  <2>3. \A t \in Tasks : TaskLease(t)'
    BY <2>1, LessKeeps DEF LeaseInv
  <2> QED
    BY <2>2, <2>3 DEF LeaseInv
<1>2. CASE Pop(w)
  BY <1>2, PopLease
<1>3. CASE DequeueGet(w) /\ pc'[w] = "save"
  BY <1>3, GetLease
<1>4. CASE DequeueRequeue(w)
  BY <1>4, RequeueLease
<1>5. CASE DequeueLease(w)
  BY <1>5, GrantLease
<1> QED
  BY <1>1, <1>2, <1>3, <1>4, <1>5, Zenon DEF Worker, QuietStep, TryFails, WorkerDies
-----------------------------------------------------------------------------
(* The steps of the others. *)

\* A step that leaves the workers, the leases and the sweep alone.
LEMMA AsideLessens ==
    ASSUME UNCHANGED <<pc, cur, until, lease, sweepCur, spc>>, NEW t \in Tasks, now <= now',
           Unsent(t)' => Unsent(t), InQueue(t)' => InQueue(t)
    PROVE  Lessens(t)
BY Zenon DEF Lessens, Fresh, Late, Granted, Sweeping, Cleans

\* enqueue, without a delay, keeps the invariant: it pushes an id nobody has yet.
LEMMA EnqueueLease ==
    ASSUME MayFail = FALSE, Delays \subseteq {0}, TypeOK, TypeOK', LeaseInv,
           NEW id \in Tasks, Enqueue(id) \/ EnqueueDies(id)
    PROVE  LeaseInv'
<1>1. EnqueueSave(id) \/ EnqueuePush(id)
  BY Zenon DEF Enqueue, EnqueueDies, EnqueueZadd, EnqueueFlag, LeaseInv, NoFlags
<1>2. UNCHANGED <<now, flag, pc, cur, until, lease, sweepNow, sweepCur, spc>>
  BY <1>1, Zenon DEF EnqueueSave, EnqueuePush, workerVars, sweepVars
<1>3. /\ \A t \in Tasks : t # id => epc'[t] = epc[t]
      /\ \/ EnqueueSave(id) /\ epc'[id] = "push"
         \/ EnqueuePush(id) /\ epc'[id] = "done"
  <2>1. DOMAIN epc = Tasks
    BY DEF TypeOK, EnqueueType
  <2>2. CASE EnqueueSave(id)
    <3>1. PICK d \in Delays : epc' = [epc EXCEPT ![id] = IF d > 0 THEN "zadd" ELSE "push"]
      BY <2>2, Zenon DEF EnqueueSave
    <3>2. ~(d > 0)
      BY <3>1
    <3> QED
      BY <2>1, <2>2, <3>1, <3>2, Zenon
  <2>3. CASE EnqueuePush(id)
    BY <2>1, <2>3, Zenon DEF EnqueuePush
  <2> QED
    BY <1>1, <2>2, <2>3, Zenon
<1>4. NoFlags' /\ SweepClock'
  BY <1>2, <1>3, Zenon DEF LeaseInv, NoFlags, SweepClock
<1>5. now <= now'
  BY <1>2 DEF TypeOK, RedisType
<1>6. CASE EnqueueSave(id)
  <2>1. queue' = queue /\ epc[id] = "new"
    BY <1>6, Zenon DEF EnqueueSave
  <2>2. ListedOnce' /\ \A t \in Tasks : InQueue(t)' <=> InQueue(t)
    BY <2>1, Zenon DEF LeaseInv, ListedOnce, InQueue
  <2>3. ASSUME NEW t \in Tasks PROVE TaskLease(t)'
    <3>1. Unsent(t)' => Unsent(t)
      BY <1>3, <2>1, Zenon DEF Unsent
    <3>2. Lessens(t)
      BY <1>2, <1>5, <2>2, <3>1, AsideLessens, Zenon
    <3> QED
      BY <3>2, LessKeeps DEF LeaseInv
  <2> QED
    BY <1>4, <2>2, <2>3, Zenon DEF LeaseInv
<1>7. CASE EnqueuePush(id) /\ epc'[id] = "done"
  <2>0. TaskLease(id) /\ Unsent(id) /\ ~Active(id) /\ ~InQueue(id)
    BY <1>7, Zenon DEF EnqueuePush, LeaseInv, TaskLease, UnsentAlone, Unsent, Active
  <2>1. (\A t \in Tasks : InQueue(t)' <=> InQueue(t) \/ t = id) /\ ListedOnce'
    BY <1>7, <2>0, LPushPlaces, Zenon DEF EnqueuePush, LeaseInv, TypeOK
  <2>2. ASSUME NEW t \in Tasks, t # id PROVE TaskLease(t)'
    <3>1. Unsent(t)' => Unsent(t)
      BY <1>3, <2>2, Zenon DEF Unsent
    <3>2. Lessens(t)
      BY <1>2, <1>5, <2>1, <2>2, <3>1, AsideLessens, Zenon
    <3> QED
      BY <3>2, LessKeeps DEF LeaseInv
  <2>3. TaskLease(id)'
    <3>1. /\ \A w \in Workers : ~Fresh(w, id)' /\ ~Late(w, id)' /\ ~Granted(w, id)'
          /\ \A s \in Sweepers : ~Sweeping(s, id)'
          /\ lease'[id] = NoLease /\ ~Unsent(id)'
      BY <1>2, <1>7, <2>0, Zenon DEF TaskLease, UnsentAlone, Active, Fresh, Late, Granted, Sweeping, Unsent
    <3>2. UnsentAlone(id)' /\ OneActive(id)' /\ SweptAlone(id)'
      BY <3>1, Zenon DEF UnsentAlone, OneActive, SweptAlone
    <3>3. ActiveAlone(id)' /\ LateAlone(id)'
      BY <3>1, Zenon DEF ActiveAlone, LateAlone, Overdue
    <3> QED
      BY <3>2, <3>3 DEF TaskLease
  <2> QED
    BY <1>4, <2>1, <2>2, <2>3, Zenon DEF LeaseInv
<1> QED
  BY <1>3, <1>6, <1>7, Zenon

\* So do the clock, which only ends leases, and a process_delayed that finds no flag.
LEMMA TimeLease ==
    ASSUME TypeOK, TypeOK', LeaseInv, Tick \/ ProcessDelayed \/ UNCHANGED vars
    PROVE  LeaseInv'
<1>0. now \in Nat /\ \A s \in Sweepers : sweepNow[s] \in Nat
  BY Zenon DEF TypeOK, RedisType, SweepType
<1>1. /\ UNCHANGED <<pc, cur, until, lease, sweepNow, sweepCur, spc, epc>>
      /\ now' = now \/ (now < MaxTime /\ now' = now + 1)
  BY Zenon DEF Tick, ProcessDelayed, vars, redisVars, enqVars, workerVars, sweepVars
<1>2. now <= now' /\ SweepClock'
  BY <1>0, <1>1, QueueAssumptions DEF LeaseInv, SweepClock
<1>3. NoFlags' /\ ListedOnce' /\ \A t \in Tasks : InQueue(t)' => InQueue(t)
  <2>1. CASE Tick \/ UNCHANGED vars
    <3>1. UNCHANGED <<queue, flag>>
      BY <2>1, Zenon DEF Tick, vars, redisVars
    <3> QED
      BY <1>1, <3>1, Zenon DEF LeaseInv, NoFlags, ListedOnce, InQueue
  <2>2. CASE ProcessDelayed
    <3>1. \A t \in Tasks : ~HasFlag(t)
      BY <1>0 DEF HasFlag, LeaseInv, NoFlags
    <3>2. FlaggedIds = {} /\ MovedIds = {}
      BY <3>1 DEF FlaggedIds, MovedIds, DueIds
    <3>3. \A t \in Tasks : flag'[t] = flag[t]
      BY <2>2, <3>2, Zenon DEF ProcessDelayed
    <3>4. ListedOnce' /\ \A t \in Tasks : InQueue(t)' => InQueue(t)
      BY <2>2, <3>2, ProcessDelayedPlaces, Zenon DEF LeaseInv
    <3> QED
      BY <1>1, <3>3, <3>4, Zenon DEF LeaseInv, NoFlags
  <2> QED
    BY <2>1, <2>2
<1>4. ASSUME NEW t \in Tasks PROVE TaskLease(t)'
  <2>1. Unsent(t)' => Unsent(t)
    BY <1>1, Zenon DEF Unsent
  <2>2. Lessens(t)
    BY <1>1, <1>2, <1>3, <2>1, AsideLessens, Zenon
  <2> QED
    BY <2>2, LessKeeps DEF LeaseInv
<1> QED
  BY <1>2, <1>3, <1>4, Zenon DEF LeaseInv

\* A step of the sweep s leaves the workers alone.
SweepFrame(s) ==
    /\ UNCHANGED <<now, epc, flag, pc, cur, until>>
    /\ \A r \in Sweepers : r # s => spc'[r] = spc[r] /\ sweepCur'[r] = sweepCur[r]

\* The steps of a sweep that bring nothing of a task into being.
SweepQuiet(s) ==
    \/ SweepStart(s) \/ SweepScan(s) \/ SweepGet(s) \/ SweepSave(s) \/ SweepDelete(s) \/ SweepEnd(s)
    \/ SweepLease(s) /\ UNCHANGED spc

\* What moving one sweep does to it and to the others.
LEMMA SweepMoves ==
    ASSUME TypeOK, NEW s \in Sweepers
    PROVE  /\ \A step : spc' = [spc EXCEPT ![s] = step] =>
                 spc'[s] = step /\ \A r \in Sweepers : r # s => spc'[r] = spc[r]
           /\ \A t : sweepCur' = [sweepCur EXCEPT ![s] = t] =>
                 sweepCur'[s] = t /\ \A r \in Sweepers : r # s => sweepCur'[r] = sweepCur[r]
BY Zenon DEF TypeOK, SweepType

\* A sweep that neither settles on a lease nor pushes gives nobody more.
LEMMA SweepLessens ==
    ASSUME MayFail = FALSE, TypeOK, LeaseInv, NEW s \in Sweepers, SweepQuiet(s)
    PROVE  /\ UNCHANGED <<now, epc, flag, queue>> /\ SweepClock'
           /\ \A t \in Tasks : Lessens(t)
<1>1. UNCHANGED <<now, epc, flag, queue, pc, cur, until>>
  BY Zenon DEF SweepQuiet, SweepStart, SweepScan, SweepLease, SweepGet, SweepSave, SweepDelete, SweepEnd,
         redisVars, enqVars, workerVars
<1>2. SweepClock'
  <2>1. DOMAIN sweepNow = Sweepers /\ now \in Nat
    BY Zenon DEF TypeOK, SweepType, RedisType
  <2>2. sweepNow' = sweepNow \/ \E x \in {0, now} : sweepNow' = [sweepNow EXCEPT ![s] = x]
    BY DEF SweepQuiet, SweepStart, SweepScan, SweepLease, SweepGet, SweepSave, SweepDelete, SweepEnd
  <2> QED
    BY <1>1, <2>1, <2>2 DEF LeaseInv, SweepClock
<1>3. /\ \A r \in Sweepers : r # s => spc'[r] = spc[r] /\ sweepCur'[r] = sweepCur[r]
      /\ \/ spc'[s] \in {"idle", "scan", "next"} /\ spc[s] # "del" /\ lease' = lease
         \/ spc'[s] = "next" /\ spc[s] = "del" /\ lease' = [lease EXCEPT ![sweepCur[s]] = NoLease]
         \/ /\ sweepCur'[s] = sweepCur[s] /\ lease' = lease
            /\ spc[s] \in {"get", "save"} /\ spc'[s] \in {"save", "push"}
  <2>1. CASE SweepStart(s) \/ SweepScan(s)
    <3>1. /\ UNCHANGED <<lease, sweepCur>> /\ spc[s] \in {"idle", "scan"}
          /\ \E step \in {"scan", "next"} : spc' = [spc EXCEPT ![s] = step]
      BY <2>1, Zenon DEF SweepStart, SweepScan, redisVars
    <3> QED
      BY <3>1, SweepMoves, Zenon
  <2>2. CASE SweepGet(s)
    <3>1. /\ lease' = lease /\ spc[s] = "get"
          /\ \/ UNCHANGED sweepCur /\ spc' = [spc EXCEPT ![s] = "save"]
             \/ sweepCur' = [sweepCur EXCEPT ![s] = None] /\ spc' = [spc EXCEPT ![s] = "next"]
      BY <2>2 DEF SweepGet, SweepNext, redisVars
    <3>2. CASE UNCHANGED sweepCur /\ spc' = [spc EXCEPT ![s] = "save"]
      <4>1. spc'[s] = "save" /\ \A r \in Sweepers : r # s => spc'[r] = spc[r]
        BY <3>2, SweepMoves, Zenon
      <4> QED
        BY <3>1, <3>2, <4>1, Zenon
    <3>3. CASE sweepCur' = [sweepCur EXCEPT ![s] = None] /\ spc' = [spc EXCEPT ![s] = "next"]
      <4>1. spc'[s] = "next" /\ \A r \in Sweepers : r # s => spc'[r] = spc[r] /\ sweepCur'[r] = sweepCur[r]
        BY <3>3, SweepMoves, Zenon
      <4> QED
        BY <3>1, <4>1, Zenon
    <3> QED
      BY <3>1, <3>2, <3>3, Zenon
  <2>3. CASE SweepSave(s)
    <3>1. UNCHANGED <<lease, sweepCur>> /\ spc[s] = "save" /\ spc' = [spc EXCEPT ![s] = "push"]
      BY <2>3, Zenon DEF SweepSave
    <3> QED
      BY <3>1, SweepMoves, Zenon
  <2>4. CASE SweepDelete(s)
    <3>1. /\ spc[s] = "del" /\ spc' = [spc EXCEPT ![s] = "next"]
          /\ sweepCur' = [sweepCur EXCEPT ![s] = None]
          /\ lease' = [lease EXCEPT ![sweepCur[s]] = NoLease]
      BY <2>4 DEF SweepDelete, SweepNext
    <3> QED
      BY <3>1, SweepMoves, Zenon
  <2>5. CASE SweepEnd(s)
    <3>1. /\ spc[s] = "next" /\ spc' = [spc EXCEPT ![s] = "idle"]
          /\ sweepCur' = [sweepCur EXCEPT ![s] = None] /\ lease' = lease
      BY <2>5, Zenon DEF SweepEnd, redisVars
    <3> QED
      BY <3>1, SweepMoves, Zenon
  <2>6. CASE SweepLease(s) /\ UNCHANGED spc
    <3>1. /\ spc[s] = "next" /\ spc'[s] = "next" /\ lease' = lease
          /\ UNCHANGED sweepCur \/ \E t : sweepCur' = [sweepCur EXCEPT ![s] = t]
      BY <2>6, Zenon DEF SweepLease, redisVars
    <3> QED
      BY <2>6, <3>1, SweepMoves, Zenon
  <2> QED
    BY <2>1, <2>2, <2>3, <2>4, <2>5, <2>6, Zenon DEF SweepQuiet
<1>4. ASSUME NEW t \in Tasks PROVE Lessens(t)
  <2>1. \A w \in Workers :
          /\ Fresh(w, t)' <=> Fresh(w, t)
          /\ (Late(w, t)' <=> Late(w, t)) /\ (Granted(w, t)' <=> Granted(w, t))
          /\ until'[w] = until[w]
    BY <1>1, Zenon DEF Fresh, Late, Granted
  <2>2. now <= now' /\ (Unsent(t)' <=> Unsent(t)) /\ (InQueue(t)' <=> InQueue(t))
    BY <1>1 DEF TypeOK, RedisType, Unsent, InQueue
  <2>3. \A r \in Sweepers : r # s =>
          (Sweeping(r, t)' <=> Sweeping(r, t)) /\ (Cleans(r, t)' <=> Cleans(r, t))
    BY <1>3, Zenon DEF Sweeping, Cleans
  <2>4. (Sweeping(s, t)' => Sweeping(s, t)) /\ ~Cleans(s, t)'
    BY <1>3, Zenon DEF Sweeping, Cleans
  <2>5. \/ lease'[t] = NoLease
        \/ lease'[t] = lease[t] /\ ~Cleans(s, t)
    BY <1>3, Zenon DEF TypeOK, RedisType, Cleans
  <2> QED
    BY <2>1, <2>2, <2>3, <2>4, <2>5, Zenon DEF Lessens
<1> QED
  BY <1>1, <1>2, <1>4, Zenon

\* A step of a sweep leaves the workers, the clock and enqueue as they are.
LEMMA SweepFrameSame ==
    ASSUME TypeOK, NEW s \in Sweepers, SweepFrame(s)
    PROVE  /\ now' = now /\ now <= now' /\ (NoFlags <=> NoFlags')
           /\ \A t \in Tasks : Unsent(t)' <=> Unsent(t)
           /\ \A t \in Tasks, w \in Workers :
                 /\ (Fresh(w, t)' <=> Fresh(w, t)) /\ (Late(w, t)' <=> Late(w, t))
                 /\ (Granted(w, t)' <=> Granted(w, t)) /\ until'[w] = until[w]
           /\ \A t \in Tasks : Overdue(t)' <=> Overdue(t)
           /\ \A t \in Tasks, r \in Sweepers : r # s =>
                 (Sweeping(r, t)' <=> Sweeping(r, t)) /\ (Cleans(r, t)' <=> Cleans(r, t))
<1>0. now' = now /\ now \in Nat
  BY Zenon DEF SweepFrame, TypeOK, RedisType
<1>1. now' = now /\ now <= now' /\ (NoFlags <=> NoFlags')
  <2>1. now <= now'
    BY <1>0
  <2>2. NoFlags <=> NoFlags'
    BY Zenon DEF SweepFrame, NoFlags
  <2> QED
    BY <1>0, <2>1, <2>2
<1>2. \A t \in Tasks : Unsent(t)' <=> Unsent(t)
  BY Zenon DEF SweepFrame, Unsent
<1>3. \A t \in Tasks, w \in Workers :
         /\ (Fresh(w, t)' <=> Fresh(w, t)) /\ (Late(w, t)' <=> Late(w, t))
         /\ (Granted(w, t)' <=> Granted(w, t)) /\ until'[w] = until[w]
  BY Zenon DEF SweepFrame, Fresh, Late, Granted
<1>4. \A t \in Tasks : Overdue(t)' <=> Overdue(t)
  BY <1>1, <1>3, Zenon DEF Overdue
<1>5. \A t \in Tasks, r \in Sweepers : r # s =>
         (Sweeping(r, t)' <=> Sweeping(r, t)) /\ (Cleans(r, t)' <=> Cleans(r, t))
  BY Zenon DEF SweepFrame, Sweeping, Cleans
<1> QED
  BY <1>1, <1>2, <1>3, <1>4, <1>5, Zenon

\* The sweep finds a lease that is over: so are those of all who work on the task.
LEMMA FoundLease ==
    ASSUME \A r, s \in Sweepers : r = s, TypeOK, TypeOK', LeaseInv,
           NEW s \in Sweepers, SweepLease(s), spc' # spc
    PROVE  LeaseInv'
<1>1. PICK id \in sweepKeys[s] :
         /\ HasLease(id) /\ lease[id].exp < sweepNow[s]
         /\ sweepCur' = [sweepCur EXCEPT ![s] = id]
         /\ spc' = [spc EXCEPT ![s] = "get"]
  BY Zenon DEF SweepLease
<1>2. id \in Tasks
  BY Zenon DEF TypeOK, SweepType
<1>3. /\ spc[s] = "next" /\ spc'[s] = "get" /\ sweepCur'[s] = id
      /\ UNCHANGED <<queue, lease, sweepNow>> /\ SweepFrame(s)
  BY <1>1, SweepMoves, Zenon DEF SweepLease, redisVars, enqVars, workerVars, SweepFrame
<1>4. /\ ListedOnce' /\ \A t \in Tasks : InQueue(t)' <=> InQueue(t)
  BY <1>3, SameLists, Zenon DEF LeaseInv
<1>5. NoFlags' /\ SweepClock'
  BY <1>3, SweepFrameSame, Zenon DEF LeaseInv, SweepClock
<1>6. \A t \in Tasks, r \in Sweepers : ~Cleans(r, t) /\ ~Cleans(r, t)' /\ (Sweeping(r, t)' => t = id)
  BY <1>3, Zenon DEF Cleans, Sweeping
<1>7. \A t \in Tasks : ~Cleaning(t) /\ ~Cleaning(t)' /\ (Active(t)' <=> Active(t))
  BY <1>3, <1>4, <1>6, SweepFrameSame, Zenon DEF Cleaning, Active
<1>8. ASSUME NEW t \in Tasks, t # id PROVE TaskLease(t)'
  <2>1. Lessens(t)
    BY <1>3, <1>4, <1>6, <1>8, SweepFrameSame, Zenon DEF Lessens
  <2> QED
    BY <2>1, LessKeeps, Zenon DEF LeaseInv
<1>9. TaskLease(id)'
  <2>0. TaskLease(id) /\ lease[id] # NoLease /\ lease'[id] = lease[id]
    <3>1. TaskLease(id) /\ lease'[id] = lease[id]
      BY <1>2, <1>3, Zenon DEF LeaseInv
    <3>2. now < lease[id].dies /\ now \in Nat
      BY <1>1, Zenon DEF HasLease, TypeOK, RedisType
    <3>3. NoLease.dies = 0
      BY Zenon DEF NoLease
    <3> QED
      BY <3>1, <3>2, <3>3
  <2>1. ~Active(id) /\ ~Unsent(id)
    BY <1>2, <1>7, <2>0, Zenon DEF TaskLease, ActiveAlone, UnsentAlone
  <2>2. Overdue(id)
    <3>1. SUFFICES ASSUME NEW v \in Workers, Late(v, id) PROVE until[v] < now
      BY Zenon DEF Overdue
    <3>2. until[v] <= lease[id].exp
      BY <1>2, <1>7, <2>0, <3>1, Zenon DEF TaskLease, LateAlone
    <3>3. sweepNow[s] <= now
      BY Zenon DEF LeaseInv, SweepClock
    <3>4. until[v] \in Nat /\ now \in Nat /\ sweepNow[s] \in Nat /\ lease[id].exp \in Nat
      BY <1>2, Zenon DEF TypeOK, RedisType, WorkerType, SweepType
    <3>5. lease[id].exp < sweepNow[s]
      BY <1>1, Zenon
    <3> QED
      BY <3>2, <3>3, <3>4, <3>5
  <2>3. UnsentAlone(id)' /\ SweptAlone(id)'
    BY <1>2, <1>3, <1>7, <2>1, <2>2, SweepFrameSame, Zenon DEF UnsentAlone, SweptAlone
  <2>4. OneActive(id)'
    BY <1>2, <1>3, <1>4, <2>0, SweepFrameSame, Zenon DEF TaskLease, OneActive
  <2>5. ActiveAlone(id)'
    BY <1>2, <1>3, <1>7, <2>0, <2>1, SweepFrameSame, Zenon DEF TaskLease, ActiveAlone
  <2>6. LateAlone(id)'
    <3>1. LateAlone(id) /\ lease'[id] = lease[id] /\ now' = now /\ ~Cleaning(id)
      BY <1>2, <1>3, <1>7, <2>0, SweepFrameSame, Zenon DEF TaskLease
    <3>2. \A w \in Workers : (Late(w, id)' <=> Late(w, id)) /\ until'[w] = until[w]
      BY <1>2, <1>3, SweepFrameSame, Zenon
    <3> QED
      BY <3>1, <3>2, Zenon DEF LateAlone
  <2> QED
    BY <2>3, <2>4, <2>5, <2>6, Zenon DEF TaskLease
<1> QED
  BY <1>4, <1>5, <1>8, <1>9, Zenon DEF LeaseInv

\* The sweep pushes the task: a new copy, while all who work on it are overdue.
LEMMA PushLease ==
    ASSUME \A r, s \in Sweepers : r = s, TypeOK, TypeOK', LeaseInv,
           NEW s \in Sweepers, SweepPush(s)
    PROVE  LeaseInv'
<1>1. PICK id \in Tasks : id = sweepCur[s]
  BY Zenon DEF SweepPush, TypeOK, SweepType
<1>2. /\ spc[s] = "push" /\ spc'[s] = "del" /\ sweepCur' = sweepCur /\ LPush(id)
      /\ UNCHANGED <<lease, sweepNow>> /\ SweepFrame(s)
  BY <1>1, SweepMoves, Zenon DEF SweepPush, redisVars, enqVars, workerVars, SweepFrame
<1>3. TaskLease(id) /\ Sweeping(s, id)
  BY <1>1, <1>2, Zenon DEF LeaseInv, Sweeping
<1>4. ~Active(id) /\ Overdue(id) /\ ~InQueue(id) /\ ~Unsent(id)
  BY <1>3, Zenon DEF TaskLease, SweptAlone, UnsentAlone, Active
<1>5. (\A t \in Tasks : InQueue(t)' <=> InQueue(t) \/ t = id) /\ ListedOnce'
  BY <1>2, <1>4, LPushPlaces, Zenon DEF LeaseInv, TypeOK
<1>6. NoFlags' /\ SweepClock'
  BY <1>2, SweepFrameSame, Zenon DEF LeaseInv, SweepClock
<1>7. /\ \A t \in Tasks, r \in Sweepers : ~Sweeping(r, t)'
      /\ \A t \in Tasks, r \in Sweepers : ~Cleans(r, t)
      /\ \A t \in Tasks, r \in Sweepers : Cleans(r, t)' => t = id
      /\ Cleans(s, id)'
  BY <1>1, <1>2, Zenon DEF Cleans, Sweeping
<1>8. ASSUME NEW t \in Tasks, t # id PROVE TaskLease(t)'
  <2>1. Lessens(t)
    BY <1>2, <1>5, <1>7, <1>8, SweepFrameSame, Zenon DEF Lessens
  <2> QED
    BY <2>1, LessKeeps, Zenon DEF LeaseInv
<1>9. TaskLease(id)'
  <2>1. /\ \A v \in Workers : ~Fresh(v, id)' /\ ~Granted(v, id)'
        /\ Overdue(id)' /\ Cleaning(id)' /\ ~Unsent(id)'
    BY <1>2, <1>4, <1>7, SweepFrameSame, Zenon DEF Active, Fresh, Granted, Cleaning
  <2>2. UnsentAlone(id)' /\ SweptAlone(id)' /\ OneActive(id)'
    BY <1>7, <2>1, Zenon DEF UnsentAlone, SweptAlone, OneActive
  <2>3. ActiveAlone(id)'
    BY <2>1 DEF ActiveAlone
  <2>4. LateAlone(id)'
    BY <1>2, <1>3, <2>1, SweepFrameSame, Zenon DEF TaskLease, LateAlone
  <2> QED
    BY <2>2, <2>3, <2>4, Zenon DEF TaskLease
<1> QED
  BY <1>5, <1>6, <1>8, <1>9, Zenon DEF LeaseInv

\* Every step of a sweep keeps the invariant, if there is only one.
LEMMA SweepLeases ==
    ASSUME \A r, s \in Sweepers : r = s, MayFail = FALSE, TypeOK, TypeOK', LeaseInv,
           NEW s \in Sweepers, Sweep(s)
    PROVE  LeaseInv'
<1>1. CASE SweepQuiet(s)
  <2>1. /\ UNCHANGED <<now, epc, flag, queue>> /\ SweepClock'
        /\ \A t \in Tasks : Lessens(t)
    BY <1>1, SweepLessens, Zenon
  <2>2. NoFlags' /\ ListedOnce'
    BY <2>1, Zenon DEF LeaseInv, NoFlags, ListedOnce
  <2>3. \A t \in Tasks : TaskLease(t)'
    BY <2>1, LessKeeps, Zenon DEF LeaseInv
  <2> QED
    BY <2>1, <2>2, <2>3, Zenon DEF LeaseInv
<1>2. CASE SweepLease(s) /\ spc' # spc
  BY <1>2, FoundLease
<1>3. CASE SweepPush(s)
  BY <1>3, PushLease
<1> QED
  BY <1>1, <1>2, <1>3, Zenon DEF Sweep, SweepQuiet

\* The lease of a task is exclusive although dequeue, ack and nack check nobody's
\* lease: with one requeue_expired at a time that runs to its end, and no delays,
\* two workers with time left on their leases never work on the same task.
THEOREM LeasesExclusive ==
    ASSUME \A r, s \in Sweepers : r = s, MayFail = FALSE, Delays \subseteq {0}
    PROVE  Spec => []ExclusiveLease
<1>1. Init => LeaseInv
  <2> SUFFICES ASSUME Init PROVE LeaseInv
    OBVIOUS
  <2>1. \A p \in Priorities : queue[p] = <<>> /\ DOMAIN queue[p] = {}
    BY DEF Init
  <2>2. ListedOnce /\ \A t \in Tasks : ~InQueue(t)
    BY <2>1, Zenon DEF ListedOnce, InQueue, Has
  <2>3. /\ \A w \in Workers : pc[w] = "pop"
        /\ \A s \in Sweepers : spc[s] = "idle" /\ sweepNow[s] = 0
        /\ \A t \in Tasks : flag[t] = 0 /\ epc[t] = "new" /\ lease[t] = NoLease
        /\ now = 0
    BY Zenon DEF Init
  <2>4. /\ \A w \in Workers, t \in Tasks : ~Fresh(w, t) /\ ~Late(w, t) /\ ~Granted(w, t)
        /\ \A s \in Sweepers, t \in Tasks : ~Sweeping(s, t) /\ ~Cleans(s, t)
    BY <2>3, Zenon DEF Fresh, Late, Granted, Sweeping, Cleans
  <2>5. ASSUME NEW t \in Tasks PROVE TaskLease(t)
    <3>1. ~Active(t) /\ Overdue(t)
      BY <2>2, <2>4, Zenon DEF Active, Overdue
    <3>2. UnsentAlone(t) /\ SweptAlone(t) /\ OneActive(t)
      BY <2>2, <2>3, <2>4, <3>1, Zenon DEF UnsentAlone, SweptAlone, OneActive
    <3>3. ActiveAlone(t) /\ LateAlone(t)
      BY <2>4, <3>1, Zenon DEF ActiveAlone, LateAlone
    <3> QED
      BY <3>2, <3>3, Zenon DEF TaskLease
  <2>6. NoFlags /\ SweepClock
    BY <2>3, QueueAssumptions DEF NoFlags, SweepClock
  <2> QED
    BY <2>2, <2>5, <2>6, Zenon DEF LeaseInv
<1>2. TypeOK /\ TypeOK' /\ LeaseInv /\ [Next]_vars => LeaseInv'
  <2> SUFFICES ASSUME TypeOK, TypeOK', LeaseInv, [Next]_vars PROVE LeaseInv'
    OBVIOUS
  <2>1. ASSUME NEW t \in Tasks, Enqueue(t) \/ EnqueueDies(t) PROVE LeaseInv'
    BY <2>1, EnqueueLease, Zenon
  <2>2. ASSUME NEW w \in Workers, Worker(w) \/ TryFails(w) \/ WorkerDies(w) PROVE LeaseInv'
    BY <2>2, WorkerLease, Zenon
  <2>3. ASSUME NEW s \in Sweepers, Sweep(s) PROVE LeaseInv'
    BY <2>3, SweepLeases, Zenon
  <2> QED
    BY <2>1, <2>2, <2>3, TimeLease, Zenon DEF Next
<1>3. TypeOK /\ LeaseInv => ExclusiveLease
  <2> SUFFICES ASSUME TypeOK, LeaseInv, NEW t \in Tasks, NEW v \in Workers, NEW w \in Workers,
                      Owns(v, t), Owns(w, t), now <= until[v], now <= until[w]
               PROVE  v = w
    BY Zenon DEF ExclusiveLease
  <2>1. TaskLease(t) /\ now \in Nat /\ until[v] \in Nat /\ until[w] \in Nat
    BY Zenon DEF LeaseInv, TypeOK, RedisType, WorkerType
  <2>2. (Fresh(v, t) \/ Late(v, t)) /\ (Fresh(w, t) \/ Late(w, t))
    BY Zenon DEF Owns, Holds, Fresh, Late
  <2>3. CASE Fresh(v, t) \/ Fresh(w, t)
    <3>1. Overdue(t)
      BY <2>1, <2>3, Zenon DEF TaskLease, ActiveAlone, Active
    <3>2. ~Late(v, t) /\ ~Late(w, t)
      BY <2>1, <3>1 DEF Overdue
    <3> QED
      BY <2>1, <2>2, <3>2, Zenon DEF TaskLease, OneActive
  <2>4. CASE Late(v, t) /\ Late(w, t)
    <3>1. v = w \/ until[v] < now \/ until[w] < now
      BY <2>1, <2>4, Zenon DEF TaskLease, LateAlone
    <3> QED
      BY <2>1, <3>1
  <2> QED
    BY <2>2, <2>3, <2>4, Zenon
<1> QED
  BY <1>1, <1>2, <1>3, TypeCorrect, PTL DEF Spec
=============================================================================
