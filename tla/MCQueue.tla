------------------------------ MODULE MCQueue ------------------------------
(***************************************************************************)
(* Small instances of the task queue for TLC.                              *)
(***************************************************************************)
EXTENDS DistributedTaskQueue, TLC

CONSTANTS t1, t2, t3, w1, w2, s1, s2

\* t1 is urgent, t2 is not, and t3 goes to a list that no worker polls.
MCPriorityOf ==
    [t \in Tasks |-> CASE t = t1 -> MaxPriority [] t = t2 -> 0 [] t = t3 -> MaxPriority + 1]

\* Enqueue calls without end: an id that is settled and nowhere any more stands
\* for the next task of its priority.
Recycle(t) ==
    /\ Get(t).st \in {"completed", "failed"} /\ epc[t] = "done"
    /\ ~InQueue(t) /\ delayed[t] = 0 /\ ~HasLease(t) /\ \A w \in Workers : cur[w] # t
    /\ task' = [task EXCEPT ![t] = NoKey] /\ epc' = [epc EXCEPT ![t] = "new"]
    /\ UNCHANGED <<now, queue, delayed, flag, lease, delay, due, workerVars, sweepVars>>

StreamSpec ==
    /\ Init /\ [][Next \/ \E t \in Tasks : Recycle(t)]_vars
    /\ \A t \in Tasks : WF_vars(Enqueue(t))
    /\ \A w \in Workers : WF_vars(Worker(w))
============================================================================
