--------------------------- MODULE LeaderElection ---------------------------
(***************************************************************************)
(* The electors of app/cluster/election.py over the lease they share, and  *)
(* what ClusterManager does to them (app/cluster/cluster.py: leave, and    *)
(* the rebalance of its leader watch). The lease is a TTL entry of a       *)
(* LeaseStore (lease), a key with a TTL (redis), or a coordination.k8s.io  *)
(* Lease object that nothing expires (kubernetes). A call of the lease     *)
(* strategy is one step; the others wait for the server, so the server's   *)
(* step and the node's use of the answer are two.                          *)
(***************************************************************************)
EXTENDS Naturals, FiniteSets

CONSTANTS
    Nodes,      \* node ids
    None,       \* no leader
    Strategies, \* values of config.election_strategy to consider
    TTL,        \* config.lease_ttl, in ticks
    MaxLate,    \* bound on leases that run out under the node they commit
    MaxWrong,   \* bound on rebalances against a leader that is alive
    MaxStops    \* bound on crashes and departures

ASSUME ElectionAssumptions ==
    /\ None \notin Nodes /\ Strategies \subseteq {"lease", "redis", "kubernetes"}
    /\ TTL \in Nat \ {0} /\ MaxLate \in Nat /\ MaxWrong \in Nat /\ MaxStops \in Nat

VARIABLES
    strategy, \* config.election_strategy of the cluster
    holder,   \* who holds the lease, or None
    left,     \* ticks before it expires
    late,     \* how often it has run out under a committed node
    wrong,    \* how often a rebalance has acted against a leader that was alive
    running,  \* nodes whose elector runs
    stops,    \* how many crashes and departures there have been
    leader,   \* _leader of each elector
    epoch,    \* _epoch of each elector
    pc,       \* where its elect or step_down call is, or its leave
    got       \* the holder it has been told of

leaseVars == <<holder, left>>
counters == <<late, wrong, stops>>
vars == <<leaseVars, counters, strategy, running, leader, epoch, pc, got>>

Labels == {"idle", "expired", "won", "lost", "told", "renewed", "created",
           "stepdown", "deleted", "left"}

Init ==
    /\ strategy \in Strategies
    /\ holder = None /\ left = 0
    /\ running = Nodes /\ late = 0 /\ wrong = 0 /\ stops = 0
    /\ leader = [n \in Nodes |-> None] /\ epoch = [n \in Nodes |-> 0]
    /\ pc = [n \in Nodes |-> "idle"] /\ got = [n \in Nodes |-> None]

Live == holder # None /\ left > 0

\* The process of n is there: it runs, or is leaving.
Alive(n) == n \in running \/ pc[n] # "idle"

\* A node that leads, or has been told that it may and will act on it; one
\* that leaves is committed until its step_down has reached the server.
Committed(n) ==
    \/ n \in running /\ leader[n] = n
    \/ pc[n] \in {"won", "renewed", "created", "stepdown"}
    \/ pc[n] = "told" /\ got[n] = n

\* Mutants: the remaining time falls below zero; the lease never runs out.
TickPastZero ==
    /\ strategy # "kubernetes" /\ left' = left - 1 /\ UNCHANGED holder
    /\ UNCHANGED <<counters, strategy, running, leader, epoch, pc, got>>

TickNoExpiry ==
    /\ left > 1 /\ left' = left - 1 /\ UNCHANGED holder
    /\ UNCHANGED <<counters, strategy, running, leader, epoch, pc, got>>

\* Time passes, and at the end of its TTL the lease is gone. That it was gone
\* under a committed node (a renewal, an answer or a step_down that took
\* longer than the TTL) is counted.
Tick ==
    /\ strategy # "kubernetes" /\ left > 0
    /\ left' = left - 1
    /\ holder' = IF left = 1 THEN None ELSE holder
    /\ IF left = 1 /\ Committed(holder)
       THEN late < MaxLate /\ late' = late + 1
       ELSE UNCHANGED late
    /\ UNCHANGED <<wrong, stops, strategy, running, leader, epoch, pc, got>>

\* The lease is n's for another TTL.
Grant(n) == holder' = n /\ left' = TTL

Free == holder' = None /\ left' = 0

\* _changed: the elector learns who leads, and with which epoch.
Changed(n, l, e) == leader' = [leader EXCEPT ![n] = l] /\ epoch' = [epoch EXCEPT ![n] = e]

Goto(n, label) == pc' = [pc EXCEPT ![n] = label]

\* node.leader_epoch + 1: the elector's own NodeInfo never gets an epoch.
NextEpoch == 1

\* A call of elect on the server may begin: from the elector's loop, or, while
\* leave stops the other components, from the leader watch, which runs on.
MayElect(n) ==
    \/ n \in running /\ pc[n] = "idle"
    \/ pc[n] = "left" /\ leader[n] \notin {n, None}
-----------------------------------------------------------------------------
(* LeaseElection: renew, or acquire, or look who holds the lease. *)

LeaseRenew(n) ==
    /\ strategy = "lease" /\ n \in running /\ leader[n] = n
    /\ IF Live /\ holder = n THEN Grant(n) ELSE UNCHANGED leaseVars
    /\ UNCHANGED <<counters, strategy, running, leader, epoch, pc, got>>

\* Mutant: a live lease is taken over.
LeaseAcquireSteals(n) ==
    /\ strategy = "lease" /\ n \in running /\ leader[n] # n
    /\ Grant(n) /\ Changed(n, n, NextEpoch)
    /\ UNCHANGED <<counters, strategy, running, pc, got>>

LeaseAcquire(n) ==
    /\ strategy = "lease" /\ n \in running /\ leader[n] # n
    /\ IF Live /\ holder # n
       THEN Changed(n, holder, epoch[n]) /\ UNCHANGED leaseVars
       ELSE Grant(n) /\ Changed(n, n, NextEpoch)
    /\ UNCHANGED <<counters, strategy, running, pc, got>>
-----------------------------------------------------------------------------
(* RedisElection: expire, or set_nx and then get, on the server and back. *)

\* EXPIRE prolongs whatever key is there, whoever wrote it.
RedisExpire(n) ==
    /\ strategy = "redis" /\ n \in running /\ pc[n] = "idle" /\ leader[n] = n
    /\ IF Live
       THEN left' = TTL /\ UNCHANGED <<holder, pc>>
       ELSE Goto(n, "expired") /\ UNCHANGED leaseVars
    /\ UNCHANGED <<counters, strategy, running, leader, epoch, got>>

RedisExpired(n) ==
    /\ pc[n] = "expired" /\ Goto(n, "idle")
    /\ Changed(n, None, epoch[n])
    /\ UNCHANGED <<leaseVars, counters, strategy, running, got>>

RedisSetNx(n) ==
    /\ strategy = "redis" /\ MayElect(n) /\ leader[n] # n
    /\ IF Live THEN Goto(n, "lost") /\ UNCHANGED leaseVars ELSE Goto(n, "won") /\ Grant(n)
    /\ UNCHANGED <<counters, strategy, running, leader, epoch, got>>

RedisWon(n) ==
    /\ pc[n] = "won" /\ Goto(n, "idle")
    /\ Changed(n, n, NextEpoch)
    /\ UNCHANGED <<leaseVars, counters, strategy, running, got>>

RedisGet(n) ==
    /\ pc[n] = "lost" /\ Goto(n, "told")
    /\ got' = [got EXCEPT ![n] = holder]
    /\ UNCHANGED <<leaseVars, counters, strategy, running, leader, epoch>>

\* Mutant: what get returned is ignored.
RedisToldNothing(n) ==
    /\ strategy = "redis" /\ pc[n] = "told" /\ Goto(n, "idle")
    /\ UNCHANGED <<leaseVars, counters, strategy, running, leader, epoch, got>>

RedisTold(n) ==
    /\ strategy = "redis" /\ pc[n] = "told" /\ Goto(n, "idle")
    /\ IF got[n] # None THEN Changed(n, got[n], epoch[n]) ELSE UNCHANGED <<leader, epoch>>
    /\ UNCHANGED <<leaseVars, counters, strategy, running, got>>
-----------------------------------------------------------------------------
(* KubernetesLeaseElection: read the Lease, then replace or create it; that  *)
(* its renewTime is old is never looked at.                                  *)

KubeGet(n) ==
    /\ strategy = "kubernetes" /\ MayElect(n) /\ Goto(n, "told")
    /\ got' = [got EXCEPT ![n] = holder]
    /\ UNCHANGED <<leaseVars, counters, strategy, running, leader, epoch>>

KubeOther(n) ==
    /\ strategy = "kubernetes" /\ pc[n] = "told" /\ got[n] \notin {n, None}
    /\ Goto(n, "idle") /\ Changed(n, got[n], epoch[n])
    /\ UNCHANGED <<leaseVars, counters, strategy, running, got>>

\* PUT, which fails when there is nothing to replace.
KubePut(n) ==
    /\ strategy = "kubernetes" /\ pc[n] = "told" /\ got[n] = n
    /\ IF holder # None
       THEN Grant(n) /\ Goto(n, "renewed")
       ELSE Goto(n, "idle") /\ UNCHANGED leaseVars
    /\ UNCHANGED <<counters, strategy, running, leader, epoch, got>>

KubeRenewed(n) ==
    /\ pc[n] = "renewed" /\ Goto(n, "idle")
    /\ Changed(n, n, epoch[n])
    /\ UNCHANGED <<leaseVars, counters, strategy, running, got>>

\* Mutant: POST replaces an existing Lease.
KubePostUpserts(n) ==
    /\ strategy = "kubernetes" /\ pc[n] = "told" /\ got[n] = None
    /\ Grant(n) /\ Goto(n, "created")
    /\ UNCHANGED <<counters, strategy, running, leader, epoch, got>>

\* POST, which fails when there is a Lease by now.
KubePost(n) ==
    /\ strategy = "kubernetes" /\ pc[n] = "told" /\ got[n] = None
    /\ IF holder = None
       THEN Grant(n) /\ Goto(n, "created")
       ELSE Goto(n, "idle") /\ UNCHANGED leaseVars
    /\ UNCHANGED <<counters, strategy, running, leader, epoch, got>>

KubeCreated(n) ==
    /\ pc[n] = "created" /\ Goto(n, "idle")
    /\ Changed(n, n, epoch[n] + 1)
    /\ UNCHANGED <<leaseVars, counters, strategy, running, got>>
-----------------------------------------------------------------------------
(* step_down of the strategies with a server, called by leave and rebalance. *)

After(n) == IF n \in running THEN "idle" ELSE "left"

\* The lease is deleted whoever holds it by now.
StepDownDelete(n) ==
    /\ strategy # "lease" /\ pc[n] = "stepdown"
    /\ IF holder # None
       THEN Free /\ Goto(n, "deleted")
       ELSE UNCHANGED leaseVars /\ Goto(n, After(n))
    /\ UNCHANGED <<counters, strategy, running, leader, epoch, got>>

StepDownDone(n) ==
    /\ pc[n] = "deleted" /\ Goto(n, After(n)) /\ Changed(n, None, epoch[n])
    /\ UNCHANGED <<leaseVars, counters, strategy, running, got>>
-----------------------------------------------------------------------------
(* ClusterManager.leave. *)

\* The elector is stopped, its elect call cancelled. A call the leader watch
\* made goes on.
LeaveStop(n) ==
    /\ n \in running /\ stops < MaxStops /\ stops' = stops + 1
    /\ running' = running \ {n}
    /\ \/ Goto(n, IF leader[n] = n THEN "stepdown" ELSE "left")
       \/ pc[n] # "idle" /\ leader[n] \notin {n, None} /\ UNCHANGED pc
    /\ UNCHANGED <<leaseVars, late, wrong, strategy, leader, epoch, got>>

\* LeaseElection.step_down: LeaseStore.release gives back the node's own lease.
LeaseStepDown(n) ==
    /\ strategy = "lease" /\ pc[n] = "stepdown" /\ Goto(n, "left")
    /\ IF holder = n THEN Free /\ Changed(n, None, epoch[n]) ELSE UNCHANGED <<leaseVars, leader, epoch>>
    /\ UNCHANGED <<counters, strategy, running, got>>

LeaveEnd(n) ==
    /\ pc[n] = "left" /\ Goto(n, "idle")
    /\ UNCHANGED <<leaseVars, counters, strategy, running, leader, epoch, got>>
-----------------------------------------------------------------------------
(* _watch_leader_failover and rebalance, when the node store says that the   *)
(* leader is unknown or FAILED. It may say so of a leader that is alive (no  *)
(* heartbeat for a while, or never discovered), which is counted.            *)

Suspects(n) ==
    /\ leader[n] # None
    /\ IF Alive(leader[n]) THEN wrong < MaxWrong /\ wrong' = wrong + 1 ELSE UNCHANGED wrong

\* The leader's lease is released for it, and then elect is called. A node
\* that gives up its own has nothing left for step_down to release and for
\* elect to renew: it goes on as a leader without a lease.
LeaseRebalance(n) ==
    /\ strategy = "lease" /\ (n \in running \/ pc[n] = "left") /\ Suspects(n)
    /\ LET free == holder \in {None, leader[n]}
       IN IF leader[n] = n
          THEN UNCHANGED <<leader, epoch>> /\ IF free THEN Free ELSE UNCHANGED leaseVars
          ELSE IF free \/ holder = n
               THEN Grant(n) /\ Changed(n, n, NextEpoch)
               ELSE UNCHANGED leaseVars /\ Changed(n, holder, epoch[n])
    /\ UNCHANGED <<late, stops, strategy, running, pc, got>>

\* A node that suspects itself steps down first; against another leader the
\* rebalance is just a call of elect, as any other.
RebalanceStepDown(n) ==
    /\ strategy # "lease" /\ n \in running /\ pc[n] = "idle" /\ leader[n] = n /\ Suspects(n)
    /\ Goto(n, "stepdown")
    /\ UNCHANGED <<leaseVars, late, stops, strategy, running, leader, epoch, got>>
-----------------------------------------------------------------------------
(* Processes that die, and new ones with the same node id. *)

Crash(n) ==
    /\ \/ n \in running /\ stops < MaxStops /\ stops' = stops + 1
       \/ n \notin running /\ pc[n] # "idle" /\ UNCHANGED stops
    /\ running' = running \ {n} /\ Goto(n, "idle")
    /\ UNCHANGED <<leaseVars, late, wrong, strategy, leader, epoch, got>>

Restart(n) ==
    /\ ~Alive(n) /\ running' = running \cup {n}
    /\ Changed(n, None, 0) /\ got' = [got EXCEPT ![n] = None]
    /\ UNCHANGED <<leaseVars, counters, strategy, pc>>
-----------------------------------------------------------------------------
\* What a node does without anything going wrong.
Elect(n) ==
    \/ LeaseRenew(n) \/ LeaseAcquire(n)
    \/ RedisExpire(n) \/ RedisExpired(n) \/ RedisSetNx(n) \/ RedisWon(n)
    \/ RedisGet(n) \/ RedisTold(n)
    \/ KubeGet(n) \/ KubeOther(n) \/ KubePut(n) \/ KubeRenewed(n)
    \/ KubePost(n) \/ KubeCreated(n)
    \/ StepDownDelete(n) \/ StepDownDone(n) \/ LeaseStepDown(n) \/ LeaveEnd(n)

Rebalance(n) == LeaseRebalance(n) \/ RebalanceStepDown(n)

Next ==
    \/ Tick
    \/ \E n \in Nodes : Elect(n) \/ Rebalance(n) \/ LeaveStop(n) \/ Crash(n) \/ Restart(n)

Spec == Init /\ [][Next]_vars
-----------------------------------------------------------------------------
TypeOK ==
    /\ strategy \in Strategies
    /\ holder \in Nodes \cup {None} /\ left \in 0..TTL
    /\ late \in 0..MaxLate /\ wrong \in 0..MaxWrong /\ stops \in 0..MaxStops
    /\ running \subseteq Nodes
    /\ leader \in [Nodes -> Nodes \cup {None}] /\ epoch \in [Nodes -> Nat]
    /\ pc \in [Nodes -> Labels] /\ got \in [Nodes -> Nodes \cup {None}]

\* Nothing has come too late and nobody has been suspected wrongly.
Sound == late = 0 /\ wrong = 0

OneLeader == \A m, n \in running : leader[m] = m /\ leader[n] = n => m = n

\* At most one running node takes itself for the leader, through crashes,
\* departures, rebalances and restarts, until a lease has run out under the
\* node it commits or a leader that is alive has been rebalanced away.
SingleLeader == Sound => OneLeader

\* Until then a node commits to leading only under a live lease of its own,
\* which is also what keeps the DELETE of a leaving node from taking the lease
\* of its successor.
CommittedHolds == Sound => \A n \in Nodes : Committed(n) => Live /\ holder = n

\* Electors keep running, leaving nodes go on to leave, servers answer and
\* time passes.
FairSpec == Spec /\ WF_vars(Tick) /\ \A n \in Nodes : WF_vars(Elect(n))

\* However the first leaders crash, leave or come back, the running nodes end
\* up with the same leader, one of them, unless one of the two has happened.
\* Not so with Kubernetes, where nobody replaces a leader that crashed.
Agreed == running = {} \/ \E l \in running : \A n \in running : leader[n] = l
Converges == strategy # "kubernetes" => <>[](Agreed \/ ~Sound)

\* Whatever came too late and whoever was suspected, the cluster does not stay
\* without a leader: with leases that expire, a running node comes to lead.
TakenOver == strategy # "kubernetes" => []<>(running = {} \/ \E l \in running : leader[l] = l)

\* Two leaders at once do not last.
SplitBrainHeals == []<>OneLeader
=============================================================================
