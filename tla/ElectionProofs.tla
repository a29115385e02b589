--------------------------- MODULE ElectionProofs ---------------------------
(***************************************************************************)
(* CommittedHolds and SingleLeader for any set of nodes, any TTL, every    *)
(* strategy and any number of late leases, wrong suspicions and stops. The *)
(* inductive invariant adds to CommittedHolds that a lease without a       *)
(* holder has no time left and the reverse, and that a running node steps  *)
(* down only after it has been suspected wrongly.                          *)
(***************************************************************************)
EXTENDS LeaderElection, TLAPS

Ties ==
    /\ (holder # None) <=> (left > 0)
    /\ Sound => \A n \in running : pc[n] \notin {"stepdown", "deleted"}

IInv == TypeOK /\ CommittedHolds /\ Ties

\* The type invariant of LeaderElection.
THEOREM ElectionTypes == Spec => []TypeOK
<1>1. Init => TypeOK
  BY ElectionAssumptions DEF Init, TypeOK, Labels
<1>2. TypeOK /\ [Next]_vars => TypeOK'
  <2> SUFFICES ASSUME TypeOK, [Next]_vars PROVE TypeOK'
    OBVIOUS
  <2> USE ElectionAssumptions DEF TypeOK, Labels
  <2>1. CASE UNCHANGED vars
    BY <2>1 DEF vars, leaseVars, counters
  <2>2. CASE Tick
    BY <2>2 DEF Tick
  <2>3. ASSUME NEW n \in Nodes, LeaseRenew(n) \/ LeaseAcquire(n) PROVE TypeOK'
    BY <2>3 DEF LeaseRenew, LeaseAcquire, Grant, Changed, NextEpoch, leaseVars, counters
  <2>4. ASSUME NEW n \in Nodes, RedisExpire(n) \/ RedisExpired(n) PROVE TypeOK'
    BY <2>4 DEF RedisExpire, RedisExpired, Changed, Goto, leaseVars, counters
  <2>5. ASSUME NEW n \in Nodes, RedisSetNx(n) \/ RedisWon(n) PROVE TypeOK'
    BY <2>5 DEF RedisSetNx, RedisWon, Grant, Changed, NextEpoch, Goto, leaseVars, counters
  <2>6. ASSUME NEW n \in Nodes, RedisGet(n) \/ RedisTold(n) PROVE TypeOK'
    BY <2>6 DEF RedisGet, RedisTold, Changed, Goto, leaseVars, counters
  <2>7. ASSUME NEW n \in Nodes, KubeGet(n) \/ KubeOther(n) PROVE TypeOK'
    BY <2>7 DEF KubeGet, KubeOther, Changed, Goto, leaseVars, counters
  <2>8. ASSUME NEW n \in Nodes, KubePut(n) \/ KubeRenewed(n) PROVE TypeOK'
    BY <2>8 DEF KubePut, KubeRenewed, Grant, Changed, Goto, leaseVars, counters
  <2>9. ASSUME NEW n \in Nodes, KubePost(n) \/ KubeCreated(n) PROVE TypeOK'
    BY <2>9 DEF KubePost, KubeCreated, Grant, Changed, Goto, leaseVars, counters
  <2>10. ASSUME NEW n \in Nodes, StepDownDelete(n) \/ StepDownDone(n) PROVE TypeOK'
    BY <2>10 DEF StepDownDelete, StepDownDone, After, Free, Changed, Goto, leaseVars, counters
  <2>11. ASSUME NEW n \in Nodes, LeaveStop(n) PROVE TypeOK'
    BY <2>11 DEF LeaveStop, Goto, leaseVars
  <2>12. ASSUME NEW n \in Nodes, LeaseStepDown(n) \/ LeaveEnd(n) PROVE TypeOK'
    BY <2>12 DEF LeaseStepDown, LeaveEnd, Free, Changed, Goto, leaseVars, counters
  <2>13. ASSUME NEW n \in Nodes, LeaseRebalance(n) PROVE TypeOK'
    <3>1. wrong' \in 0..MaxWrong
      BY <2>13 DEF LeaseRebalance, Suspects
    <3>2. holder' \in Nodes \cup {None} /\ left' \in 0..TTL
      BY <2>13 DEF LeaseRebalance, Free, Grant, leaseVars
    <3>3. leader' \in [Nodes -> Nodes \cup {None}] /\ epoch' \in [Nodes -> Nat]
      BY <2>13 DEF LeaseRebalance, Changed, NextEpoch
    <3> QED
      BY <2>13, <3>1, <3>2, <3>3 DEF LeaseRebalance
  <2>14. ASSUME NEW n \in Nodes, RebalanceStepDown(n) PROVE TypeOK'
    BY <2>14 DEF RebalanceStepDown, Suspects, Goto, leaseVars
  <2>15. ASSUME NEW n \in Nodes, Crash(n) PROVE TypeOK'
    BY <2>15 DEF Crash, Goto, leaseVars
  <2>16. ASSUME NEW n \in Nodes, Restart(n) PROVE TypeOK'
    BY <2>16 DEF Restart, Changed, leaseVars, counters
  <2> QED
    BY <2>1, <2>2, <2>3, <2>4, <2>5, <2>6, <2>7, <2>8, <2>9, <2>10, <2>11, <2>12, <2>13,
       <2>14, <2>15, <2>16 DEF Next, Elect, Rebalance
<1> QED
  BY <1>1, <1>2, PTL DEF Spec

\* Every step keeps the inductive invariant.
LEMMA StepHolds ==
  ASSUME IInv, TypeOK', [Next]_vars
  PROVE  IInv'
<1> USE ElectionAssumptions
<1>t. /\ holder \in Nodes \cup {None} /\ left \in 0..TTL /\ running \subseteq Nodes
      /\ late \in Nat /\ wrong \in Nat
      /\ leader \in [Nodes -> Nodes \cup {None}]
      /\ pc \in [Nodes -> Labels]
      /\ got \in [Nodes -> Nodes \cup {None}]
  BY DEF IInv, TypeOK
<1>i. CommittedHolds /\ Ties
  BY DEF IInv
<1> SUFFICES CommittedHolds' /\ Ties'
  BY DEF IInv
<1> USE DEF CommittedHolds, Ties, Committed, Live, Sound
<1>1. CASE UNCHANGED vars
  BY <1>1, <1>i DEF vars, leaseVars, counters
<1>2. CASE Tick
  BY <1>2, <1>t, <1>i DEF Tick
<1>3. ASSUME NEW n \in Nodes, LeaseRenew(n) PROVE CommittedHolds' /\ Ties'
  BY <1>3, <1>t, <1>i DEF LeaseRenew, Grant, leaseVars, counters
<1>4. ASSUME NEW n \in Nodes, LeaseAcquire(n) PROVE CommittedHolds' /\ Ties'
  BY <1>4, <1>t, <1>i DEF LeaseAcquire, Grant, Changed, leaseVars, counters
<1>5. ASSUME NEW n \in Nodes, RedisExpire(n) PROVE CommittedHolds' /\ Ties'
  BY <1>5, <1>t, <1>i DEF RedisExpire, Goto, leaseVars, counters
<1>6. ASSUME NEW n \in Nodes, RedisExpired(n) PROVE CommittedHolds' /\ Ties'
  BY <1>6, <1>t, <1>i DEF RedisExpired, Goto, Changed, leaseVars, counters
<1>7. ASSUME NEW n \in Nodes, RedisSetNx(n) PROVE CommittedHolds' /\ Ties'
  BY <1>7, <1>t, <1>i DEF RedisSetNx, Goto, Grant, leaseVars, counters
<1>8. ASSUME NEW n \in Nodes, RedisWon(n) PROVE CommittedHolds' /\ Ties'
  BY <1>8, <1>t, <1>i DEF RedisWon, Goto, Changed, leaseVars, counters
<1>9. ASSUME NEW n \in Nodes, RedisGet(n) PROVE CommittedHolds' /\ Ties'
  BY <1>9, <1>t, <1>i DEF RedisGet, Goto, leaseVars, counters
<1>10. ASSUME NEW n \in Nodes, RedisTold(n) PROVE CommittedHolds' /\ Ties'
  BY <1>10, <1>t, <1>i DEF RedisTold, Goto, Changed, leaseVars, counters
<1>11. ASSUME NEW n \in Nodes, KubeGet(n) PROVE CommittedHolds' /\ Ties'
  BY <1>11, <1>t, <1>i DEF KubeGet, Goto, leaseVars, counters
<1>12. ASSUME NEW n \in Nodes, KubeOther(n) PROVE CommittedHolds' /\ Ties'
  BY <1>12, <1>t, <1>i DEF KubeOther, Goto, Changed, leaseVars, counters
<1>13. ASSUME NEW n \in Nodes, KubePut(n) PROVE CommittedHolds' /\ Ties'
  BY <1>13, <1>t, <1>i DEF KubePut, Goto, Grant, leaseVars, counters
<1>14. ASSUME NEW n \in Nodes, KubeRenewed(n) PROVE CommittedHolds' /\ Ties'
  BY <1>14, <1>t, <1>i DEF KubeRenewed, Goto, Changed, leaseVars, counters
<1>15. ASSUME NEW n \in Nodes, KubePost(n) PROVE CommittedHolds' /\ Ties'
  BY <1>15, <1>t, <1>i DEF KubePost, Goto, Grant, leaseVars, counters
<1>16. ASSUME NEW n \in Nodes, KubeCreated(n) PROVE CommittedHolds' /\ Ties'
  BY <1>16, <1>t, <1>i DEF KubeCreated, Goto, Changed, leaseVars, counters
<1>17. ASSUME NEW n \in Nodes, StepDownDelete(n) PROVE CommittedHolds' /\ Ties'
  BY <1>17, <1>t, <1>i DEF StepDownDelete, After, Free, Goto, leaseVars, counters
<1>18. ASSUME NEW n \in Nodes, StepDownDone(n) PROVE CommittedHolds' /\ Ties'
  BY <1>18, <1>t, <1>i DEF StepDownDone, After, Goto, Changed, leaseVars, counters
<1>19. ASSUME NEW n \in Nodes, LeaveStop(n) PROVE CommittedHolds' /\ Ties'
  BY <1>19, <1>t, <1>i DEF LeaveStop, Goto, leaseVars
<1>20. ASSUME NEW n \in Nodes, LeaseStepDown(n) PROVE CommittedHolds' /\ Ties'
  BY <1>20, <1>t, <1>i DEF LeaseStepDown, Free, Goto, Changed, leaseVars, counters
<1>21. ASSUME NEW n \in Nodes, LeaveEnd(n) PROVE CommittedHolds' /\ Ties'
  BY <1>21, <1>t, <1>i DEF LeaveEnd, Goto, leaseVars, counters
<1>22. ASSUME NEW n \in Nodes, LeaseRebalance(n) PROVE CommittedHolds' /\ Ties'
  <2>1. Ties'
    BY <1>22, <1>t, <1>i DEF LeaseRebalance, Suspects, Free, Grant, leaseVars
  <2>2. ASSUME Sound' PROVE Sound /\ ~Alive(leader[n]) /\ leader[n] # n /\ leader[n] \in Nodes
    BY <1>22, <1>t, <2>2 DEF LeaseRebalance, Suspects, Alive, Labels
  <2>3. ASSUME Sound' PROVE ~Committed(leader[n])
    BY <2>2, <2>3 DEF Alive
  <2>4. CommittedHolds'
    BY <1>22, <1>t, <1>i, <2>2, <2>3 DEF LeaseRebalance, Free, Grant, Changed, leaseVars
  <2> QED
    BY <2>1, <2>4
<1>23. ASSUME NEW n \in Nodes, RebalanceStepDown(n) PROVE CommittedHolds' /\ Ties'
  BY <1>23, <1>t, <1>i DEF RebalanceStepDown, Suspects, Alive, Goto, leaseVars
<1>24. ASSUME NEW n \in Nodes, Crash(n) PROVE CommittedHolds' /\ Ties'
  BY <1>24, <1>t, <1>i DEF Crash, Goto, leaseVars
<1>25. ASSUME NEW n \in Nodes, Restart(n) PROVE CommittedHolds' /\ Ties'
  BY <1>25, <1>t, <1>i DEF Restart, Alive, Changed, leaseVars, counters
<1> QED
  BY <1>1, <1>2, <1>3, <1>4, <1>5, <1>6, <1>7, <1>8, <1>9, <1>10, <1>11, <1>12, <1>13, <1>14,
     <1>15, <1>16, <1>17, <1>18, <1>19, <1>20, <1>21, <1>22, <1>23, <1>24, <1>25
     DEF Next, Elect, Rebalance

\* The inductive invariant holds at the start.
LEMMA InitHolds == Init => IInv
  BY ElectionAssumptions DEF Init, IInv, TypeOK, Labels, CommittedHolds, Committed, Ties, Live, Sound

\* Until a lease has run out under a committed node or a living leader has
\* been rebalanced away, only the holder of a live lease leads, is about to,
\* or has a DELETE on its way.
THEOREM CommittedAlwaysHolds == Spec => []CommittedHolds
<1>1. TypeOK' /\ IInv /\ [Next]_vars => IInv'
  BY StepHolds
<1>2. IInv => CommittedHolds
  BY DEF IInv
<1> QED
  BY InitHolds, <1>1, <1>2, ElectionTypes, PTL DEF Spec

\* Until then there are never two leaders, whatever crashes, leaves, restarts
\* or is rebalanced, and whichever strategy elects.
THEOREM AtMostOneLeader == Spec => []SingleLeader
<1>1. TypeOK /\ CommittedHolds => SingleLeader
  BY DEF TypeOK, CommittedHolds, Committed, SingleLeader, OneLeader
<1> QED
  BY CommittedAlwaysHolds, ElectionTypes, <1>1, PTL
=============================================================================
