--------------------------- MODULE ProviderProofs ---------------------------
(***************************************************************************)
(* Proofs about ProviderManager, for any number of providers and of        *)
(* concurrent health checks and any threshold, timeout and quota.          *)
(***************************************************************************)
EXTENDS ProviderManager, TLAPS

\* The breaker operations keep a breaker a breaker, and sound.
Sound(b) ==
    /\ b \in Breaker
    /\ (b.st = "closed") <=> (b.fails < FailureThreshold)
    /\ b.st = "half-open" => b.wins < HalfOpenQuota

\* A sound breaker has its fields in their ranges.
LEMMA Fields ==
  ASSUME NEW b, Sound(b)
  PROVE  /\ b.st \in {"closed", "open", "half-open"}
         /\ b.fails \in 0..FailureThreshold /\ b.fails \in Nat
         /\ b.age \in 0..RecoveryTimeout + 1 /\ b.age \in Nat
         /\ b.wins \in 0..HalfOpenQuota /\ b.wins \in Nat
<1>1. b \in Breaker
  BY DEF Sound
<1>2. /\ b.st \in {"closed", "open", "half-open"} /\ b.fails \in 0..FailureThreshold
      /\ b.age \in 0..RecoveryTimeout + 1 /\ b.wins \in 0..HalfOpenQuota
  BY <1>1, Zenon DEF Breaker
<1> QED
  BY <1>2, ManagerAssumptions

\* A breaker that never failed is sound (CircuitBreaker.__init__).
LEMMA FreshSound == Sound(Fresh)
<1>1. 0 \in 0..FailureThreshold /\ 0 \in 0..RecoveryTimeout + 1 /\ 0 \in 0..HalfOpenQuota
  BY ManagerAssumptions
<1>2. Fresh \in Breaker
  BY <1>1, Zenon DEF Fresh, Breaker
<1> QED
  BY <1>2, ManagerAssumptions DEF Sound, Fresh

\* Reading is_open keeps a breaker sound, and never opens or closes it.
LEMMA ExpireSound ==
  ASSUME NEW b, Sound(b)
  PROVE  /\ Sound(Expire(b))
         /\ (Expire(b).st = "closed") <=> (b.st = "closed")
         /\ Expire(b).st = "open" => b.st = "open"
<1>1. CASE b.st = "open" /\ b.age > RecoveryTimeout
  <2> DEFINE c == [b EXCEPT !.st = "half-open", !.wins = 0]
  <2>1. Expire(b) = c
    BY <1>1 DEF Expire
  <2>2. b \in Breaker /\ 0 \in 0..HalfOpenQuota
    BY ManagerAssumptions DEF Sound
  <2>3. c \in Breaker
    BY <2>2, Zenon DEF Breaker
  <2>4. c.st = "half-open" /\ c.wins = 0 /\ c.fails = b.fails
    BY <2>2 DEF Breaker
  <2> HIDE DEF c
  <2> QED
    BY <1>1, <2>1, <2>3, <2>4, ManagerAssumptions DEF Sound
<1>2. CASE ~(b.st = "open" /\ b.age > RecoveryTimeout)
  BY <1>2 DEF Expire
<1> QED
  BY <1>1, <1>2

\* record_success keeps a breaker sound, and never opens it.
LEMMA RecordSuccessSound ==
  ASSUME NEW b, Sound(b)
  PROVE  /\ Sound(RecordSuccess(b))
         /\ RecordSuccess(b).st = "open" => b.st = "open"
         /\ b.st = "closed" => RecordSuccess(b).st = "closed"
<1>0. b \in Breaker /\ 0 \in 0..FailureThreshold
  BY ManagerAssumptions DEF Sound
<1>1. CASE b.st = "open"
  <2>1. RecordSuccess(b) = b
    BY <1>1 DEF RecordSuccess
  <2> QED
    BY <1>1, <2>1
<1>2. CASE b.st = "closed"
  <2> DEFINE c == [b EXCEPT !.fails = 0]
  <2>1. RecordSuccess(b) = c
    BY <1>2 DEF RecordSuccess
  <2>2. c \in Breaker
    BY <1>0, Zenon DEF Breaker
  <2>3. c.st = b.st /\ c.fails = 0
    BY <1>0 DEF Breaker
  <2> HIDE DEF c
  <2> QED
    BY <1>2, <2>1, <2>2, <2>3, ManagerAssumptions DEF Sound
<1>3. CASE b.st = "half-open" /\ b.wins + 1 >= HalfOpenQuota
  <2> DEFINE c == [b EXCEPT !.wins = @ + 1, !.st = "closed", !.fails = 0]
  <2>0. ~(b.wins + 1 < HalfOpenQuota) /\ b.st # "closed" /\ b.st # "open"
    BY <1>3, Fields, ManagerAssumptions
  <2>1. RecordSuccess(b) = c
    BY <1>3, <2>0, Zenon DEF RecordSuccess
  <2>2. b.wins + 1 \in 0..HalfOpenQuota
    BY <1>3, Fields, ManagerAssumptions DEF Sound
  <2>3. c \in Breaker
    BY <1>0, <2>2, Zenon DEF Breaker
  <2>4. c.st = "closed" /\ c.fails = 0
    BY <1>0 DEF Breaker
  <2> HIDE DEF c
  <2> QED
    BY <1>3, <2>1, <2>3, <2>4, ManagerAssumptions DEF Sound
<1>4. CASE b.st = "half-open" /\ b.wins + 1 < HalfOpenQuota
  <2> DEFINE c == [b EXCEPT !.wins = @ + 1]
  <2>1. RecordSuccess(b) = c
    BY <1>4, Fields, ManagerAssumptions DEF RecordSuccess
  <2>2. b.wins + 1 \in 0..HalfOpenQuota
    BY <1>4, Fields, ManagerAssumptions
  <2>3. c \in Breaker
    BY <1>0, <2>2, Zenon DEF Breaker
  <2>4. c.st = b.st /\ c.fails = b.fails /\ c.wins = b.wins + 1
    BY <1>0 DEF Breaker
  <2> HIDE DEF c
  <2> QED
    BY <1>4, <2>1, <2>3, <2>4 DEF Sound
<1> QED
  BY <1>1, <1>2, <1>3, <1>4, Fields, ManagerAssumptions

\* record_failure keeps a breaker sound, and never closes it.
LEMMA RecordFailureSound ==
  ASSUME NEW b, Sound(b)
  PROVE  /\ Sound(RecordFailure(b))
         /\ b.st # "closed" => RecordFailure(b).st # "closed"
<1> DEFINE f == IF b.fails < FailureThreshold THEN b.fails + 1 ELSE b.fails
           t == IF b.fails + 1 >= FailureThreshold THEN "open" ELSE b.st
           c == [b EXCEPT !.fails = f, !.age = 0, !.st = t]
<1>1. RecordFailure(b) = c
  BY DEF RecordFailure
<1>2. /\ f \in 0..FailureThreshold /\ 0 \in 0..RecoveryTimeout + 1
      /\ t \in {"closed", "open", "half-open"}
  BY Fields, ManagerAssumptions
<1>3. b \in Breaker
  BY DEF Sound
<1>4. b.st # "closed" => t = "open" /\ f = FailureThreshold
  BY Fields, ManagerAssumptions DEF Sound
<1>5. b.st = "closed" => t \in {"closed", "open"} /\ (t = "closed" <=> f < FailureThreshold)
  BY Fields, ManagerAssumptions DEF Sound
<1> HIDE DEF f, t
<1>6. c \in Breaker
  BY <1>2, <1>3, Zenon DEF Breaker
<1>7. c.st = t /\ c.fails = f
  BY <1>3 DEF Breaker
<1> HIDE DEF c
<1> QED
  BY <1>1, <1>2, <1>4, <1>5, <1>6, <1>7, ManagerAssumptions DEF Sound

\* reset leaves a sound, closed breaker.
LEMMA ResetSound ==
  ASSUME NEW b, Sound(b)
  PROVE  Sound(Reset(b)) /\ Reset(b).st = "closed"
<1>1. b \in Breaker /\ 0 \in 0..FailureThreshold /\ 0 \in 0..HalfOpenQuota
  BY ManagerAssumptions DEF Sound
<1>2. Reset(b) \in Breaker
  BY <1>1, Zenon DEF Breaker, Reset
<1>3. Reset(b).st = "closed" /\ Reset(b).fails = 0
  BY <1>1 DEF Breaker, Reset
<1> QED
  BY <1>2, <1>3, ManagerAssumptions DEF Sound

\* The passing of time keeps a breaker sound and in its state.
LEMMA OlderSound ==
  ASSUME NEW b, Sound(b)
  PROVE  Sound(Older(b)) /\ Older(b).st = b.st
<1> DEFINE a == IF b.age <= RecoveryTimeout THEN b.age + 1 ELSE b.age
           c == [b EXCEPT !.age = a]
<1>1. Older(b) = c
  BY DEF Older
<1>2. a \in 0..RecoveryTimeout + 1 /\ b \in Breaker
  BY Fields, ManagerAssumptions DEF Sound
<1> HIDE DEF a
<1>3. c \in Breaker
  BY <1>2, Zenon DEF Breaker
<1>4. c.st = b.st /\ c.fails = b.fails /\ c.wins = b.wins
  BY <1>2 DEF Breaker
<1> HIDE DEF c
<1> QED
  BY <1>1, <1>3, <1>4 DEF Sound
-----------------------------------------------------------------------------
\* Every part of the type invariant but the breakers.
OtherTypes ==
    /\ up \in [Providers -> BOOLEAN] /\ flips \in 0..MaxFlips /\ slips \in 0..MaxSlips
    /\ loaded \subseteq Providers /\ disabled \subseteq Providers
    /\ health \in [Providers -> Answer \cup {"unknown"}]
    /\ cpc \in [Checkers -> {"idle", "gather"}]
    /\ targets \in [Checkers -> SUBSET Providers]
    /\ answers \in [Checkers -> [Providers -> Answer]]
    /\ lpc \in {"off", "sleep", "check", "recover"}
    /\ todo \subseteq Providers /\ probe \in Providers \cup {None}
    /\ rpc \in {"idle", "close", "load"}
    /\ toLoad \subseteq Providers /\ loading \in Providers \cup {None}

AllSound ==
    /\ breaker = [p \in Providers |-> breaker[p]]
    /\ \A p \in Providers : Sound(breaker[p])

\* Starting a check_health keeps the types (CheckStart is shared by the loop
\* and by the endpoints).
LEMMA CheckStartTypes ==
  ASSUME OtherTypes, NEW c \in Checkers, NEW names \in SUBSET Providers,
         CheckStart(c, names), UNCHANGED <<up, flips, slips, reloadVars, todo, probe>>,
         lpc' \in {"off", "sleep", "check", "recover"}
  PROVE  OtherTypes'
<1>1. targets' \in [Checkers -> SUBSET Providers]
  BY DEF CheckStart, OtherTypes
<1>2. cpc' \in [Checkers -> {"idle", "gather"}]
  BY DEF CheckStart, OtherTypes
<1> QED
  BY <1>1, <1>2 DEF CheckStart, OtherTypes, reloadVars

\* Applying the answers of a check_health keeps the types.
LEMMA CheckApplyTypes ==
  ASSUME OtherTypes, NEW c \in Checkers, CheckApply(c)
  PROVE  OtherTypes'
<1>1. targets' \in [Checkers -> SUBSET Providers] /\ cpc' \in [Checkers -> {"idle", "gather"}]
  BY DEF CheckApply, OtherTypes
<1>2. answers' \in [Checkers -> [Providers -> Answer]]
  BY DEF CheckApply, OtherTypes, Answer
<1>3. health' \in [Providers -> Answer \cup {"unknown"}]
  BY DEF CheckApply, OtherTypes
<1>4. disabled' \subseteq Providers
  BY DEF CheckApply, OtherTypes
<1>5. /\ lpc' \in {"off", "sleep", "check", "recover"}
      /\ todo' \subseteq Providers /\ probe' \in Providers \cup {None}
  BY <1>4 DEF CheckApply, OtherTypes, loopVars
<1> QED
  BY <1>1, <1>2, <1>3, <1>4, <1>5 DEF CheckApply, OtherTypes, envVars, reloadVars

\* A health_check changes nothing but the count of spurious failures.
LEMMA SaysTypes ==
  ASSUME OtherTypes, NEW p, NEW a, Says(p, a)
  PROVE  slips' \in 0..MaxSlips /\ UNCHANGED <<up, flips>>
  BY ManagerAssumptions DEF OtherTypes, Says

\* Every step keeps the types.
LEMMA StepTypes == OtherTypes /\ [Next]_vars => OtherTypes'
<1> SUFFICES ASSUME OtherTypes, [Next]_vars PROVE OtherTypes'
  OBVIOUS
<1>1. CASE UNCHANGED vars
  BY <1>1 DEF OtherTypes, vars, envVars, stateVars, checkVars, loopVars, reloadVars
<1>2. CASE Tick
  BY <1>2 DEF Tick, OtherTypes, envVars, checkVars, loopVars, reloadVars
<1>3. ASSUME NEW p \in Providers, Flip(p) PROVE OtherTypes'
  <2>1. up' \in [Providers -> BOOLEAN] /\ flips' \in 0..MaxFlips
    BY <1>3, ManagerAssumptions DEF Flip, OtherTypes
  <2> QED
    BY <1>3, <2>1 DEF Flip, OtherTypes, stateVars, checkVars, loopVars, reloadVars
<1>4. ASSUME NEW c \in Callers, ApiCheck(c) PROVE OtherTypes'
  BY <1>4, CheckStartTypes DEF ApiCheck, Checkers, envVars, loopVars, OtherTypes
<1>5. CASE LoopCheck
  BY <1>5, CheckStartTypes DEF LoopCheck, Checkers, envVars, OtherTypes
<1>6. ASSUME NEW c \in Checkers, CheckApply(c) PROVE OtherTypes'
  BY <1>6, CheckApplyTypes
<1>7. ASSUME NEW c \in Checkers, NEW p \in Providers, CheckAnswer(c, p) PROVE OtherTypes'
  <2>1. answers' \in [Checkers -> [Providers -> Answer]]
    BY <1>7 DEF CheckAnswer, OtherTypes, Answer
  <2>2. slips' \in 0..MaxSlips /\ UNCHANGED <<up, flips>>
    BY <1>7, SaysTypes DEF CheckAnswer
  <2> QED
    BY <1>7, <2>1, <2>2 DEF CheckAnswer, OtherTypes, stateVars, loopVars, reloadVars
<1>8. ASSUME NEW p \in Providers, RecoverPick(p) PROVE OtherTypes'
  BY <1>8 DEF RecoverPick, OtherTypes, envVars, checkVars, reloadVars
<1>9. CASE RecoverAnswer
  <2>1. slips' \in 0..MaxSlips /\ UNCHANGED <<up, flips>>
    BY <1>9, SaysTypes DEF RecoverAnswer
  <2>2. disabled' \subseteq Providers /\ health' \in [Providers -> Answer \cup {"unknown"}]
    BY <1>9 DEF RecoverAnswer, OtherTypes, Answer
  <2> QED
    BY <1>9, <2>1, <2>2 DEF RecoverAnswer, OtherTypes, checkVars, reloadVars
<1>10. CASE LoopSleep
  BY <1>10 DEF LoopSleep, OtherTypes, envVars, stateVars, checkVars, reloadVars
<1>11. CASE ReloadStart \/ ReloadClear \/ ReloadEnd
  BY <1>11 DEF ReloadStart, ReloadClear, ReloadEnd, OtherTypes, Answer,
               envVars, stateVars, checkVars, loopVars
<1>12. CASE ReloadHealth
  <2>1. slips' \in 0..MaxSlips /\ UNCHANGED <<up, flips>>
    BY <1>12, SaysTypes DEF ReloadHealth, OtherTypes, envVars
  <2>2. health' \in [Providers -> Answer \cup {"unknown"}]
    BY <1>12 DEF ReloadHealth, OtherTypes, Answer
  <2> QED
    BY <1>12, <2>1, <2>2 DEF ReloadHealth, OtherTypes, checkVars, loopVars
<1>13. ASSUME NEW p \in Providers, ReloadLoad(p) \/ ReloadSkip(p) PROVE OtherTypes'
  BY <1>13 DEF ReloadLoad, ReloadSkip, OtherTypes, envVars, stateVars, checkVars, loopVars
<1> QED
  BY <1>1, <1>2, <1>3, <1>4, <1>5, <1>6, <1>7, <1>8, <1>9, <1>10, <1>11, <1>12, <1>13
     DEF Next, ManagerNext, LoopNext, CallerNext, ReloadNext, Checkers
-----------------------------------------------------------------------------
IInv == OtherTypes /\ AllSound /\ DisabledIsTripped

\* Starting a check_health keeps the breakers sound and the disabled ones
\* tripped: reading is_open closes nothing.
LEMMA CheckStartKeeps ==
  ASSUME IInv, NEW c \in Checkers, NEW names \in SUBSET Providers, CheckStart(c, names)
  PROVE  AllSound' /\ DisabledIsTripped'
<1>1. ASSUME NEW p \in Providers
      PROVE  Sound(breaker'[p]) /\ (breaker'[p].st = "closed" => breaker[p].st = "closed")
  <2>1. Sound(breaker[p])
    BY DEF IInv, AllSound
  <2>2. breaker'[p] = breaker[p] \/ breaker'[p] = Expire(breaker[p])
    BY DEF CheckStart
  <2> QED
    BY <2>1, <2>2, ExpireSound
<1>2. breaker' = [p \in Providers |-> breaker'[p]]
  BY DEF CheckStart
<1>3. disabled' = disabled /\ disabled \subseteq Providers
  BY DEF CheckStart, IInv, OtherTypes
<1>4. AllSound'
  BY <1>1, <1>2 DEF AllSound, Sound
<1> QED
  BY <1>1, <1>3, <1>4 DEF IInv, DisabledIsTripped

\* Applying answers keeps the breakers sound and the disabled ones tripped: a
\* success that closes a breaker takes the provider out of _disabled, and a
\* failure puts it there only with its breaker open.
LEMMA CheckApplyKeeps ==
  ASSUME IInv, NEW c \in Checkers, CheckApply(c)
  PROVE  AllSound' /\ DisabledIsTripped'
<1> DEFINE well == {p \in targets[c] : answers[c][p] = "healthy"}
           ill  == {p \in targets[c] : answers[c][p] = "unhealthy"}
<1>1. /\ breaker' = [p \in Providers |->
                       IF p \in well THEN RecordSuccess(breaker[p])
                       ELSE IF p \in ill THEN RecordFailure(breaker[p])
                       ELSE breaker[p]]
      /\ disabled' = (disabled \ well) \cup {p \in ill : breaker'[p].st = "open"}
  BY DEF CheckApply
<1>2. disabled \subseteq Providers /\ ill \subseteq Providers
  BY DEF IInv, OtherTypes
<1>3. \A p \in Providers : Sound(breaker[p])
  BY DEF IInv, AllSound
<1>4. \A p \in disabled : breaker[p].st # "closed"
  BY DEF IInv, DisabledIsTripped
<1> HIDE DEF well, ill
<1>5. ASSUME NEW p \in Providers
      PROVE  Sound(breaker'[p]) /\ (p \notin well /\ breaker'[p].st = "closed" => breaker[p].st = "closed")
  <2>1. CASE p \in well
    BY <1>1, <1>3, <2>1, RecordSuccessSound
  <2>2. CASE p \notin well /\ p \in ill
    BY <1>1, <1>3, <2>2, RecordFailureSound
  <2>3. CASE p \notin well /\ p \notin ill
    BY <1>1, <1>3, <2>3
  <2> QED
    BY <2>1, <2>2, <2>3
<1>6. AllSound'
  BY <1>1, <1>5 DEF AllSound, Sound
<1>7. ASSUME NEW p \in disabled' PROVE breaker'[p].st # "closed"
  BY <1>1, <1>2, <1>4, <1>5, <1>7
<1> QED
  BY <1>6, <1>7 DEF DisabledIsTripped

\* Every step keeps the breakers sound and the disabled ones tripped.
LEMMA StepKeeps == IInv /\ [Next]_vars => AllSound' /\ DisabledIsTripped'
<1> SUFFICES ASSUME IInv, [Next]_vars PROVE AllSound' /\ DisabledIsTripped'
  OBVIOUS
<1> DEFINE Same == breaker' = breaker /\ disabled' \subseteq disabled
<1>1. ASSUME Same PROVE AllSound' /\ DisabledIsTripped'
  BY <1>1 DEF IInv, AllSound, DisabledIsTripped, Sound
<1>2. CASE Tick
  <2>1. /\ breaker' = [p \in Providers |-> Older(breaker[p])] /\ disabled' = disabled
        /\ disabled \subseteq Providers
    BY <1>2 DEF Tick, IInv, OtherTypes
  <2>2. \A p \in Providers : Sound(breaker'[p]) /\ breaker'[p].st = breaker[p].st
    BY <2>1, OlderSound DEF IInv, AllSound
  <2> QED
    BY <2>1, <2>2 DEF IInv, AllSound, DisabledIsTripped, Sound
<1>3. ASSUME NEW c \in Callers, ApiCheck(c) PROVE AllSound' /\ DisabledIsTripped'
  BY <1>3, CheckStartKeeps DEF ApiCheck, Checkers, IInv, OtherTypes
<1>4. CASE LoopCheck
  BY <1>4, CheckStartKeeps DEF LoopCheck, Checkers, IInv, OtherTypes
<1>5. ASSUME NEW c \in Checkers, CheckApply(c) PROVE AllSound' /\ DisabledIsTripped'
  BY <1>5, CheckApplyKeeps
<1>6. CASE RecoverAnswer
  <2>1. probe \in Providers
    BY <1>6 DEF RecoverAnswer, IInv, OtherTypes
  <2>2. CASE Says(probe, "healthy") /\ breaker' # breaker
    <3>1. /\ breaker' = [breaker EXCEPT ![probe] = Reset(@)]
          /\ disabled' = disabled \ {probe} /\ disabled \subseteq Providers
      BY <1>6, <2>2 DEF RecoverAnswer, IInv, OtherTypes
    <3>2. breaker' = [p \in Providers |-> IF p = probe THEN Reset(breaker[p]) ELSE breaker[p]]
      BY <3>1 DEF IInv, AllSound
    <3>3. \A p \in Providers : Sound(breaker'[p]) /\ (p # probe => breaker'[p] = breaker[p])
      BY <3>2, ResetSound DEF IInv, AllSound
    <3>4. AllSound'
      BY <3>2, <3>3 DEF AllSound, Sound
    <3> QED
      BY <3>1, <3>3, <3>4 DEF IInv, DisabledIsTripped
  <2>3. CASE breaker' = breaker
    BY <1>1, <1>6, <2>3 DEF RecoverAnswer
  <2> QED
    BY <1>6, <2>2, <2>3 DEF RecoverAnswer
<1>7. CASE UNCHANGED vars
  BY <1>1, <1>7 DEF vars, stateVars
<1>8. ASSUME NEW p \in Providers, Flip(p) PROVE AllSound' /\ DisabledIsTripped'
  BY <1>1, <1>8 DEF Flip, stateVars
<1>9. ASSUME NEW c \in Checkers, NEW p \in Providers, CheckAnswer(c, p)
      PROVE  AllSound' /\ DisabledIsTripped'
  BY <1>1, <1>9 DEF CheckAnswer, stateVars
<1>10. ASSUME NEW p \in Providers, RecoverPick(p) \/ ReloadLoad(p) \/ ReloadSkip(p)
       PROVE  AllSound' /\ DisabledIsTripped'
  BY <1>1, <1>10 DEF RecoverPick, ReloadLoad, ReloadSkip, stateVars
<1>11. CASE LoopSleep \/ ReloadStart \/ ReloadClear \/ ReloadHealth \/ ReloadEnd
  BY <1>1, <1>11 DEF LoopSleep, ReloadStart, ReloadClear, ReloadHealth, ReloadEnd, stateVars
<1> QED
  BY <1>2, <1>3, <1>4, <1>5, <1>6, <1>7, <1>8, <1>9, <1>10, <1>11
     DEF Next, ManagerNext, LoopNext, CallerNext, ReloadNext, Checkers

\* The inductive invariant holds at the start.
LEMMA InitKeeps == Init => IInv
<1> SUFFICES ASSUME Init PROVE IInv
  OBVIOUS
<1>1. OtherTypes
  BY ManagerAssumptions DEF Init, OtherTypes, Answer
<1>2. AllSound /\ DisabledIsTripped
  BY FreshSound DEF Init, AllSound, DisabledIsTripped
<1> QED
  BY <1>1, <1>2 DEF IInv

\* The inductive invariant of the circuit breakers holds for ever.
THEOREM BreakerInvariant == Spec => []IInv
<1>1. IInv /\ [Next]_vars => IInv'
  BY StepTypes, StepKeeps DEF IInv
<1> QED
  BY InitKeeps, <1>1, PTL DEF Spec

\* The type invariant of ProviderManager.
THEOREM ManagerTypes == Spec => []TypeOK
<1>1. IInv => TypeOK
  <2> SUFFICES ASSUME IInv PROVE TypeOK
    OBVIOUS
  <2>1. breaker \in [Providers -> Breaker]
    BY DEF IInv, AllSound, Sound
  <2> QED
    BY <2>1 DEF IInv, OtherTypes, TypeOK
<1> QED
  BY BreakerInvariant, <1>1, PTL

\* Thresholds and states of the circuit breakers agree under every
\* interleaving of health checks, recovery checks and reloads.
THEOREM BreakersAlwaysSound == Spec => []BreakerSound
<1>1. IInv => BreakerSound
  BY DEF IInv, AllSound, Sound, BreakerSound
<1> QED
  BY BreakerInvariant, <1>1, PTL

\* A provider in _disabled always has a tripped breaker.
THEOREM DisabledAlwaysTripped == Spec => []DisabledIsTripped
<1>1. IInv => DisabledIsTripped
  BY DEF IInv
<1> QED
  BY BreakerInvariant, <1>1, PTL
=============================================================================
