--------------------------- MODULE ProviderManager ---------------------------
(***************************************************************************)
(* ProviderManager and CircuitBreaker of app/providers/manager.py: which   *)
(* providers are loaded, their health, their circuit breakers and the set  *)
(* of disabled providers, as check_health (called by the background loop   *)
(* and by the health endpoints of app/api.py, concurrently), the recovery  *)
(* check and reload change them. The code between two awaits is one step.  *)
(*                                                                         *)
(* A provider that never failed has no CircuitBreaker object; it behaves   *)
(* as a closed one without failures and is modelled as that.               *)
(***************************************************************************)
EXTENDS Naturals, FiniteSets

CONSTANTS
    Providers,         \* names in the provider configuration
    None,              \* no provider
    Callers,           \* health endpoint requests being served
    FailureThreshold,  \* failure_threshold (5)
    RecoveryTimeout,   \* recovery_timeout (60 s)
    HalfOpenQuota,     \* half-open successes that close the breaker (3)
    MayReload,         \* whether an operator reloads the configuration
    MaxFlips,          \* bound on how often providers go up or down
    MaxSlips           \* bound on health checks that fail on a working provider

ASSUME ManagerAssumptions ==
    /\ None \notin Providers /\ IsFiniteSet(Providers)
    /\ FailureThreshold \in Nat \ {0} /\ RecoveryTimeout \in Nat
    /\ HalfOpenQuota \in Nat \ {0} /\ MayReload \in BOOLEAN
    /\ MaxFlips \in Nat /\ MaxSlips \in Nat

VARIABLES
    up,        \* whether each provider's health_check finds it healthy
    flips,     \* how often up has changed
    slips,     \* how many health checks have failed on a working provider
    loaded,    \* keys of _providers
    health,    \* _health_status
    breaker,   \* _circuit_breakers
    disabled,  \* _disabled
    cpc,       \* where each check_health call of an endpoint is
    targets,   \* its targets still to answer
    answers,   \* what its targets have answered
    lpc,       \* where the background loop is
    todo,      \* names the recovery check has still to visit
    probe,     \* the name it is waiting for
    rpc,       \* where reload is
    toLoad,    \* configured providers reload has still to load
    loading    \* the provider whose first health check it waits for

envVars    == <<up, flips, slips>>
stateVars  == <<loaded, health, breaker, disabled>>
checkVars  == <<cpc, targets, answers>>
loopVars   == <<lpc, todo, probe>>
reloadVars == <<rpc, toLoad, loading>>
vars == <<envVars, stateVars, checkVars, loopVars, reloadVars>>

\* The background loop runs check_health under this name.
Loop == "loop"
Checkers == Callers \cup {Loop}

\* fails is _failure_count, which only matters up to the threshold, and age
\* the time since _last_failure_time, which only matters up to the timeout:
\* both saturate there, so the clock needs no bound.
Breaker == [st: {"closed", "open", "half-open"}, fails: 0..FailureThreshold,
            age: 0..RecoveryTimeout + 1, wins: 0..HalfOpenQuota]
Fresh   == [st |-> "closed", fails |-> 0, age |-> 0, wins |-> 0]
-----------------------------------------------------------------------------
(* CircuitBreaker *)

\* Mutant: the breaker never becomes half-open.
ExpireNever(b) == b

\* The side effect of reading is_open.
Expire(b) ==
    IF b.st = "open" /\ b.age > RecoveryTimeout
    THEN [b EXCEPT !.st = "half-open", !.wins = 0]
    ELSE b

\* Mutants: successes are compared with > instead of >=; they never close.
RecordSuccessLate(b) ==
    CASE b.st = "half-open" /\ b.wins + 1 > HalfOpenQuota ->
            [b EXCEPT !.wins = @ + 1, !.st = "closed", !.fails = 0]
      [] b.st = "half-open" /\ b.wins + 1 <= HalfOpenQuota -> [b EXCEPT !.wins = @ + 1]
      [] b.st = "closed" -> [b EXCEPT !.fails = 0]
      [] b.st = "open" -> b

RecordSuccessStays(b) ==
    CASE b.st = "half-open" -> [b EXCEPT !.wins = @ + 1]
      [] b.st = "closed" -> [b EXCEPT !.fails = 0]
      [] b.st = "open" -> b

RecordSuccess(b) ==
    CASE b.st = "half-open" /\ b.wins + 1 >= HalfOpenQuota ->
            [b EXCEPT !.wins = @ + 1, !.st = "closed", !.fails = 0]
      [] b.st = "half-open" /\ b.wins + 1 < HalfOpenQuota -> [b EXCEPT !.wins = @ + 1]
      [] b.st = "closed" -> [b EXCEPT !.fails = 0]
      [] b.st = "open" -> b

RecordFailure(b) ==
    [b EXCEPT !.fails = IF @ < FailureThreshold THEN @ + 1 ELSE @, !.age = 0,
              !.st = IF b.fails + 1 >= FailureThreshold THEN "open" ELSE @]

Reset(b) == [b EXCEPT !.st = "closed", !.fails = 0, !.wins = 0]
-----------------------------------------------------------------------------
Init ==
    /\ up \in [Providers -> BOOLEAN] /\ flips = 0 /\ slips = 0
    /\ loaded = {} /\ health = [p \in Providers |-> "none"]
    /\ breaker = [p \in Providers |-> Fresh] /\ disabled = {}
    /\ cpc = [c \in Checkers |-> "idle"]
    /\ targets = [c \in Checkers |-> {}]
    /\ answers = [c \in Checkers |-> [p \in Providers |-> "none"]]
    /\ lpc = "off" /\ todo = {} /\ probe = None
    /\ rpc = "load" /\ toLoad = Providers /\ loading = None

Older(b) == [b EXCEPT !.age = IF @ <= RecoveryTimeout THEN @ + 1 ELSE @]

\* Time passes.
Tick ==
    /\ breaker' = [p \in Providers |-> Older(breaker[p])]
    /\ UNCHANGED <<envVars, loaded, health, disabled, checkVars, loopVars, reloadVars>>

\* A provider goes down or comes back.
Flip(p) ==
    /\ flips < MaxFlips /\ flips' = flips + 1
    /\ up' = [up EXCEPT ![p] = ~@]
    /\ UNCHANGED <<slips, stateVars, checkVars, loopVars, reloadVars>>

\* What a health_check of p comes to. On a working provider it fails too when
\* it runs into its timeout or a reload closes the client under it.
Says(p, answer) ==
    /\ \/ answer = (IF up[p] THEN "healthy" ELSE "unhealthy") /\ slips' = slips
       \/ up[p] /\ answer = "unhealthy" /\ slips < MaxSlips /\ slips' = slips + 1
    /\ UNCHANGED <<up, flips>>
-----------------------------------------------------------------------------
(* check_health: choose the targets whose breaker lets them through, gather *)
(* their answers, then apply all of them.                                   *)

CheckStart(c, names) ==
    /\ cpc[c] = "idle"
    /\ breaker' = [p \in Providers |-> IF p \in names THEN Expire(breaker[p]) ELSE breaker[p]]
    /\ targets' = [targets EXCEPT ![c] = {p \in names : breaker'[p].st # "open"}]
    /\ cpc' = [cpc EXCEPT ![c] = "gather"]
    /\ UNCHANGED <<loaded, health, disabled, answers>>

\* GET /health, /health/providers and the readiness probe /ready check all
\* providers, /health/providers/{name} one.
ApiCheck(c) ==
    /\ c \in Callers /\ lpc # "off"
    /\ \E names \in {loaded} \cup {{p} : p \in loaded} : CheckStart(c, names)
    /\ UNCHANGED <<envVars, loopVars, reloadVars>>

CheckAnswer(c, p) ==
    /\ cpc[c] = "gather" /\ p \in targets[c] /\ answers[c][p] = "none"
    /\ \E a \in {"healthy", "unhealthy"} : Says(p, a) /\ answers' = [answers EXCEPT ![c][p] = a]
    /\ UNCHANGED <<stateVars, cpc, targets, loopVars, reloadVars>>

CheckApply(c) ==
    LET well == {p \in targets[c] : answers[c][p] = "healthy"}
        ill  == {p \in targets[c] : answers[c][p] = "unhealthy"}
    IN  /\ cpc[c] = "gather" /\ well \cup ill = targets[c]
        /\ health' = [p \in Providers |-> IF p \in targets[c] THEN answers[c][p] ELSE health[p]]
        /\ breaker' = [p \in Providers |->
                          IF p \in well THEN RecordSuccess(breaker[p])
                          ELSE IF p \in ill THEN RecordFailure(breaker[p])
                          ELSE breaker[p]]
        /\ disabled' = (disabled \ well) \cup {p \in ill : breaker'[p].st = "open"}
        /\ cpc' = [cpc EXCEPT ![c] = "idle"]
        /\ targets' = [targets EXCEPT ![c] = {}]
        /\ answers' = [answers EXCEPT ![c] = [p \in Providers |-> "none"]]
        /\ IF c = Loop
           THEN lpc' = "recover" /\ todo' = disabled' /\ UNCHANGED probe
           ELSE UNCHANGED loopVars
        /\ UNCHANGED <<envVars, loaded, reloadVars>>
-----------------------------------------------------------------------------
(* The background loop: sleep, check_health, _recovery_check. *)

LoopCheck ==
    /\ lpc = "sleep" /\ lpc' = "check"
    /\ CheckStart(Loop, loaded)
    /\ UNCHANGED <<envVars, todo, probe, reloadVars>>

RecoverPick(p) ==
    /\ lpc = "recover" /\ probe = None /\ p \in todo
    /\ todo' = todo \ {p}
    /\ IF p \in loaded
       THEN probe' = p /\ UNCHANGED disabled
       ELSE disabled' = disabled \ {p} /\ UNCHANGED probe
    /\ UNCHANGED <<envVars, loaded, health, breaker, checkVars, lpc, reloadVars>>

\* Mutant: the recovered provider stays in _disabled.
RecoverAnswerKeeps ==
    /\ lpc = "recover" /\ probe # None
    /\ \/ /\ Says(probe, "healthy")
          /\ health' = [health EXCEPT ![probe] = "healthy"]
          /\ breaker' = [breaker EXCEPT ![probe] = Reset(@)]
       \/ Says(probe, "unhealthy") /\ UNCHANGED <<health, breaker>>
    /\ probe' = None
    /\ UNCHANGED <<loaded, disabled, checkVars, lpc, todo, reloadVars>>

RecoverAnswer ==
    /\ lpc = "recover" /\ probe # None
    /\ \/ /\ Says(probe, "healthy")
          /\ disabled' = disabled \ {probe}
          /\ health' = [health EXCEPT ![probe] = "healthy"]
          /\ breaker' = [breaker EXCEPT ![probe] = Reset(@)]
       \/ Says(probe, "unhealthy") /\ UNCHANGED <<disabled, health, breaker>>
    /\ probe' = None
    /\ UNCHANGED <<loaded, checkVars, lpc, todo, reloadVars>>

LoopSleep ==
    /\ lpc = "recover" /\ probe = None /\ todo = {}
    /\ lpc' = "sleep"
    /\ UNCHANGED <<envVars, stateVars, checkVars, todo, probe, reloadVars>>
-----------------------------------------------------------------------------
(* reload, under the lock; the first one is initialize, which then starts   *)
(* the loop. Breakers and the disabled set outlive a reload.                *)

ReloadStart ==
    /\ MayReload /\ rpc = "idle"
    /\ rpc' = "close"
    /\ UNCHANGED <<envVars, stateVars, checkVars, loopVars, toLoad, loading>>

ReloadClear ==
    /\ rpc = "close" /\ rpc' = "load"
    /\ loaded' = {} /\ health' = [p \in Providers |-> "none"]
    /\ toLoad' = Providers
    /\ UNCHANGED <<envVars, breaker, disabled, checkVars, loopVars, loading>>

ReloadLoad(p) ==
    /\ rpc = "load" /\ loading = None /\ p \in toLoad
    /\ loaded' = loaded \cup {p} /\ loading' = p /\ toLoad' = toLoad \ {p}
    /\ UNCHANGED <<envVars, health, breaker, disabled, checkVars, loopVars, rpc>>

\* A provider that the configuration disables or names without a class for it,
\* or whose constructor raises, is not loaded this time.
ReloadSkip(p) ==
    /\ rpc = "load" /\ loading = None /\ p \in toLoad
    /\ toLoad' = toLoad \ {p}
    /\ UNCHANGED <<envVars, stateVars, checkVars, loopVars, rpc, loading>>

\* The first health check answers, or raises.
ReloadHealth ==
    /\ rpc = "load" /\ loading # None
    /\ \/ \E a \in {"healthy", "unhealthy"} :
             Says(loading, a) /\ health' = [health EXCEPT ![loading] = a]
       \/ health' = [health EXCEPT ![loading] = "unknown"] /\ UNCHANGED envVars
    /\ loading' = None
    /\ UNCHANGED <<loaded, breaker, disabled, checkVars, loopVars, rpc, toLoad>>

ReloadEnd ==
    /\ rpc = "load" /\ loading = None /\ toLoad = {}
    /\ rpc' = "idle"
    /\ lpc' = IF lpc = "off" THEN "sleep" ELSE lpc
    /\ UNCHANGED <<envVars, stateVars, checkVars, todo, probe, toLoad, loading>>
-----------------------------------------------------------------------------
LoopNext ==
    \/ LoopCheck \/ RecoverAnswer \/ LoopSleep \/ CheckApply(Loop)
    \/ \E p \in Providers : RecoverPick(p) \/ CheckAnswer(Loop, p)

CallerNext(c) == ApiCheck(c) \/ CheckApply(c) \/ \E p \in Providers : CheckAnswer(c, p)

ReloadNext ==
    \/ ReloadStart \/ ReloadClear \/ ReloadHealth \/ ReloadEnd
    \/ \E p \in Providers : ReloadLoad(p) \/ ReloadSkip(p)

ManagerNext == LoopNext \/ ReloadNext \/ \E c \in Callers : CallerNext(c)

Next == ManagerNext \/ Tick \/ \E p \in Providers : Flip(p)

Spec == Init /\ [][Next]_vars
-----------------------------------------------------------------------------
Answer == {"none", "healthy", "unhealthy"}

TypeOK ==
    /\ up \in [Providers -> BOOLEAN] /\ flips \in 0..MaxFlips /\ slips \in 0..MaxSlips
    /\ loaded \subseteq Providers /\ disabled \subseteq Providers
    /\ health \in [Providers -> Answer \cup {"unknown"}]
    /\ breaker \in [Providers -> Breaker]
    /\ cpc \in [Checkers -> {"idle", "gather"}]
    /\ targets \in [Checkers -> SUBSET Providers]
    /\ answers \in [Checkers -> [Providers -> Answer]]
    /\ lpc \in {"off", "sleep", "check", "recover"}
    /\ todo \subseteq Providers /\ probe \in Providers \cup {None}
    /\ rpc \in {"idle", "close", "load"}
    /\ toLoad \subseteq Providers /\ loading \in Providers \cup {None}

\* However health checks, recovery checks and reloads interleave, a closed
\* breaker is below its threshold, one that tripped stays at the threshold
\* until it closes (so that a single failed half-open check trips it again),
\* and a half-open one has not yet earned its closing successes.
BreakerSound ==
    \A p \in Providers :
        /\ (breaker[p].st = "closed") <=> (breaker[p].fails < FailureThreshold)
        /\ breaker[p].st = "half-open" => breaker[p].wins < HalfOpenQuota

\* A provider is never left in _disabled by a check that lost a race: whenever
\* it is there its breaker has tripped, so the recovery check that closes the
\* breaker and the removal from _disabled never come apart.
DisabledIsTripped == \A p \in disabled : breaker[p].st # "closed"

\* A provider whose breaker is open is in _disabled, so the router leaves it
\* out. The code means it (_track_failure disables what it finds open) and
\* does not keep it: a check_health that started before the breaker tripped,
\* or a recovery check during a reload, takes the provider out again.
OpenIsDisabled == \A p \in Providers : breaker[p].st = "open" => p \in disabled

\* Timers fire, and whatever has been started goes on: the loop, the checks
\* in flight and the reload in progress. New requests, reloads and changes of
\* a provider's own state are not owed.
FairSpec ==
    /\ Spec /\ WF_vars(Tick) /\ WF_vars(LoopNext)
    /\ WF_vars(\/ ReloadClear \/ ReloadHealth \/ ReloadEnd
               \/ \E p \in Providers : ReloadLoad(p) \/ ReloadSkip(p))
    /\ \A c \in Callers : WF_vars(CheckApply(c) \/ \E p \in Providers : CheckAnswer(c, p))

\* What AIRouter._is_provider_available asks for.
Available(p) == p \in loaded /\ p \notin disabled /\ health[p] # "unhealthy"

\* A provider that is back and loaded for good, with no reload running for
\* ever, is in the end available for good: no interleaving of checks, checks
\* that time out, recovery and reload leaves it out although it is healthy.
ComesBack ==
    \A p \in Providers : <>[](up[p] /\ p \in loaded /\ rpc = "idle") => <>[]Available(p)
=============================================================================
