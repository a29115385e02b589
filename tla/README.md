# AI-Router: specifications and proofs

TLA+ specifications of the concurrent parts of AI-Router (`src/app`), checked
with TLC on small instances, with the central invariants proved by TLAPS for
every value of the constants. `PROJECT.json` lists components, runs, mutants,
the map from definitions to source lines, findings, hazards and theorems.

    tlc -workers 2 -config queue_core.cfg MCQueue      # a run
    tlapm QueueProofs.tla                              # the proofs of a module

## The system

AI-Router is an asyncio (FastAPI) service that sends chat requests to one of
several AI providers, with a Redis-backed layer for background work and a
cluster layer for several replicas.

| Part (under `src/app`) | What it does | Module |
| --- | --- | --- |
| `distributed/distributed_queue.py`, `distributed/redis_client.py`, `worker.py` | task queue on Redis lists, leases, delayed set; poll loops of the workers | `DistributedTaskQueue` |
| `providers/manager.py` | loads providers, health checks, circuit breakers, recovery, reload | `ProviderManager` |
| `router.py`, `routing.py`, `traffic_distribution.py`, `plugin/pipeline.py` | routes chat and streams along a fallback chain | `AIRouter` (extends `ProviderManager`) |
| `cluster/election.py`, `LeaseStore` of `cluster/repository.py`, `leave`, `rebalance` and the leader watch of `cluster/cluster.py` | leader election over a lease store, Redis or a Kubernetes Lease | `LeaderElection` |
| rest of `cluster/` | membership, health, failover, jobs, autoscaling, deployments, replication | planned |
| rest of `distributed/`, `tasks/`, `scheduler.py` | scheduler lock, leases, idempotency, DLQ, worker registry, event bus, local queue | planned |
| `orchestration/` | DAG execution, approvals, budget, consensus, worker pool | planned |
| `gateway/`, `cache.py`, `rate_limit.py` | rate limits, quota, caches, webhooks | planned |
| `billing/`, `auth/`, `organization/`, `tenancy/` | subscriptions, tokens and sessions, invitations, tenants | planned |
| `plugins/`, `plugin/`, `mcp/`, `memory/`, `tools/`, `security/`, `admin/`, `migrations/`, `release/`, `deploy/`, `observability/` | lifecycles and registries | planned where there is a state machine |
| `knowledge/`, `retrieval/`, `rag/`, `reranker/`, `citations/`, `prompting/`, `evaluation/`, `classifier.py` | text and vector computation | only fallbacks, caches and rank fusion are planned |
| provider clients, `config.py`, `models.py`, `logger.py`, `api.py` wiring | I/O and schemas | appear as inputs, answers and failures |

They interact as follows. The API hands a request to `AIRouter`, which asks
`ProviderManager` who is available; health endpoints of the API and a
background loop call the same `check_health`. Workers of all replicas take
tasks from the Redis queue and know each other only through it. The elector of
each replica decides which one schedules.

## How the code is modelled

All four modules follow one rule. Code between two `await`s runs without
interruption on the event loop, so it is one step. An `await` on Redis, a
provider or a plugin ends the step, and what the coroutine read before it is
kept in a variable of the model and used after it. Actions are named after the
method and the command they stand for.

**DistributedTaskQueue.** `task`, `lease`, `flag`, `queue` and `delayed` are
the Redis keys; keys with a TTL carry the time they die. Each `enqueue` call,
worker and `requeue_expired` call has a program counter (`epc`, `pc`, `spc`)
and what it has in hand (`cur`, `snap`, `sweepSnap`, ...). A task may have any
integer priority, as `enqueue` checks none; `dequeue` takes from the lists in
`Polled`. `ProcessDelayed` is the Lua script, atomic as Redis runs it. `MayFail`
lets any coroutine die or a Redis call raise between two commands: an exception
inside the `try` of `process_one` leads to `nack`, one outside drops the task.
`Recycle` in `MCQueue` uses the id of a settled task for a new one, so that
`enqueue` calls never end.

**ProviderManager.** A breaker is a record of its state and counters;
`fails` and `age` saturate where the code no longer distinguishes values, so
time needs no bound. `check_health` is `CheckStart` (targets chosen, `is_open`
read, with its side effect), `CheckAnswer` per provider, and `CheckApply`,
which applies all answers and tracks failures. It runs for each member of
`Callers` (the four endpoints that call it) and for the loop, which goes on with
the recovery check. `Says` is what a health check reports: the provider's state,
or, up to `MaxSlips` times, unhealthy although it is up (a timeout, a closed
client). `reload` clears and reloads one provider at a time; `ReloadSkip` is a
provider that is disabled, unknown or fails to load. `Flip` is the environment.

**AIRouter.** Candidates are (provider, model) pairs, and a task may list one
provider with several models. A connection carries one request after another.
`Route` computes the available candidates, rebuilds the shared weights if they
are old, and picks the head of `providers_to_try`: any weighted pair (the
starvation floor gives each a share) or the variant of an A/B test. The entries
behind it are a set, `rest`, and the walk takes any of them next, because scores
do nothing but order them. A pair is given up because its provider is not
loaded, was vetoed, or failed after the retries; any call may fail, a stream also
after its last chunk. `steady` is a history variable: the candidates available
at routing that have since neither failed the request, nor been vetoed, nor
been unloaded.

**LeaderElection.** `holder` and `left` are the lease, `leader` and `epoch` the
fields of each elector; `strategy` is fixed at the start. With `lease` an `elect`
call is one step. With Redis and Kubernetes the command on the server and the
use of its answer are two, in `elect` and in `step_down`. `LeaveStop`,
`StepDownDelete`, ..., `LeaveEnd` are the steps of `ClusterManager.leave`, during
which the leader watch runs on; `Rebalance` is what the watch and `rebalance` do
when the node store calls the leader FAILED or does not know it. `Crash` leaves
the lease behind, `Restart` is a new process with the same id. Two counters
record what the code cannot exclude: `late`, that a lease ran out under a node
that leads or is about to, and `wrong`, that a leader was suspected while alive.
`Sound` says that neither has happened yet.

## Runs

| Run | Shows |
| --- | --- |
| `queue_core` | task ids are never duplicated and tasks never shared, and an id on its way to a worker belongs to a queued task, with crashes, failing calls, delays and retries, without `requeue_expired` |
| `queue_steady` | without crashes no task is lost, settled tasks stay settled, and every task of a polled priority is settled unless more urgent ones are pushed for ever |
| `queue_sweep` | with one `requeue_expired` at a time, two workers never run one task under two live leases |
| `providers` | breakers stay sound and `_disabled` consistent under concurrent checks, timeouts, recovery and reload; a provider that is up and loaded becomes available for good |
| `router` | the fallback chain misses no candidate, no pair gets more calls than its entries and the retries allow, and every request ends |
| `election` | for every strategy one leader, only under its own live lease, while `Sound`; for lease and Redis agreement in the end if `Sound` stays true, and a leader again and again whatever happens |

Six runs are expected to fail: each checks what the documentation says and
finds a behaviour of the code that disagrees.

| Run | The code |
| --- | --- |
| `queue_sweeps` | two overlapping `requeue_expired` calls requeue one task twice, and two workers run it under two live leases |
| `queue_retry` | a retry is scheduled without the flag `process_delayed` asks for and is dropped |
| `providers_late_check` | a late healthy answer re-enables a provider whose breaker is open |
| `router_midstream` | a broken stream starts over with the next provider |
| `router_silent` | a stream passes over a provider that is not loaded without `fallback.triggered` |
| `election_late` | a Redis leader that lost its key prolongs its successor's and leads on |

Other places where the code and the repository's README disagree were met while
modelling. They show in the model (each is one action) and have no run:

* `_recovery_check` closes a breaker after one healthy answer (README.md:1404
  asks for three half-open successes): `RecoverAnswer`.
* The weighted pick may be a provider whose breaker is open (README.md:1402):
  `Route` takes it from weights that are up to 60 s old.
* A failed chain gives 502, not 503 (README.md:1382-1384): `AllFailed`.
* A sweep cut off before it deletes the old lease key makes the next one
  requeue a running task (README.md:2653): `SweepEnd` with `MayFail`.
* A `LeaseStore` leader whose renewal fails keeps leading (README.md:2667):
  `LeaseRenew`. A crashed Kubernetes leader is never replaced (README.md:150):
  `KubeOther`. Every leader of a lease or in Redis has epoch 1 (README.md:2698):
  `NextEpoch`.

### Bounds

`queue_core`: two tasks of two priorities and two workers are enough for every
pair of actors to meet on one task. `queue_steady` adds a task that no worker
polls, and tasks follow each other without end. `queue_sweep` and `queue_sweeps`
use one task and a longer clock (`MaxTime` 5 and 3) so that a lease ends, is
swept and is granted again. Times after the last tick are one value.
`MaxRetries` from 1 to 3 gives both branches of `nack`.

`providers`: a threshold and a quota of 2 separate the first failure or success
from the last one; one flip from any initial state, one spurious failure, and two
callers and the loop for three concurrent checks. `providers_late_check` has a
second flip.

`router`: two providers, a task that lists one of them with two models, a task
that lists both, and one that lists none; two attempts. One connection suffices
because requests meet only in the weights and the provider manager, and its
requests follow each other under ageing weights. The provider manager takes part
with its loop and its first load, which may leave a provider out; later reloads,
endpoints and A/B variants are left to the proof of `Served`, and `router_silent`
and `router_midstream` have them.

`election`: two nodes, two stops, TTL 2, one late lease and one wrong suspicion.
The proofs cover any number of nodes.

### Fairness

Weak fairness of the actions that asyncio keeps scheduling: a started call goes
on, timers fire, servers and providers answer or fail. New requests, reloads,
crashes, rebalances and changes of a provider are never owed. `StreamSpec` owes
every `enqueue` call and every poll loop its next step. `FairDelayedSpec` also
supposes that something calls `process_delayed` again and again; nothing in
`app/` does, and the finding holds even so.

## Proofs

Every theorem is about the unchanged specification and any value of the
constants that the named `ASSUME`s allow; further assumptions are in the
statement.

* `QueueProofs`: `TypeCorrect`, and with `Sweepers = {}` also `OneCopyAlways`,
  `ExclusiveOwnership` and `OnTheWayAlwaysQueued`. Exclusive ownership is not
  inductive. It follows from `OneCopy`: an id is with its enqueuer, at one place
  of one list, in the delayed set, or carried by one worker. `QueuedOnTheWay` is
  needed with it, because `dequeue` would put an id back if its task were not
  queued. Lemmas say what LPUSH, BRPOP and the script do to the ids of a list.
* `QueueOutcomeProofs`: `OutcomesStay`, without sweeps and failing calls: the
  record a worker writes back is that of a task it alone carries, which is not
  settled. `NothingLost`, without delays as well: every step of a worker keeps
  its task, lets it go once it is settled, or takes one up.
* `QueueLeaseProofs`: `LeasesExclusive`, with at most one sweep at a time,
  without failing calls and delays. The invariant follows a task through the
  sweep: while a copy of its id can be handed out, whoever still works on it is
  past the end of its lease. `queue_sweeps` shows that one sweep is needed.
* `ProviderProofs`: the invariant is types, `AllSound` (each breaker's fields
  agree) and `DisabledIsTripped`. One lemma per breaker method shows that it
  keeps a sound breaker sound and what it may close. It gives `ManagerTypes`,
  `BreakersAlwaysSound` and `DisabledAlwaysTripped`, with any callers and reloads.
* `RouterProofs`: `RequestsServed`. The invariant says that every candidate in
  `steady` is still ahead on the walk, as the pair in hand or behind it, and has
  its provider loaded; so passing over an unloaded provider never skips one, and
  at the end of the chain `steady` is empty.
* `ElectionProofs`: `ElectionTypes`, `CommittedAlwaysHolds` and from it
  `AtMostOneLeader`, for all strategies, nodes and bounds. The invariant covers
  nodes that have been told that they may lead and have not acted on it, and
  leaders on their way out; without them it is not inductive.

Liveness (`EventuallySettled`, `ComesBack`, `EveryRequestEnds`, `Converges`,
`TakenOver`) is model-checked only, as TLAPS does not reason about fairness. So
are `CallBudget` and `RouterTypeOK`.

## Not modelled

Of the modelled files: `move_to_dlq` and `list_dlq`, `enable_provider`,
`reload_from_yaml`, shutdown, embeddings and `list_models`, canary and shadow
traffic, metrics, logs and persistence of statistics. Of the electors: a server
call that takes effect and then raises, a call of a cancelled coroutine that
takes effect late, and a `leave` whose DELETE raises. A provider that never failed
has no breaker object in the code and a fresh one in the model. The router's
first initialisation is the one at startup.

## Plan

In this order; each with its MC module, runs, and proofs where marked (P).

1. Cluster membership: `NodeStore`, `HealthMonitor`, `FailoverManager`, job
   reassignment and the cron scheduler, composed with `LeaderElection` (P: node
   state transitions; each job assigned to one live node).
2. Distributed primitives: scheduler lock, `Lease`, idempotency, DLQ, worker
   registry, event bus; an abstract lock specification that lease, scheduler
   lock and election refine (P: refinement of the safety part).
3. Local `TaskQueue` and worker pool; orchestration DAG execution against the
   reference "a node starts after its predecessors", approval, budget (P).
4. Gateway rate limiters and quotas against a reference count, caches, webhook
   delivery with retries (P: never above the limit).
5. Billing lifecycle, usage and webhook deduplication; token rotation and
   session limits; invitations and the last-owner rule; tenant lifecycle.
6. Plugin lifecycle and watcher, migrations with failures half way, MCP request
   correlation, memory lifecycle, deployments, replication, alerts.
7. Pure algorithms on bounded inputs: rank fusion, weight normalisation,
   version comparison, chunking.
8. Router proofs: `CallBudget`.
