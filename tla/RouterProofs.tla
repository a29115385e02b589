---------------------------- MODULE RouterProofs ----------------------------
(***************************************************************************)
(* Proof that a request fails only after every candidate has let it down,  *)
(* for any providers, models, tasks and candidate lists, any number of     *)
(* requests, and with health endpoints and reloads at any time.            *)
(***************************************************************************)
EXTENDS AIRouter, TLAPS

\* Still to come on the walk of r: the pair in hand and the entries behind it.
Ahead(r) ==
    (IF qpc[r] \in {"try", "call"} THEN {pair[r]} ELSE {})
        \cup {CandidatesOf[task[r]][i] : i \in rest[r]}

\* As long as r walks, every candidate that has not let it down is still ahead
\* and has its provider loaded: the latter makes it harmless to pass over a
\* pair whose provider is not.
Walk(r) ==
    /\ \A c \in steady[r] : Provider(c) \in loaded
    /\ qpc[r] \in {"try", "call", "failed"} => steady[r] \subseteq Ahead(r)
    /\ qpc[r] = "failed" => rest[r] = {}
    /\ qpc[r] \in {"502", "503"} => steady[r] = {}

Domains ==
    /\ qpc = [r \in Requests |-> qpc[r]] /\ task = [r \in Requests |-> task[r]]
    /\ pair = [r \in Requests |-> pair[r]] /\ rest = [r \in Requests |-> rest[r]]
    /\ steady = [r \in Requests |-> steady[r]]

WalkInv == Domains /\ \A r \in Requests : Walk(r)
-----------------------------------------------------------------------------
\* What a step of another request, of the clock or of the manager does to q.
Untouched(q) ==
    /\ qpc'[q] = qpc[q] /\ task'[q] = task[q] /\ pair'[q] = pair[q] /\ rest'[q] = rest[q]
    /\ steady'[q] = {c \in steady[q] : Provider(c) \in loaded'}

\* A request is not disturbed by the steps of others.
LEMMA UntouchedWalks ==
  ASSUME NEW q \in Requests, Walk(q), Untouched(q)
  PROVE  Walk(q)'
<1>1. Ahead(q)' = Ahead(q)
  BY DEF Ahead, Untouched
<1>2. steady'[q] \subseteq steady[q]
  BY DEF Untouched
<1> QED
  BY <1>1, <1>2 DEF Walk, Untouched

\* A step that leaves requests alone keeps the invariant: a health check, a
\* reload, the clock, a provider that goes down or comes back.
LEMMA ManagerKeeps ==
  ASSUME WalkInv, KeepSteady, UNCHANGED <<qpc, task, pair, rest>>
  PROVE  WalkInv'
<1>1. Domains'
  BY DEF WalkInv, Domains, KeepSteady
<1>2. \A q \in Requests : Untouched(q)
  BY DEF Untouched, KeepSteady
<1> QED
  BY <1>1, <1>2, UntouchedWalks DEF WalkInv

\* A step of r with KeepSteady that leaves its walk where it is.
LEMMA StandsStill ==
  ASSUME WalkInv, NEW r \in Requests, NEW to, KeepSteady, loaded' = loaded,
         qpc' = [qpc EXCEPT ![r] = to], UNCHANGED <<task, pair, rest>>,
         \/ to \notin {"try", "call", "failed", "502", "503"}
         \/ qpc[r] \in {"try", "call"} /\ to = "call"
         \/ qpc[r] = "failed" /\ to = "502"
  PROVE  WalkInv'
<1>1. Domains'
  BY DEF WalkInv, Domains, KeepSteady
<1>2. \A q \in Requests : q # r => Untouched(q)
  BY DEF Untouched, KeepSteady, WalkInv, Domains
<1>3. Walk(r) /\ qpc'[r] = to
  BY DEF WalkInv, Domains
<1>4. steady'[r] = steady[r]
  BY <1>3 DEF KeepSteady, Walk
<1>5. Walk(r)'
  <2>1. CASE to \notin {"try", "call", "failed", "502", "503"}
    BY <1>3, <1>4, <2>1 DEF Walk
  <2>2. CASE qpc[r] \in {"try", "call"} /\ to = "call"
    <3>1. Ahead(r)' = Ahead(r)
      BY <1>3, <2>2 DEF Ahead
    <3> QED
      BY <1>3, <1>4, <2>2, <3>1 DEF Walk
  <2>3. CASE qpc[r] = "failed" /\ to = "502"
    <3>1. steady[r] = {}
      BY <1>3, <2>3 DEF Walk, Ahead
    <3> QED
      BY <1>3, <1>4, <2>3, <3>1 DEF Walk
  <2> QED
    BY <2>1, <2>2, <2>3
<1> QED
  BY <1>1, <1>2, <1>5, UntouchedWalks DEF WalkInv

\* Giving a pair up keeps the invariant when the pair is no longer steady.
LEMMA GiveUpKeeps ==
  ASSUME WalkInv, NEW r \in Requests, NEW said, GiveUp(r, said), qpc[r] \in {"try", "call"},
         UNCHANGED <<task, loaded>>,
         steady' = [q \in Requests |-> steady'[q]],
         \A q \in Requests : q # r => steady'[q] = {c \in steady[q] : Provider(c) \in loaded'},
         steady'[r] \subseteq steady[r] \ {pair[r]}
  PROVE  WalkInv'
<1>1. Domains'
  BY DEF WalkInv, Domains, GiveUp
<1>2. \A q \in Requests : q # r => Untouched(q)
  BY DEF Untouched, WalkInv, Domains, GiveUp
<1>3. Walk(r) /\ steady'[r] \subseteq {CandidatesOf[task[r]][i] : i \in rest[r]}
  BY DEF WalkInv, Walk, Ahead
<1>4. Walk(r)'
  <2>1. CASE rest[r] = {} /\ qpc' = [qpc EXCEPT ![r] = "failed"] /\ UNCHANGED <<pair, rest>>
    <3>1. qpc'[r] = "failed" /\ rest'[r] = {} /\ steady'[r] = {}
      BY <1>3, <2>1 DEF WalkInv, Domains
    <3> QED
      BY <3>1 DEF Walk
  <2>2. ASSUME NEW i \in rest[r], pair' = [pair EXCEPT ![r] = CandidatesOf[task[r]][i]],
               rest' = [rest EXCEPT ![r] = @ \ {i}], qpc' = [qpc EXCEPT ![r] = "try"]
        PROVE  Walk(r)'
    <3>1. /\ qpc'[r] = "try" /\ rest'[r] = rest[r] \ {i}
          /\ pair'[r] = CandidatesOf[task[r]][i]
      BY <2>2 DEF WalkInv, Domains
    <3>2. steady'[r] \subseteq Ahead(r)'
      BY <1>3, <3>1 DEF Ahead
    <3> QED
      BY <1>3, <3>1, <3>2 DEF Walk
  <2> QED
    BY <2>1, <2>2 DEF GiveUp
<1> QED
  BY <1>1, <1>2, <1>4, UntouchedWalks DEF WalkInv

\* Giving up a pair that failed or was vetoed.
LEMMA DropKeeps ==
  ASSUME WalkInv, NEW r \in Requests, NEW said, GiveUp(r, said), qpc[r] \in {"try", "call"},
         UNCHANGED <<task, loaded>>, DropPair(r)
  PROVE  WalkInv'
<1>1. /\ steady' = [q \in Requests |-> steady'[q]]
      /\ steady'[r] \subseteq steady[r] \ {pair[r]}
      /\ \A q \in Requests : q # r => steady'[q] = {c \in steady[q] : Provider(c) \in loaded'}
  BY DEF DropPair
<1> QED
  BY <1>1, GiveUpKeeps

\* Routing puts every available candidate ahead, be the pick among them or not.
LEMMA RouteKeeps ==
  ASSUME WalkInv, NEW r \in Requests, Route(r), loaded' = loaded
  PROVE  WalkInv'
<1> DEFINE t       == task[r]
           healthy == {i \in Entries(t) : Available(Provider(CandidatesOf[t][i]))}
           avail   == IF healthy # {} THEN healthy ELSE Entries(t)
<1>1. /\ task' = task
      /\ steady' = [q \in Requests |->
                       IF q = r THEN {CandidatesOf[t][i] : i \in healthy}
                       ELSE {c \in steady[q] : Provider(c) \in loaded'}]
  BY DEF Route
<1>2. \A c \in steady'[r] : Provider(c) \in loaded
  BY <1>1 DEF Available
<1>3. CASE avail = {} /\ qpc' = [qpc EXCEPT ![r] = "503"] /\ UNCHANGED <<pair, rest>>
  <2>1. Domains'
    BY <1>1, <1>3 DEF WalkInv, Domains
  <2>2. \A q \in Requests : q # r => Untouched(q)
    BY <1>1, <1>3 DEF Untouched, WalkInv, Domains
  <2>3. qpc'[r] = "503" /\ steady'[r] = {}
    BY <1>1, <1>3 DEF WalkInv, Domains
  <2>4. Walk(r)'
    BY <2>3 DEF Walk
  <2> QED
    BY <2>1, <2>2, <2>4, UntouchedWalks DEF WalkInv
<1>4. ASSUME NEW picked, avail # {}, pair' = [pair EXCEPT ![r] = picked],
             rest' = [rest EXCEPT ![r] = ToTry(t, avail, picked)],
             qpc' = [qpc EXCEPT ![r] = "try"]
      PROVE  WalkInv'
  <2>1. Domains'
    BY <1>1, <1>4 DEF WalkInv, Domains
  <2>2. \A q \in Requests : q # r => Untouched(q)
    BY <1>1, <1>4 DEF Untouched, WalkInv, Domains
  <2>3. /\ qpc'[r] = "try" /\ pair'[r] = picked
        /\ rest'[r] = {i \in avail : CandidatesOf[t][i] # picked}
    BY <1>4 DEF WalkInv, Domains, ToTry
  <2>4. steady'[r] = {CandidatesOf[t][i] : i \in healthy} /\ healthy \subseteq avail
    BY <1>1
  <2> HIDE DEF healthy, avail
  <2>5. steady'[r] \subseteq {picked} \cup {CandidatesOf[t][i] : i \in rest'[r]}
    BY <2>3, <2>4
  <2>6. Walk(r)'
    BY <1>1, <1>2, <2>3, <2>5 DEF Walk, Ahead
  <2> QED
    BY <2>1, <2>2, <2>6, UntouchedWalks DEF WalkInv
<1> QED
  BY <1>3, <1>4 DEF Route
-----------------------------------------------------------------------------
\* Every step keeps the invariant.
LEMMA StepWalks == WalkInv /\ [RouterNext]_allVars => WalkInv'
<1> SUFFICES ASSUME WalkInv, [RouterNext]_allVars PROVE WalkInv'
  OBVIOUS
<1>1. CASE UNCHANGED allVars
  BY <1>1 DEF allVars, vars, stateVars, routerVars, requestVars, walkVars,
              WalkInv, Domains, Walk, Ahead
<1>2. CASE KeepSteady /\ UNCHANGED requestVars
  BY <1>2, ManagerKeeps DEF requestVars, walkVars
<1>3. ASSUME NEW r \in Requests, UNCHANGED vars, Arrive(r) \/ Serve(r) \/ Cancel(r) \/ Veto(r)
      PROVE  WalkInv'
  <2>0. loaded' = loaded
    BY <1>3 DEF vars, stateVars
  <2>1. CASE Arrive(r)
    <3>1. Domains'
      BY <2>1 DEF Arrive, KeepSteady, WalkInv, Domains
    <3>2. \A q \in Requests : q # r => Untouched(q)
      BY <2>1 DEF Arrive, KeepSteady, Untouched, WalkInv, Domains
    <3>3. qpc'[r] = "route"
      BY <2>1 DEF Arrive, WalkInv, Domains
    <3>4. Walk(r)'
      BY <2>1, <3>3 DEF Arrive, KeepSteady, Walk
    <3> QED
      BY <3>1, <3>2, <3>4, UntouchedWalks DEF WalkInv
  <2>2. CASE Route(r)
    BY <2>0, <2>2, RouteKeeps
  <2>3. CASE Missing(r)
    <3>1. /\ GiveUp(r, kind[r] = "chat") /\ qpc[r] = "try" /\ task' = task
          /\ Provider(pair[r]) \notin loaded /\ KeepSteady
      BY <2>3 DEF Missing
    <3>2. /\ steady' = [q \in Requests |-> steady'[q]]
          /\ \A q \in Requests : steady'[q] = {c \in steady[q] : Provider(c) \in loaded'}
      BY <3>1 DEF KeepSteady
    <3>3. steady'[r] \subseteq steady[r] \ {pair[r]}
      BY <2>0, <3>1, <3>2
    <3> QED
      BY <2>0, <3>1, <3>2, <3>3, GiveUpKeeps
  <2>4. CASE TryProvider(r)
    BY <2>0, <2>4, StandsStill DEF TryProvider, walkVars
  <2>5. CASE ChatAnswers(r)
    <3>1. PICK e \in {"answered", "cancelled"} : qpc' = [qpc EXCEPT ![r] = e]
      BY <2>5 DEF ChatAnswers
    <3>2. KeepSteady /\ UNCHANGED <<task, pair, rest>>
      BY <2>5 DEF ChatAnswers
    <3> QED
      BY <2>0, <3>1, <3>2, StandsStill
  <2>6. CASE ChatFails(r)
    <3>1. qpc[r] = "call" /\ task' = task
      BY <2>6 DEF ChatFails
    <3>2. CASE KeepSteady /\ UNCHANGED <<qpc, pair, rest>>
      BY <3>1, <3>2, ManagerKeeps
    <3>3. CASE GiveUp(r, TRUE) /\ DropPair(r)
      BY <2>0, <3>1, <3>3, DropKeeps
    <3> QED
      BY <2>6, <3>2, <3>3 DEF ChatFails
  <2>7. CASE Chunk(r)
    BY <2>7, ManagerKeeps DEF Chunk
  <2>8. CASE StreamEnds(r)
    BY <2>0, <2>8, StandsStill DEF StreamEnds
  <2>9. CASE StreamFails(r)
    BY <2>0, <2>9, DropKeeps DEF StreamFails
  <2>10. CASE AllFailed(r)
    BY <2>0, <2>10, StandsStill DEF AllFailed, walkVars
  <2>11. CASE Cancel(r)
    BY <2>0, <2>11, StandsStill DEF Cancel, walkVars
  <2>12. CASE Veto(r)
    <3>1. qpc[r] = "call" /\ task' = task /\ DropPair(r)
      BY <2>12 DEF Veto
    <3>2. CASE GiveUp(r, TRUE)
      BY <2>0, <3>1, <3>2, DropKeeps
    <3>3. CASE qpc' = [qpc EXCEPT ![r] = "cancelled"] /\ UNCHANGED <<pair, rest>>
      <4>1. Domains'
        BY <3>1, <3>3 DEF WalkInv, Domains, DropPair
      <4>2. \A q \in Requests : q # r => Untouched(q)
        BY <3>1, <3>3 DEF Untouched, DropPair, WalkInv, Domains
      <4>3. qpc'[r] = "cancelled"
        BY <3>3 DEF WalkInv, Domains
      <4>4. Walk(r)'
        BY <3>1, <4>3 DEF Walk, DropPair
      <4> QED
        BY <4>1, <4>2, <4>4, UntouchedWalks DEF WalkInv
    <3> QED
      BY <2>12, <3>2, <3>3 DEF Veto
  <2> QED
    BY <1>3, <2>1, <2>2, <2>3, <2>4, <2>5, <2>6, <2>7, <2>8, <2>9, <2>10, <2>11, <2>12 DEF Serve
<1> QED
  BY <1>1, <1>2, <1>3 DEF RouterNext, requestVars

\* The walk invariant holds for ever.
LEMMA WalksOn == RouterSpec => []WalkInv
<1>1. RouterInit => WalkInv
  BY DEF RouterInit, WalkInv, Domains, Walk
<1> QED
  BY <1>1, StepWalks, PTL DEF RouterSpec

\* However health checks, reloads and other requests interleave with it, a
\* request ends in 502 or 503 only if every candidate that was available when
\* it was routed has failed it, was vetoed or was unloaded.
THEOREM RequestsServed == RouterSpec => []Served
<1>1. WalkInv => Served
  BY DEF WalkInv, Walk, Served
<1> QED
  BY WalksOn, <1>1, PTL
=============================================================================
