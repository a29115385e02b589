------------------------------ MODULE AIRouter ------------------------------
(***************************************************************************)
(* chat and stream_chat of app/router.py on top of ProviderManager: the    *)
(* choice of candidates, the weighted first pick of traffic_distribution   *)
(* (whose weights are shared by all requests and rebuilt only now and      *)
(* then), the walk along the fallback chain and the retries of             *)
(* retry_with_backoff, interleaved with health checks and reloads.         *)
(*                                                                         *)
(* Candidates are (provider, model) pairs; a task may list a provider with *)
(* several models, and even a pair twice. Scores order the candidates and  *)
(* nothing else, so rank_providers may return them in any order: the walk  *)
(* takes any of the entries still to try. The starvation floor gives every *)
(* weight a share, so any weighted pair may be picked. Metrics, logs and   *)
(* shadow traffic are left out.                                            *)
(***************************************************************************)
EXTENDS ProviderManager, Sequences

CONSTANTS
    Models,         \* model names
    Requests,       \* connections, each with one request after another
    Tasks,          \* what the classifier answers
    CandidatesOf,   \* the primary and the fallback pairs listed for a task
    Variants,       \* pairs that running A/B tests put in place of the pick
    Kinds,          \* subset of {"chat", "stream"}
    MaxAttempts,    \* max_retries of retry_with_backoff (3)
    AnswerLength,   \* chunks in a streamed answer
    RebalanceAfter, \* rebalance_interval_seconds (60 s)
    MayCancel       \* whether plugins veto and clients disconnect

Pairs == Providers \X Models

ASSUME RouterAssumptions ==
    /\ CandidatesOf \in [Tasks -> Seq(Pairs)] /\ Variants \subseteq Pairs
    /\ Kinds \subseteq {"chat", "stream"} /\ Kinds # {} /\ Tasks # {}
    /\ MaxAttempts \in Nat \ {0} /\ AnswerLength \in Nat
    /\ RebalanceAfter \in Nat /\ MayCancel \in BOOLEAN

VARIABLES
    weights,    \* pairs in traffic_distribution._weights
    weightAge,  \* time since _last_rebalance, up to the interval
    qpc,        \* where each request is
    kind,       \* whether it is a chat or a stream_chat
    task,       \* its task
    pair,       \* the pair of providers_to_try it is at
    rest,       \* the entries of CandidatesOf behind it in providers_to_try
    tries,      \* calls made in the attempt in hand
    calls,      \* calls made with each pair for it
    gone,       \* pairs it has given up
    fallbacks,  \* fallback.triggered events emitted for it
    text,       \* chunks the client of a stream has received
    sent,       \* chunks of the current pair's answer among them
    steady      \* history: available candidates that have not let it down since

weightVars  == <<weights, weightAge>>
walkVars    == <<pair, rest, tries, calls, gone, fallbacks, text, sent>>
requestVars == <<qpc, kind, task, walkVars>>
routerVars  == <<weightVars, requestVars, steady>>
allVars     == <<vars, routerVars>>

Ended == {"answered", "502", "503", "cancelled"}

Provider(c) == c[1]
Entries(t)  == DOMAIN CandidatesOf[t]
NoPair      == <<None, None>>

RouterInit ==
    /\ Init
    /\ weights = {} /\ weightAge = RebalanceAfter + 1
    /\ qpc = [r \in Requests |-> "idle"]
    /\ kind \in [Requests -> Kinds] /\ task \in [Requests -> Tasks]
    /\ pair = [r \in Requests |-> NoPair] /\ rest = [r \in Requests |-> {}]
    /\ tries = [r \in Requests |-> 0]
    /\ calls = [r \in Requests |-> [c \in Pairs |-> 0]]
    /\ gone = [r \in Requests |-> 0] /\ fallbacks = [r \in Requests |-> 0]
    /\ text = [r \in Requests |-> <<>>] /\ sent = [r \in Requests |-> 0]
    /\ steady = [r \in Requests |-> {}]

\* Every step takes the pairs whose provider a reload has unloaded out of
\* steady, and giving a pair up after a failed call or a veto that pair.
KeepSteady == steady' = [r \in Requests |-> {c \in steady[r] : Provider(c) \in loaded'}]

DropPair(r) ==
    steady' = [q \in Requests |->
                  {c \in steady[q] : Provider(c) \in loaded' /\ ~(q = r /\ c = pair[r])}]
-----------------------------------------------------------------------------
(* chat and stream_chat share their first half. *)

\* A request, after another one has ended; initialize has completed, and
\* before_request and before_route are running.
Arrive(r) ==
    /\ qpc[r] \in Ended \cup {"idle"} /\ lpc # "off"
    /\ qpc' = [qpc EXCEPT ![r] = "route"]
    /\ \E k \in Kinds : kind' = [kind EXCEPT ![r] = k]
    /\ \E t \in Tasks : task' = [task EXCEPT ![r] = t]
    /\ pair' = [pair EXCEPT ![r] = NoPair] /\ rest' = [rest EXCEPT ![r] = {}]
    /\ tries' = [tries EXCEPT ![r] = 0]
    /\ calls' = [calls EXCEPT ![r] = [c \in Pairs |-> 0]]
    /\ gone' = [gone EXCEPT ![r] = 0] /\ fallbacks' = [fallbacks EXCEPT ![r] = 0]
    /\ text' = [text EXCEPT ![r] = <<>>] /\ sent' = [sent EXCEPT ![r] = 0]
    /\ UNCHANGED weightVars /\ KeepSteady

\* _compute_weights: every ranked pair gets a share above zero.
RebuiltWeights(t, avail) == {CandidatesOf[t][i] : i \in avail}

\* _needs_rebalance, or the first selection of all.
NeedsRebalance == weightAge > RebalanceAfter \/ weights = {}

\* Mutants: the pick alone; the pick once more where it is ranked.
ToTryPickOnly(t, avail, picked) == {}
ToTryAgain(t, avail, picked) == avail

\* providers_to_try behind the pick: the ranked entries that are not the pick.
ToTry(t, avail, picked) == {i \in avail : CandidatesOf[t][i] # picked}

Route(r) ==
    LET t       == task[r]
        healthy == {i \in Entries(t) : Available(Provider(CandidatesOf[t][i]))}
        avail   == IF healthy # {} THEN healthy ELSE Entries(t)
    IN  /\ qpc[r] = "route"
        /\ IF avail = {}
           THEN /\ qpc' = [qpc EXCEPT ![r] = "503"]
                /\ UNCHANGED <<weightVars, pair, rest>>
           ELSE /\ weights' = IF NeedsRebalance THEN RebuiltWeights(t, avail) ELSE weights
                /\ weightAge' = IF NeedsRebalance THEN 0 ELSE weightAge
                /\ \E picked \in weights' \cup Variants :
                      /\ pair' = [pair EXCEPT ![r] = picked]
                      /\ rest' = [rest EXCEPT ![r] = ToTry(t, avail, picked)]
                /\ qpc' = [qpc EXCEPT ![r] = "try"]
        /\ steady' = [q \in Requests |->
                         IF q = r THEN {CandidatesOf[t][i] : i \in healthy}
                         ELSE {c \in steady[q] : Provider(c) \in loaded'}]
        /\ UNCHANGED <<kind, task, tries, calls, gone, fallbacks, text, sent>>

\* A plugin cancels in before_request, before_route or after_route, or the
\* client of a stream disconnects.
Cancel(r) ==
    /\ MayCancel
    /\ \/ qpc[r] = "route"
       \/ qpc[r] = "try" /\ gone[r] = 0
       \/ kind[r] = "stream" /\ qpc[r] \in {"try", "call", "failed"}
    /\ qpc' = [qpc EXCEPT ![r] = "cancelled"]
    /\ UNCHANGED <<weightVars, kind, task, walkVars>> /\ KeepSteady
-----------------------------------------------------------------------------
(* The walk along providers_to_try. *)

\* The pair in hand is given up, with or without a fallback.triggered event,
\* and the next one in the ranking, if any, taken up.
GiveUp(r, announced) ==
    /\ gone' = [gone EXCEPT ![r] = @ + 1]
    /\ fallbacks' = [fallbacks EXCEPT ![r] = IF announced THEN @ + 1 ELSE @]
    /\ tries' = [tries EXCEPT ![r] = 0] /\ sent' = [sent EXCEPT ![r] = 0]
    /\ \/ /\ rest[r] = {} /\ qpc' = [qpc EXCEPT ![r] = "failed"]
          /\ UNCHANGED <<pair, rest>>
       \/ /\ \E i \in rest[r] :
                /\ pair' = [pair EXCEPT ![r] = CandidatesOf[task[r]][i]]
                /\ rest' = [rest EXCEPT ![r] = @ \ {i}]
          /\ qpc' = [qpc EXCEPT ![r] = "try"]

\* The provider is not loaded: _try_provider returns None, and chat announces
\* a fallback; stream_chat goes on to the next pair without one.
Missing(r) ==
    /\ qpc[r] = "try" /\ Provider(pair[r]) \notin loaded
    /\ GiveUp(r, kind[r] = "chat")
    /\ UNCHANGED <<weightVars, kind, task, calls, text>> /\ KeepSteady

\* The provider object is in hand; before_provider is running.
TryProvider(r) ==
    /\ qpc[r] = "try" /\ Provider(pair[r]) \in loaded
    /\ qpc' = [qpc EXCEPT ![r] = "call"]
    /\ UNCHANGED <<weightVars, kind, task, walkVars>> /\ KeepSteady

\* A before_provider plugin vetoes the provider: chat tries the next pair,
\* stream_chat ends without a word.
Veto(r) ==
    /\ MayCancel /\ qpc[r] = "call" /\ tries[r] = 0
    /\ IF kind[r] = "chat"
       THEN GiveUp(r, TRUE)
       ELSE /\ qpc' = [qpc EXCEPT ![r] = "cancelled"]
            /\ UNCHANGED <<pair, rest, tries, gone, fallbacks, sent>>
    /\ UNCHANGED <<weightVars, kind, task, calls, text>> /\ DropPair(r)

Counted(r) == calls' = [calls EXCEPT ![r][pair[r]] = @ + 1]

\* provider.chat answers; a before_response plugin may still cancel.
ChatAnswers(r) ==
    /\ kind[r] = "chat" /\ qpc[r] = "call" /\ up[Provider(pair[r])]
    /\ Counted(r)
    /\ \E e \in {"answered"} \cup (IF MayCancel THEN {"cancelled"} ELSE {}) :
          qpc' = [qpc EXCEPT ![r] = e]
    /\ UNCHANGED <<weightVars, kind, task, pair, rest, tries, gone, fallbacks, text, sent>>
    /\ KeepSteady

\* provider.chat raises, as any call may: the provider is down or limits the
\* rate, or a reload closed its connections under the call. A retryable error
\* is retried, up to MaxAttempts calls; any other gives the pair up at once.
ChatFails(r) ==
    /\ kind[r] = "chat" /\ qpc[r] = "call"
    /\ Counted(r)
    /\ \/ /\ tries[r] + 1 < MaxAttempts
          /\ tries' = [tries EXCEPT ![r] = @ + 1]
          /\ UNCHANGED <<qpc, pair, rest, gone, fallbacks, sent>> /\ KeepSteady
       \/ GiveUp(r, TRUE) /\ DropPair(r)
    /\ UNCHANGED <<weightVars, kind, task, text>>

\* The first event of a provider's stream counts the call.
CountStream(r) == IF tries[r] = 0 THEN Counted(r) ELSE UNCHANGED calls

\* Mutant: the end of the answer goes unnoticed.
ChunkForever(r) ==
    /\ kind[r] = "stream" /\ qpc[r] = "call" /\ up[Provider(pair[r])]
    /\ CountStream(r) /\ tries' = [tries EXCEPT ![r] = 1]
    /\ sent' = [sent EXCEPT ![r] = @ + 1]
    /\ text' = [text EXCEPT ![r] = Append(@, sent[r] + 1)]
    /\ UNCHANGED <<weightVars, qpc, kind, task, pair, rest, gone, fallbacks>> /\ KeepSteady

\* provider.stream_chat yields a chunk, which goes to the client at once.
Chunk(r) ==
    /\ kind[r] = "stream" /\ qpc[r] = "call" /\ up[Provider(pair[r])]
    /\ sent[r] < AnswerLength
    /\ CountStream(r) /\ tries' = [tries EXCEPT ![r] = 1]
    /\ sent' = [sent EXCEPT ![r] = @ + 1]
    /\ text' = [text EXCEPT ![r] = Append(@, sent[r] + 1)]
    /\ UNCHANGED <<weightVars, qpc, kind, task, pair, rest, gone, fallbacks>> /\ KeepSteady

StreamEnds(r) ==
    /\ kind[r] = "stream" /\ qpc[r] = "call" /\ sent[r] = AnswerLength
    /\ CountStream(r)
    /\ qpc' = [qpc EXCEPT ![r] = "answered"]
    /\ UNCHANGED <<weightVars, kind, task, pair, rest, tries, gone, fallbacks, text, sent>>
    /\ KeepSteady

\* The stream breaks before its first chunk, after some, or after the last one
\* (the accounting and the after_provider hooks are in the same try).
StreamFails(r) ==
    /\ kind[r] = "stream" /\ qpc[r] = "call"
    /\ CountStream(r)
    /\ GiveUp(r, TRUE)
    /\ UNCHANGED <<weightVars, kind, task, text>> /\ DropPair(r)

\* Mutant: a single error is not reported.
AllFailedTwoErrors(r) ==
    /\ qpc[r] = "failed" /\ gone[r] > 1
    /\ qpc' = [qpc EXCEPT ![r] = "502"]
    /\ UNCHANGED <<weightVars, kind, task, walkVars>> /\ KeepSteady

\* AllProvidersFailedError, which the API turns into 502.
AllFailed(r) ==
    /\ qpc[r] = "failed"
    /\ qpc' = [qpc EXCEPT ![r] = "502"]
    /\ UNCHANGED <<weightVars, kind, task, walkVars>> /\ KeepSteady
-----------------------------------------------------------------------------
Serve(r) ==
    \/ Route(r) \/ Missing(r) \/ TryProvider(r)
    \/ ChatAnswers(r) \/ ChatFails(r)
    \/ Chunk(r) \/ StreamEnds(r) \/ StreamFails(r) \/ AllFailed(r)

RouterNext ==
    \/ UNCHANGED vars /\ \E r \in Requests : Arrive(r) \/ Serve(r) \/ Cancel(r) \/ Veto(r)
    \/ (ManagerNext \/ \E p \in Providers : Flip(p)) /\ KeepSteady /\ UNCHANGED <<weightVars, requestVars>>
    \/ /\ Tick /\ KeepSteady
       /\ weightAge' = IF weightAge <= RebalanceAfter THEN weightAge + 1 ELSE weightAge
       /\ UNCHANGED <<weights, requestVars>>

RouterSpec == RouterInit /\ [][RouterNext]_allVars
-----------------------------------------------------------------------------
RouterTypeOK ==
    /\ weights \subseteq Pairs /\ weightAge \in 0..RebalanceAfter + 1
    /\ qpc \in [Requests -> {"idle", "route", "try", "call", "failed"} \cup Ended]
    /\ kind \in [Requests -> Kinds] /\ task \in [Requests -> Tasks]
    /\ pair \in [Requests -> Pairs \cup {NoPair}]
    /\ rest \in [Requests -> SUBSET Nat]
    /\ tries \in [Requests -> 0..MaxAttempts]
    /\ calls \in [Requests -> [Pairs -> Nat]]
    /\ gone \in [Requests -> Nat] /\ fallbacks \in [Requests -> Nat]
    /\ text \in [Requests -> Seq(1..AnswerLength)] /\ sent \in [Requests -> 0..AnswerLength]
    /\ steady \in [Requests -> SUBSET Pairs]

\* A request fails only if each of the pairs that were available when it was
\* routed has failed a call of its own, was vetoed or lost its provider to a
\* reload: neither the stale pick of the traffic distribution, nor retries
\* used up on another pair, nor health checks and reloads on the way make the
\* fallback chain miss a candidate that is still there.
Served == \A r \in Requests : qpc[r] \in {"502", "503"} => steady[r] = {}

Listed(t, c) == {i \in Entries(t) : CandidatesOf[t][i] = c}

\* One request costs a pair at most MaxAttempts calls (a stream one) for each
\* time the configuration lists it, and for one not listed, a stale pick or an
\* A/B variant, as if listed once: the pick that heads the chain is not called
\* again where it is ranked.
CallBudget ==
    \A r \in Requests, c \in Pairs :
        LET times == IF Listed(task[r], c) = {} THEN 1 ELSE Cardinality(Listed(task[r], c))
        IN  calls[r][c] <= times * (IF kind[r] = "chat" THEN MaxAttempts ELSE 1)

\* Every pair that a request gives up is announced by a fallback.triggered
\* event, as the README promises. A stream whose provider a reload has
\* unloaded moves on in silence.
FallbacksAnnounced == \A r \in Requests : fallbacks[r] = gone[r]

\* The chunks a client gets are those of one answer, in order, also when the
\* stream moves to another provider.
SeamlessStream == \A r \in Requests : \A i \in 1..Len(text[r]) : text[r][i] = i

\* Provider calls return, and the router goes on with its requests.
FairRouterSpec == RouterSpec /\ \A r \in Requests : WF_allVars(UNCHANGED vars /\ Serve(r))

\* Every request that arrives gets an answer or an error.
EveryRequestEnds == \A r \in Requests : qpc[r] = "route" ~> qpc[r] \in Ended
=============================================================================
