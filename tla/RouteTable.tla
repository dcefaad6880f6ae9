------------------------------ MODULE RouteTable ------------------------------
(***************************************************************************)
(* internal/router/manager.go, health.go and the start in main.go: how a   *)
(* routing rule gets from Redis to the gateways, and how the probe brings  *)
(* failed keys back in the copy a gateway keeps.                           *)
(*                                                                         *)
(* UpdateRule stores a rule and then publishes it; a gateway reads the     *)
(* rules once, when it starts, and then only listens.  Redis keeps no      *)
(* message for who is not listening.  A rule is its version: the number of *)
(* times the rule of its model has been stored.                            *)
(***************************************************************************)
EXTENDS Integers, Sequences

CONSTANTS
    Gateways,
    Writers,        \* processes that call UpdateRule
    Models,
    Keys,           \* API keys
    Writes,         \* Writes[w]: the models whose rules the writer updates
    InitialStore,   \* InitialStore[m]: the version in Redis, or 0
    FailedIn,       \* FailedIn[m][v]: the keys that are published as failed
    Healthy,        \* keys whose upstream answers every probe
    NoModel,
    MaxVersion,     \* BOUND: versions of a rule
    MaxRetries      \* BOUND: retries of one PUBLISH by the Redis client

Versions == 0 .. MaxVersion

ASSUME RouteTableAssumption ==
    /\ NoModel \notin Models
    /\ Writes \in [Writers -> SUBSET Models]
    /\ MaxVersion \in Nat
    /\ MaxRetries \in Nat
    /\ InitialStore \in [Models -> Versions]
    /\ FailedIn \in [Models -> [Versions -> SUBSET Keys]]

\* A rule is maintained from one place.  The code does not see to it: two
\* writers may store in one order and publish in the other.
ASSUME OneWriterEach ==
    \A w1, w2 \in Writers : w1 # w2 => Writes[w1] \intersect Writes[w2] = {}

VARIABLES
    store,          \* Redis "route:<model>": version, 0 if there is none
    updating,       \* model whose rule the writer has stored and is to publish
    retries,        \* retries of that PUBLISH
    phase,          \* what main is at
    toLoad,         \* keys that LoadRules has listed and not read
    subscribed,     \* gateways that Redis knows as subscribers
    queue,          \* messages on their way to a gateway, or in its channel
    rules,          \* RouteManager.rules: version, 0 if there is none
    failed,         \* keys that are failed in the cached rule object
    todo,           \* models that probeAll has still to visit
    object,         \* model whose cached object it visits; NoModel if replaced
    left,           \* keys of that object it has still to probe
    gap             \* HISTORY: models of which a gateway has missed a version

writers == <<store, updating, retries>>
start == <<phase, toLoad>>
channel == <<subscribed, queue>>
cache == <<rules, failed>>
probe == <<todo, object, left>>
vars == <<writers, start, channel, cache, probe, gap>>

Events == [model : Models, version : Versions]

\* The probe only ever revives keys of the rule as published.
TypeOK ==
    /\ store \in [Models -> Versions]
    /\ updating \in [Writers -> Models \union {NoModel}]
    /\ retries \in [Writers -> 0..MaxRetries]
    /\ phase \in [Gateways -> {"down", "loading", "serving"}]
    /\ toLoad \in [Gateways -> SUBSET Models]
    /\ subscribed \in SUBSET Gateways
    /\ queue \in [Gateways -> Seq(Events)]
    /\ rules \in [Gateways -> [Models -> Versions]]
    /\ failed \in [Gateways -> [Models -> SUBSET Keys]]
    /\ \A g \in Gateways, m \in Models : failed[g][m] \subseteq FailedIn[m][rules[g][m]]
    /\ todo \in [Gateways -> SUBSET Models]
    /\ object \in [Gateways -> Models \union {NoModel}]
    /\ left \in [Gateways -> SUBSET Keys]
    /\ gap \in [Gateways -> SUBSET Models]

Init ==
    /\ store = InitialStore
    /\ updating = [w \in Writers |-> NoModel]
    /\ retries = [w \in Writers |-> 0]
    /\ phase = [g \in Gateways |-> "down"]
    /\ toLoad = [g \in Gateways |-> {}]
    /\ subscribed = {}
    /\ queue = [g \in Gateways |-> <<>>]
    /\ rules = [g \in Gateways |-> [m \in Models |-> 0]]
    /\ failed = [g \in Gateways |-> [m \in Models |-> {}]]
    /\ todo = [g \in Gateways |-> {}]
    /\ object = [g \in Gateways |-> NoModel]
    /\ left = [g \in Gateways |-> {}]
    /\ gap = [g \in Gateways |-> {}]

HasRead(g, m) == phase[g] # "down" /\ m \notin toLoad[g]

\* The gateways that do not have the version, and will not read it.
Behind(m, v) == {g \in Gateways : HasRead(g, m) /\ rules[g][m] # v}

Missed(m, gateways) ==
    gap' = [g \in Gateways |-> IF g \in gateways THEN gap[g] \union {m} ELSE gap[g]]

------------------------------------------------------------------------------
(* UpdateRule *)

\* SET route:<model>.
SetRule(w, m) ==
    /\ updating[w] = NoModel
    /\ m \in Writes[w] /\ store[m] < MaxVersion
    /\ store' = [store EXCEPT ![m] = @ + 1]
    /\ updating' = [updating EXCEPT ![w] = m]
    /\ retries' = [retries EXCEPT ![w] = 0]
    /\ UNCHANGED <<start, channel, cache, probe, gap>>

\* The rule is stored and the reply lost for good: UpdateRule returns the error,
\* and publishes nothing.
SetUnanswered(w, m) ==
    /\ updating[w] = NoModel
    /\ m \in Writes[w] /\ store[m] < MaxVersion
    /\ store' = [store EXCEPT ![m] = @ + 1]
    /\ Missed(m, Behind(m, store'[m]))
    /\ UNCHANGED <<updating, retries, start, channel, cache, probe>>

Published(w) ==
    /\ updating' = [updating EXCEPT ![w] = NoModel]
    /\ retries' = [retries EXCEPT ![w] = 0]

\* Redis hands the event to its subscribers.  It carries the rule, so it makes up
\* for what a subscriber has missed.
Announce(m, v) ==
    /\ queue' = [g \in Gateways |->
                    IF g \in subscribed
                    THEN Append(queue[g], [model |-> m, version |-> v]) ELSE queue[g]]
    /\ gap' = [g \in Gateways |->
                  CASE g \in subscribed -> gap[g] \ {m}
                    [] g \in Behind(m, v) \ subscribed -> gap[g] \union {m}
                    [] OTHER -> gap[g]]

Publish(w) ==
    /\ updating[w] # NoModel
    /\ Announce(updating[w], store[updating[w]])
    /\ Published(w)
    /\ UNCHANGED <<store, start, subscribed, cache, probe>>

\* The reply is lost, and the Redis client publishes again.
PublishUnanswered(w) ==
    /\ updating[w] # NoModel
    /\ retries[w] < MaxRetries
    /\ Announce(updating[w], store[updating[w]])
    /\ retries' = [retries EXCEPT ![w] = @ + 1]
    /\ UNCHANGED <<store, updating, start, subscribed, cache, probe>>

\* The error of PUBLISH is ignored, or the writer has died before it.
PublishFails(w) ==
    /\ updating[w] # NoModel
    /\ Missed(updating[w], Behind(updating[w], store[updating[w]]))
    /\ Published(w)
    /\ UNCHANGED <<store, start, channel, cache, probe>>

------------------------------------------------------------------------------
(* LoadRules and SubscribeUpdates, as main calls them *)

\* Mutant of StoreRule: the status of the keys is carried over to the new object.
StoreRuleMerged(g, m, v) ==
    /\ rules' = [rules EXCEPT ![g][m] = v]
    /\ failed' = [failed EXCEPT ![g][m] = @ \union FailedIn[m][v]]

\* The cached pointer is replaced: the probe may be left with the old object.
StoreRule(g, m, v) ==
    /\ rules' = [rules EXCEPT ![g][m] = v]
    /\ failed' = [failed EXCEPT ![g][m] = FailedIn[m][v]]

\* KEYS route:*.  If it fails, main logs a warning and goes on without rules.
ListKeys(g) ==
    /\ phase[g] = "down"
    /\ phase' = [phase EXCEPT ![g] = "loading"]
    /\ LET stored == {m \in Models : store[m] # 0}
       IN  \/ toLoad' = [toLoad EXCEPT ![g] = stored] /\ UNCHANGED gap
           \/ gap' = [gap EXCEPT ![g] = stored] /\ UNCHANGED toLoad
    /\ UNCHANGED <<writers, channel, cache, probe>>

\* GET of one listed key.
LoadRule(g, m) ==
    /\ m \in toLoad[g]
    /\ toLoad' = [toLoad EXCEPT ![g] = @ \ {m}]
    /\ StoreRule(g, m, store[m])
    /\ UNCHANGED <<writers, phase, channel, probe, gap>>

\* It fails, or the rule does not parse: the others are read.
SkipRule(g, m) ==
    /\ m \in toLoad[g]
    /\ toLoad' = [toLoad EXCEPT ![g] = @ \ {m}]
    /\ gap' = [gap EXCEPT ![g] = @ \union {m}]
    /\ UNCHANGED <<writers, phase, channel, cache, probe>>

\* SubscribeUpdates sends SUBSCRIBE and does not wait for Redis.
Subscribe(g) ==
    /\ phase[g] = "loading" /\ toLoad[g] = {}
    /\ phase' = [phase EXCEPT ![g] = "serving"]
    /\ UNCHANGED <<writers, toLoad, channel, cache, probe, gap>>

\* Redis has it, for the first time or after the client has reconnected.
Confirm(g) ==
    /\ phase[g] = "serving" /\ g \notin subscribed
    /\ subscribed' = subscribed \union {g}
    /\ UNCHANGED <<writers, start, queue, cache, probe, gap>>

\* The connection breaks: what has not come through is lost.
LoseConnection(g) ==
    /\ g \in subscribed
    /\ subscribed' = subscribed \ {g}
    /\ \E n \in 0 .. Len(queue[g]) :
          /\ queue' = [queue EXCEPT ![g] = SubSeq(@, 1, n)]
          /\ gap' = [gap EXCEPT ![g] = @ \union {queue[g][i].model : i \in n + 1 .. Len(queue[g])}]
    /\ UNCHANGED <<writers, start, cache, probe>>

\* The object that the probe is at, if it was the model's.
Forget(g, m) ==
    object' = IF object[g] = m THEN [object EXCEPT ![g] = NoModel] ELSE object

\* Mutant of Receive: only a rule that is cached already is replaced.
ReceiveKnownOnly(g) ==
    /\ queue[g] # <<>>
    /\ LET event == Head(queue[g])
       IN  IF rules[g][event.model] = 0 THEN UNCHANGED <<cache, object>>
           ELSE StoreRule(g, event.model, event.version) /\ Forget(g, event.model)
    /\ queue' = [queue EXCEPT ![g] = Tail(@)]
    /\ UNCHANGED <<writers, start, subscribed, todo, left, gap>>

\* Mutant of Receive: a goroutine for each message.
ReceiveInAnyOrder(g) ==
    \E i \in DOMAIN queue[g] :
        /\ StoreRule(g, queue[g][i].model, queue[g][i].version)
        /\ Forget(g, queue[g][i].model)
        /\ queue' = [queue EXCEPT ![g] = SubSeq(@, 1, i - 1) \o SubSeq(@, i + 1, Len(@))]
        /\ UNCHANGED <<writers, start, subscribed, todo, left, gap>>

\* The loop over subscriber.Channel() caches the rule of the next event.  (It passes
\* over a message that does not parse; UpdateRule publishes none.)
Receive(g) ==
    /\ queue[g] # <<>>
    /\ LET event == Head(queue[g])
       IN  StoreRule(g, event.model, event.version) /\ Forget(g, event.model)
    /\ queue' = [queue EXCEPT ![g] = Tail(@)]
    /\ UNCHANGED <<writers, start, subscribed, todo, left, gap>>

\* The process stops, at any moment.
Stop(g) ==
    /\ phase[g] # "down"
    /\ phase' = [phase EXCEPT ![g] = "down"]
    /\ toLoad' = [toLoad EXCEPT ![g] = {}]
    /\ subscribed' = subscribed \ {g}
    /\ queue' = [queue EXCEPT ![g] = <<>>]
    /\ rules' = [rules EXCEPT ![g] = [m \in Models |-> 0]]
    /\ failed' = [failed EXCEPT ![g] = [m \in Models |-> {}]]
    /\ todo' = [todo EXCEPT ![g] = {}]
    /\ object' = [object EXCEPT ![g] = NoModel]
    /\ left' = [left EXCEPT ![g] = {}]
    /\ gap' = [gap EXCEPT ![g] = {}]
    /\ UNCHANGED writers

------------------------------------------------------------------------------
(* HealthProbe *)

\* The ticker fires, and probeAll begins to range over the cached rules.
ProbeAll(g) ==
    /\ phase[g] = "serving"
    /\ todo[g] = {} /\ left[g] = {}
    /\ todo' = [todo EXCEPT ![g] = {m \in Models : rules[g][m] # 0}]
    /\ todo'[g] # {}
    /\ UNCHANGED <<writers, start, channel, cache, object, left, gap>>

\* It loads the next rule.  Of its keys the failed ones are probed.
VisitRule(g, m) ==
    /\ m \in todo[g] /\ left[g] = {}
    /\ todo' = [todo EXCEPT ![g] = @ \ {m}]
    /\ left' = [left EXCEPT ![g] = failed[g][m]]
    /\ object' = [object EXCEPT ![g] = IF failed[g][m] = {} THEN NoModel ELSE m]
    /\ UNCHANGED <<writers, start, channel, cache, gap>>

\* Mutant of Probed: an upstream that is down ends the round.
ProbedUntilDown(g, k, alive) ==
    /\ left' = [left EXCEPT ![g] = IF alive THEN @ \ {k} ELSE {}]
    /\ failed' = IF alive /\ object[g] # NoModel
                 THEN [failed EXCEPT ![g][object[g]] = @ \ {k}] ELSE failed
    /\ object' = IF left'[g] = {} THEN [object EXCEPT ![g] = NoModel] ELSE object

\* The status is written to the object that was visited, cached or not.
Probed(g, k, alive) ==
    /\ left' = [left EXCEPT ![g] = @ \ {k}]
    /\ failed' = IF alive /\ object[g] # NoModel
                 THEN [failed EXCEPT ![g][object[g]] = @ \ {k}] ELSE failed
    /\ object' = IF left'[g] = {} THEN [object EXCEPT ![g] = NoModel] ELSE object

\* probeKey answers, or its five seconds are over.
ProbeKey(g, k) ==
    /\ k \in left[g]
    /\ \E alive \in BOOLEAN : (k \in Healthy => alive) /\ Probed(g, k, alive)
    /\ UNCHANGED <<writers, start, channel, rules, todo, gap>>

------------------------------------------------------------------------------

WriterStep(w) ==
    \/ \E m \in Models : SetRule(w, m) \/ SetUnanswered(w, m)
    \/ Publish(w) \/ PublishUnanswered(w) \/ PublishFails(w)

\* main, up to the server's start.
StartStep(g) ==
    \/ \E m \in Models : LoadRule(g, m) \/ SkipRule(g, m)
    \/ Subscribe(g)

ProbeStep(g) ==
    \/ ProbeAll(g)
    \/ \E m \in Models : VisitRule(g, m)
    \/ \E k \in Keys : ProbeKey(g, k)

Next ==
    \/ \E w \in Writers : WriterStep(w)
    \/ \E g \in Gateways :
          \/ ListKeys(g) \/ StartStep(g) \/ ProbeStep(g)
          \/ Confirm(g) \/ LoseConnection(g) \/ Receive(g) \/ Stop(g)

\* A start goes on, its calls having timeouts; so do the ticker and the probes.
Fairness == \A g \in Gateways : WF_vars(StartStep(g)) /\ WF_vars(ProbeStep(g))

Spec == Init /\ [][Next]_vars /\ Fairness

------------------------------------------------------------------------------
(* Properties *)

\* A gateway never exchanges a rule for an earlier one while it runs, though it
\* reads and listens one after the other, events are repeated and connections
\* break: an update, once in force, stays in force.
NeverGoesBack ==
    [][\A g \in Gateways : phase'[g] # "down" =>
          \A m \in Models : rules'[g][m] >= rules[g][m]]_vars

Quiet(g, m) ==
    /\ HasRead(g, m)
    /\ \A w \in Writers : updating[w] # m
    /\ \A i \in DOMAIN queue[g] : queue[g][i].model # m

\* A gateway that has missed nothing has the rule that is stored, once no event is
\* on its way: reading before listening loses only events published in between,
\* and any later event makes up for all that was missed.
QuietIsCurrent ==
    \A g \in Gateways, m \in Models :
        Quiet(g, m) /\ m \notin gap[g] => rules[g][m] = store[m]

\* design.md:1855 (property 8): a failed key whose upstream is well is active again,
\* unless the rule is replaced, whatever other keys of the round are down and
\* although the status may be written to an object that is no longer cached.
RecoveredRejoins ==
    \A g \in Gateways, m \in Models, k \in Healthy, v \in Versions :
        LET Down == rules[g][m] = v /\ k \in failed[g][m] IN Down ~> ~Down
==============================================================================
