--------------------------- MODULE RouteTable_proof ---------------------------
(***************************************************************************)
(* What holds of the routing rules of any number of gateways, writers and  *)
(* models.  The key fact is that versions only ever grow along the way of  *)
(* a rule: from what a gateway has cached, over the events on their way to *)
(* it in their order, to what is stored.                                   *)
(***************************************************************************)
EXTENDS RouteTable, TLAPS

\* A gateway that does not serve has no channel, one that is down has nothing.
Phases ==
    \A g \in Gateways :
        /\ phase[g] # "serving" => g \notin subscribed /\ queue[g] = <<>>
        /\ phase[g] # "loading" => toLoad[g] = {}
        /\ phase[g] = "down" => \A m \in Models : rules[g][m] = 0

\* An event brings nothing older than what is cached, nor newer than what is stored.
InBounds ==
    /\ \A g \in Gateways, m \in Models : rules[g][m] <= store[m]
    /\ \A g \in Gateways : \A i \in 1 .. Len(queue[g]) :
          /\ rules[g][queue[g][i].model] <= queue[g][i].version
          /\ queue[g][i].version <= store[queue[g][i].model]

\* The events of one model are on their way in the order of their versions.
InOrder ==
    \A g \in Gateways : \A i, j \in 1 .. Len(queue[g]) :
        i < j /\ queue[g][i].model = queue[g][j].model =>
            queue[g][i].version <= queue[g][j].version

\* The stored version is cached, on its way, about to be published, or missed.
OnItsWay ==
    \A g \in Gateways, m \in Models :
        HasRead(g, m) /\ m \notin gap[g] /\ (\A w \in Writers : updating[w] # m) =>
            \/ rules[g][m] = store[m]
            \/ \E i \in 1 .. Len(queue[g]) :
                  queue[g][i].model = m /\ queue[g][i].version = store[m]

Inv == TypeOK /\ Phases /\ InBounds /\ InOrder /\ OnItsWay

------------------------------------------------------------------------------
(* Types, by groups of variables *)

WriterTypes ==
    /\ store \in [Models -> Versions]
    /\ updating \in [Writers -> Models \union {NoModel}]
    /\ retries \in [Writers -> 0..MaxRetries]

StartTypes ==
    /\ phase \in [Gateways -> {"down", "loading", "serving"}]
    /\ toLoad \in [Gateways -> SUBSET Models]

ChannelTypes ==
    /\ subscribed \in SUBSET Gateways
    /\ queue \in [Gateways -> Seq(Events)]

CacheTypes ==
    /\ rules \in [Gateways -> [Models -> Versions]]
    /\ failed \in [Gateways -> [Models -> SUBSET Keys]]
    /\ \A g \in Gateways, m \in Models : failed[g][m] \subseteq FailedIn[m][rules[g][m]]

ProbeTypes ==
    /\ todo \in [Gateways -> SUBSET Models]
    /\ object \in [Gateways -> Models \union {NoModel}]
    /\ left \in [Gateways -> SUBSET Keys]

GapTypes == gap \in [Gateways -> SUBSET Models]

LEMMA TypesByGroup ==
    TypeOK <=> WriterTypes /\ StartTypes /\ ChannelTypes /\ CacheTypes /\ ProbeTypes /\ GapTypes
  BY DEF TypeOK, WriterTypes, StartTypes, ChannelTypes, CacheTypes, ProbeTypes, GapTypes

LEMMA InitTyped == Init => TypeOK
<1> SUFFICES ASSUME Init PROVE TypeOK
  OBVIOUS
<1> USE RouteTableAssumption DEF Init, Versions
<1>1. WriterTypes
  BY DEF WriterTypes
<1>2. StartTypes /\ ChannelTypes /\ ProbeTypes /\ GapTypes
  BY DEF StartTypes, ChannelTypes, ProbeTypes, GapTypes
<1>3. CacheTypes
  BY DEF CacheTypes
<1> QED
  BY <1>1, <1>2, <1>3, TypesByGroup

LEMMA WriterTypesStep == TypeOK /\ [Next]_vars => WriterTypes'
<1> SUFFICES ASSUME TypeOK, [Next]_vars PROVE WriterTypes'
  OBVIOUS
<1> USE DEF WriterTypes
<1>0. WriterTypes
  BY TypesByGroup
<1>1. ASSUME NEW w \in Writers, WriterStep(w) PROVE WriterTypes'
  <2>0. 0 \in 0..MaxRetries
    BY RouteTableAssumption
  <2>1. ASSUME NEW m \in Models, SetRule(w, m) \/ SetUnanswered(w, m) PROVE WriterTypes'
    <3>1. store[m] \in 0..MaxVersion /\ store[m] < MaxVersion
      BY <1>0, <2>1 DEF SetRule, SetUnanswered, Versions
    <3>2. store[m] + 1 \in Versions
      BY <3>1, RouteTableAssumption DEF Versions
    <3>3. CASE SetRule(w, m)
      BY <1>0, <2>0, <3>2, <3>3 DEF SetRule
    <3>4. CASE SetUnanswered(w, m)
      BY <1>0, <3>2, <3>4 DEF SetUnanswered
    <3> QED
      BY <2>1, <3>3, <3>4
  <2>2. CASE Publish(w) \/ PublishFails(w)
    BY <1>0, <2>0, <2>2 DEF Publish, PublishFails, Published
  <2>3. CASE PublishUnanswered(w)
    <3>1. retries[w] + 1 \in 0..MaxRetries
      BY <1>0, <2>3, RouteTableAssumption DEF PublishUnanswered
    <3> QED
      BY <1>0, <2>3, <3>1 DEF PublishUnanswered
  <2> QED
    BY <1>1, <2>1, <2>2, <2>3 DEF WriterStep
<1>2. CASE UNCHANGED writers
  BY <1>0, <1>2 DEF writers
<1> QED
  BY <1>1, <1>2 DEF Next, vars, StartStep, LoadRule, SkipRule, Subscribe, ProbeStep, ProbeAll,
        VisitRule, ProbeKey, ListKeys, Confirm, LoseConnection, Receive, Stop

LEMMA StartTypesStep == TypeOK /\ [Next]_vars => StartTypes'
<1> SUFFICES ASSUME TypeOK, [Next]_vars PROVE StartTypes'
  OBVIOUS
<1> USE DEF StartTypes
<1>0. StartTypes
  BY TypesByGroup
<1>1. ASSUME NEW g \in Gateways, ListKeys(g) PROVE StartTypes'
  BY <1>0, <1>1 DEF ListKeys
<1>2. ASSUME NEW g \in Gateways, StartStep(g) PROVE StartTypes'
  BY <1>0, <1>2 DEF StartStep, LoadRule, SkipRule, Subscribe
<1>3. ASSUME NEW g \in Gateways, Stop(g) PROVE StartTypes'
  BY <1>0, <1>3 DEF Stop
<1>4. CASE UNCHANGED start
  BY <1>0, <1>4 DEF start
<1> QED
  BY <1>1, <1>2, <1>3, <1>4 DEF Next, vars, WriterStep, SetRule, SetUnanswered, Publish,
        PublishUnanswered, PublishFails, ProbeStep, ProbeAll, VisitRule, ProbeKey, Confirm,
        LoseConnection, Receive

\* What an announcement does to the channels.
LEMMA AnnounceTyped ==
    ASSUME TypeOK, NEW m \in Models, NEW v \in Versions, Announce(m, v)
    PROVE  /\ queue' \in [Gateways -> Seq(Events)]
           /\ gap' \in [Gateways -> SUBSET Models]
<1>1. [model |-> m, version |-> v] \in Events
  BY DEF Events
<1>2. queue \in [Gateways -> Seq(Events)] /\ gap \in [Gateways -> SUBSET Models]
  BY DEF TypeOK
<1>3. ASSUME NEW g \in Gateways
      PROVE Append(queue[g], [model |-> m, version |-> v]) \in Seq(Events)
  <2>1. queue[g] \in Seq(Events)
    BY <1>2
  <2> QED
    BY <1>1, <2>1
<1>4. queue' \in [Gateways -> Seq(Events)]
  BY <1>2, <1>3 DEF Announce
<1>5. gap' \in [Gateways -> SUBSET Models]
  BY <1>2 DEF Announce
<1> QED
  BY <1>4, <1>5

LEMMA PublishedTyped ==
    ASSUME TypeOK, NEW w \in Writers, updating[w] # NoModel
    PROVE  updating[w] \in Models /\ store[updating[w]] \in Versions
  BY DEF TypeOK

LEMMA ChannelTypesStep == TypeOK /\ [Next]_vars => ChannelTypes'
<1> SUFFICES ASSUME TypeOK, [Next]_vars PROVE ChannelTypes'
  OBVIOUS
<1> USE DEF ChannelTypes
<1>0. ChannelTypes
  BY TypesByGroup
<1>1. ASSUME NEW w \in Writers, Publish(w) \/ PublishUnanswered(w) PROVE ChannelTypes'
  BY <1>0, <1>1, AnnounceTyped, PublishedTyped DEF Publish, PublishUnanswered
<1>2. ASSUME NEW g \in Gateways, Confirm(g) PROVE ChannelTypes'
  BY <1>0, <1>2 DEF Confirm
<1>3. ASSUME NEW g \in Gateways, LoseConnection(g) PROVE ChannelTypes'
  <2>1. PICK n \in 0 .. Len(queue[g]) : queue' = [queue EXCEPT ![g] = SubSeq(@, 1, n)]
    BY <1>3 DEF LoseConnection
  <2>2. queue[g] \in Seq(Events)
    BY <1>0
  <2>3. SubSeq(queue[g], 1, n) \in Seq(Events)
    BY <2>2
  <2> QED
    BY <1>0, <1>3, <2>1, <2>3 DEF LoseConnection
<1>4. ASSUME NEW g \in Gateways, Receive(g) PROVE ChannelTypes'
  <2>1. queue[g] \in Seq(Events) /\ queue[g] # <<>>
    BY <1>0, <1>4 DEF Receive
  <2>2. Tail(queue[g]) \in Seq(Events)
    BY <2>1
  <2> QED
    BY <1>0, <1>4, <2>2 DEF Receive
<1>5. ASSUME NEW g \in Gateways, Stop(g) PROVE ChannelTypes'
  BY <1>0, <1>5 DEF Stop
<1>6. CASE UNCHANGED channel
  BY <1>0, <1>6 DEF channel
<1> QED
  BY <1>1, <1>2, <1>3, <1>4, <1>5, <1>6 DEF Next, vars, channel, WriterStep, SetRule, SetUnanswered,
        PublishFails, StartStep, LoadRule, SkipRule, Subscribe, ListKeys, ProbeStep, ProbeAll,
        VisitRule, ProbeKey

\* Storing a rule keeps the cache typed.
LEMMA StoreRuleTyped ==
    ASSUME TypeOK, NEW g \in Gateways, NEW m \in Models, NEW v \in Versions, StoreRule(g, m, v)
    PROVE  CacheTypes'
<1>1. FailedIn[m][v] \in SUBSET Keys
  BY RouteTableAssumption
<1>2. CacheTypes
  BY TypesByGroup
<1> QED
  BY <1>1, <1>2 DEF StoreRule, CacheTypes

LEMMA CacheTypesStep == TypeOK /\ [Next]_vars => CacheTypes'
<1> SUFFICES ASSUME TypeOK, [Next]_vars PROVE CacheTypes'
  OBVIOUS
<1>0. CacheTypes
  BY TypesByGroup
<1>1. ASSUME NEW g \in Gateways, NEW m \in Models, LoadRule(g, m) PROVE CacheTypes'
  <2>1. store[m] \in Versions
    BY DEF TypeOK
  <2> QED
    BY <1>1, <2>1, StoreRuleTyped DEF LoadRule
<1>2. ASSUME NEW g \in Gateways, Receive(g) PROVE CacheTypes'
  <2>1. queue[g] \in Seq(Events) /\ queue[g] # <<>>
    BY <1>2 DEF Receive, TypeOK
  <2>2. Head(queue[g]) \in Events
    BY <2>1
  <2>3. Head(queue[g]).model \in Models /\ Head(queue[g]).version \in Versions
    BY <2>2 DEF Events
  <2> QED
    BY <1>2, <2>3, StoreRuleTyped DEF Receive
<1>3. ASSUME NEW g \in Gateways, Stop(g) PROVE CacheTypes'
  <2>1. 0 \in Versions
    BY RouteTableAssumption DEF Versions
  <2> QED
    BY <1>0, <1>3, <2>1 DEF Stop, CacheTypes
<1>4. ASSUME NEW g \in Gateways, NEW k \in Keys, ProbeKey(g, k) PROVE CacheTypes'
  <2>1. PICK alive \in BOOLEAN : Probed(g, k, alive)
    BY <1>4 DEF ProbeKey
  <2>2. rules' = rules
    BY <1>4 DEF ProbeKey
  <2>3. CASE failed' = failed
    BY <1>0, <2>2, <2>3 DEF CacheTypes
  <2>4. CASE object[g] # NoModel /\ failed' = [failed EXCEPT ![g][object[g]] = @ \ {k}]
    <3>1. object[g] \in Models
      BY <2>4 DEF TypeOK
    <3> QED
      BY <1>0, <2>2, <2>4, <3>1 DEF CacheTypes
  <2> QED
    BY <2>1, <2>3, <2>4 DEF Probed
<1>5. CASE UNCHANGED cache
  BY <1>0, <1>5 DEF cache, CacheTypes
<1> QED
  BY <1>1, <1>2, <1>3, <1>4, <1>5 DEF Next, vars, cache, WriterStep, SetRule, SetUnanswered, Publish,
        PublishUnanswered, PublishFails, StartStep, SkipRule, Subscribe, ListKeys, ProbeStep,
        ProbeAll, VisitRule, Confirm, LoseConnection

LEMMA ProbeTypesStep == TypeOK /\ [Next]_vars => ProbeTypes'
<1> SUFFICES ASSUME TypeOK, [Next]_vars PROVE ProbeTypes'
  OBVIOUS
<1> USE DEF ProbeTypes
<1>0. ProbeTypes /\ failed \in [Gateways -> [Models -> SUBSET Keys]]
  BY DEF TypeOK
<1>1. ASSUME NEW g \in Gateways, ProbeAll(g) PROVE ProbeTypes'
  BY <1>0, <1>1 DEF ProbeAll
<1>2. ASSUME NEW g \in Gateways, NEW m \in Models, VisitRule(g, m) PROVE ProbeTypes'
  BY <1>0, <1>2 DEF VisitRule
<1>3. ASSUME NEW g \in Gateways, NEW k \in Keys, ProbeKey(g, k) PROVE ProbeTypes'
  BY <1>0, <1>3 DEF ProbeKey, Probed
<1>4. ASSUME NEW g \in Gateways, Receive(g) PROVE ProbeTypes'
  <2>1. UNCHANGED <<todo, left>>
    BY <1>4 DEF Receive
  <2>2. object' = object \/ object' = [object EXCEPT ![g] = NoModel]
    BY <1>4 DEF Receive, Forget
  <2> QED
    BY <1>0, <2>1, <2>2
<1>5. ASSUME NEW g \in Gateways, Stop(g) PROVE ProbeTypes'
  BY <1>0, <1>5 DEF Stop
<1>6. CASE UNCHANGED probe
  BY <1>0, <1>6 DEF probe
<1> QED
  BY <1>1, <1>2, <1>3, <1>4, <1>5, <1>6 DEF Next, vars, WriterStep, SetRule, SetUnanswered, Publish,
        PublishUnanswered, PublishFails, StartStep, LoadRule, SkipRule, Subscribe, ListKeys,
        ProbeStep, Confirm, LoseConnection

LEMMA GapTypesStep == TypeOK /\ [Next]_vars => GapTypes'
<1> SUFFICES ASSUME TypeOK, [Next]_vars PROVE GapTypes'
  OBVIOUS
<1> USE DEF GapTypes
<1>0. gap \in [Gateways -> SUBSET Models] /\ updating \in [Writers -> Models \union {NoModel}]
  BY DEF TypeOK
<1>1. ASSUME NEW w \in Writers, Publish(w) \/ PublishUnanswered(w) PROVE GapTypes'
  BY <1>1, AnnounceTyped, PublishedTyped DEF Publish, PublishUnanswered
<1>2. ASSUME NEW w \in Writers, NEW m \in Models, SetUnanswered(w, m) PROVE GapTypes'
  BY <1>0, <1>2 DEF SetUnanswered, Missed
<1>3. ASSUME NEW w \in Writers, PublishFails(w) PROVE GapTypes'
  BY <1>0, <1>3 DEF PublishFails, Missed
<1>4. ASSUME NEW g \in Gateways, ListKeys(g) PROVE GapTypes'
  BY <1>0, <1>4 DEF ListKeys
<1>5. ASSUME NEW g \in Gateways, NEW m \in Models, SkipRule(g, m) PROVE GapTypes'
  BY <1>0, <1>5 DEF SkipRule
<1>6. ASSUME NEW g \in Gateways, LoseConnection(g) PROVE GapTypes'
  <2>1. PICK n \in 0 .. Len(queue[g]) :
          gap' = [gap EXCEPT ![g] = @ \union {queue[g][i].model : i \in n + 1 .. Len(queue[g])}]
    BY <1>6 DEF LoseConnection
  <2>2. queue[g] \in Seq(Events)
    BY DEF TypeOK
  <2>3. ASSUME NEW i \in n + 1 .. Len(queue[g]) PROVE queue[g][i].model \in Models
    <3>1. queue[g][i] \in Events
      BY <2>2
    <3> QED
      BY <3>1 DEF Events
  <2> QED
    BY <1>0, <2>1, <2>3
<1>7. ASSUME NEW g \in Gateways, Stop(g) PROVE GapTypes'
  BY <1>0, <1>7 DEF Stop
<1>8. CASE UNCHANGED gap
  BY <1>0, <1>8
<1> QED
  BY <1>1, <1>2, <1>3, <1>4, <1>5, <1>6, <1>7, <1>8 DEF Next, vars, WriterStep, SetRule, StartStep,
        LoadRule, Subscribe, ProbeStep, ProbeAll, VisitRule, ProbeKey, Confirm, Receive

LEMMA TypeStep == TypeOK /\ [Next]_vars => TypeOK'
<1> SUFFICES ASSUME TypeOK, [Next]_vars PROVE TypeOK'
  OBVIOUS
<1>1. /\ WriterTypes' /\ StartTypes' /\ ChannelTypes' /\ CacheTypes' /\ ProbeTypes' /\ GapTypes'
  BY WriterTypesStep, StartTypesStep, ChannelTypesStep, CacheTypesStep, ProbeTypesStep, GapTypesStep
<1> QED
  BY <1>1 DEF TypeOK, WriterTypes, StartTypes, ChannelTypes, CacheTypes, ProbeTypes, GapTypes

------------------------------------------------------------------------------
(* What the steps do to a queue *)

LEMMA QueueTyped ==
    ASSUME TypeOK, NEW g \in Gateways
    PROVE  /\ queue[g] \in Seq(Events) /\ Len(queue[g]) \in Nat
           /\ \A i \in 1 .. Len(queue[g]) :
                 queue[g][i].model \in Models /\ queue[g][i].version \in Nat
<1>1. queue[g] \in Seq(Events)
  BY DEF TypeOK
<1>2. ASSUME NEW i \in 1 .. Len(queue[g])
      PROVE queue[g][i].model \in Models /\ queue[g][i].version \in Nat
  <2>1. queue[g][i] \in Events
    BY <1>1
  <2> QED
    BY <2>1, RouteTableAssumption DEF Events, Versions
<1> QED
  BY <1>1, <1>2

LEMMA RulesTyped ==
    ASSUME TypeOK, NEW m \in Models
    PROVE  store[m] \in Nat /\ \A g \in Gateways : rules[g][m] \in Nat
<1>1. store[m] \in Versions /\ \A g \in Gateways : rules[g][m] \in Versions
  BY DEF TypeOK
<1> QED
  BY <1>1, RouteTableAssumption DEF Versions

\* Publishing appends the stored version to the queues of the subscribers.
Announced(m) ==
    \A g \in Gateways :
        IF g \in subscribed
        THEN /\ Len(queue'[g]) = Len(queue[g]) + 1
             /\ \A i \in 1 .. Len(queue[g]) : queue'[g][i] = queue[g][i]
             /\ queue'[g][Len(queue[g]) + 1].model = m
             /\ queue'[g][Len(queue[g]) + 1].version = store[m]
        ELSE queue'[g] = queue[g]

LEMMA PublishAnnounces ==
    ASSUME TypeOK, NEW w \in Writers, Publish(w) \/ PublishUnanswered(w)
    PROVE  updating[w] \in Models /\ Announced(updating[w])
<1>1. updating[w] \in Models /\ Announce(updating[w], store[updating[w]])
  BY PublishedTyped DEF Publish, PublishUnanswered
<1> DEFINE e == [model |-> updating[w], version |-> store[updating[w]]]
<1>2. e.model = updating[w] /\ e.version = store[updating[w]]
  OBVIOUS
<1> HIDE DEF e
<1>3. ASSUME NEW g \in Gateways, g \in subscribed
      PROVE /\ Len(queue'[g]) = Len(queue[g]) + 1
            /\ \A i \in 1 .. Len(queue[g]) : queue'[g][i] = queue[g][i]
            /\ queue'[g][Len(queue[g]) + 1] = e
  <2>1. queue'[g] = Append(queue[g], e)
    BY <1>1, <1>3 DEF Announce, e
  <2>2. queue[g] \in Seq(Events)
    BY QueueTyped
  <2> QED
    BY <2>1, <2>2
<1>4. ASSUME NEW g \in Gateways, g \notin subscribed PROVE queue'[g] = queue[g]
  BY <1>1, <1>4 DEF Announce
<1> QED
  BY <1>1, <1>2, <1>3, <1>4 DEF Announced

LEMMA LosingKeepsAPrefix ==
    ASSUME TypeOK, NEW g \in Gateways, LoseConnection(g)
    PROVE  \E n \in 0 .. Len(queue[g]) :
             /\ Len(queue'[g]) = n
             /\ \A i \in 1 .. n : queue'[g][i] = queue[g][i]
             /\ \A i \in n + 1 .. Len(queue[g]) : queue[g][i].model \in gap'[g]
             /\ gap[g] \subseteq gap'[g]
             /\ \A h \in Gateways \ {g} : queue'[h] = queue[h] /\ gap'[h] = gap[h]
<1>1. PICK n \in 0 .. Len(queue[g]) :
        /\ queue' = [queue EXCEPT ![g] = SubSeq(@, 1, n)]
        /\ gap' = [gap EXCEPT ![g] = @ \union {queue[g][i].model : i \in n + 1 .. Len(queue[g])}]
  BY DEF LoseConnection
<1>2. queue[g] \in Seq(Events) /\ Len(queue[g]) \in Nat
  BY QueueTyped
<1>3. queue'[g] = SubSeq(queue[g], 1, n)
  BY <1>1 DEF TypeOK
<1>4. gap'[g] = gap[g] \union {queue[g][i].model : i \in n + 1 .. Len(queue[g])}
  BY <1>1 DEF TypeOK
<1>5. Len(queue'[g]) = n /\ \A i \in 1 .. n : queue'[g][i] = queue[g][i]
  BY <1>2, <1>3
<1>6. \A h \in Gateways \ {g} : queue'[h] = queue[h] /\ gap'[h] = gap[h]
  BY <1>1 DEF TypeOK
<1> QED
  BY <1>4, <1>5, <1>6

LEMMA ReceivingTakesTheFirst ==
    ASSUME TypeOK, NEW g \in Gateways, Receive(g)
    PROVE  /\ 1 \in 1 .. Len(queue[g])
           /\ Len(queue'[g]) = Len(queue[g]) - 1
           /\ \A i \in 1 .. Len(queue'[g]) : queue'[g][i] = queue[g][i + 1]
           /\ \A m \in Models : rules'[g][m] =
                 IF m = queue[g][1].model THEN queue[g][1].version ELSE rules[g][m]
           /\ \A h \in Gateways \ {g} : queue'[h] = queue[h] /\ rules'[h] = rules[h]
<1>1. queue[g] \in Seq(Events) /\ queue[g] # <<>>
  BY QueueTyped DEF Receive
<1>2. queue'[g] = Tail(queue[g])
  BY DEF Receive, TypeOK
<1>3. /\ 1 \in 1 .. Len(queue[g])
      /\ Len(queue'[g]) = Len(queue[g]) - 1
      /\ \A i \in 1 .. Len(queue'[g]) : queue'[g][i] = queue[g][i + 1]
      /\ Head(queue[g]) = queue[g][1]
  BY <1>1, <1>2
<1>4. rules' = [rules EXCEPT ![g][queue[g][1].model] = queue[g][1].version]
  BY <1>3 DEF Receive, StoreRule
<1>5. queue[g][1].model \in Models
  BY <1>3, QueueTyped
<1>6. \A m \in Models : rules'[g][m] =
        IF m = queue[g][1].model THEN queue[g][1].version ELSE rules[g][m]
  BY <1>4, <1>5 DEF TypeOK
<1>7. \A h \in Gateways \ {g} : queue'[h] = queue[h] /\ rules'[h] = rules[h]
  BY <1>4 DEF Receive, TypeOK
<1> QED
  BY <1>3, <1>6, <1>7

------------------------------------------------------------------------------
(* Phases *)

LEMMA PhasesStep == TypeOK /\ Phases /\ [Next]_vars => Phases'
<1> SUFFICES ASSUME TypeOK, Phases, [Next]_vars PROVE Phases'
  OBVIOUS
<1>1. ASSUME NEW w \in Writers, WriterStep(w) PROVE Phases'
  <2>1. UNCHANGED <<phase, toLoad, subscribed, rules>>
    BY <1>1 DEF WriterStep, SetRule, SetUnanswered, Publish, PublishUnanswered, PublishFails, start,
          channel, cache
  <2>2. ASSUME NEW g \in Gateways, g \notin subscribed PROVE queue'[g] = queue[g]
    <3>1. CASE Publish(w) \/ PublishUnanswered(w)
      BY <2>2, <3>1, PublishAnnounces DEF Announced
    <3>2. CASE UNCHANGED queue
      BY <3>2
    <3> QED
      BY <1>1, <3>1, <3>2 DEF WriterStep, SetRule, SetUnanswered, PublishFails, channel
  <2> QED
    BY <2>1, <2>2 DEF Phases
<1>2. ASSUME NEW g \in Gateways, ListKeys(g) PROVE Phases'
  BY <1>2 DEF ListKeys, Phases, TypeOK, channel, cache
<1>3. ASSUME NEW g \in Gateways, StartStep(g) PROVE Phases'
  <2>1. ASSUME NEW m \in Models, LoadRule(g, m) PROVE Phases'
    BY <2>1 DEF LoadRule, StoreRule, Phases, TypeOK, channel
  <2>2. ASSUME NEW m \in Models, SkipRule(g, m) PROVE Phases'
    BY <2>2 DEF SkipRule, Phases, TypeOK, channel, cache
  <2>3. CASE Subscribe(g)
    BY <2>3 DEF Subscribe, Phases, TypeOK, channel, cache
  <2> QED
    BY <1>3, <2>1, <2>2, <2>3 DEF StartStep
<1>4. ASSUME NEW g \in Gateways, Confirm(g) PROVE Phases'
  BY <1>4 DEF Confirm, Phases, TypeOK, start, cache
<1>5. ASSUME NEW g \in Gateways, LoseConnection(g) PROVE Phases'
  <2>1. phase[g] = "serving" /\ UNCHANGED <<phase, toLoad, rules>>
    BY <1>5 DEF LoseConnection, Phases, start, cache
  <2>2. subscribed' \subseteq subscribed
    BY <1>5 DEF LoseConnection
  <2>3. \A h \in Gateways \ {g} : queue'[h] = queue[h]
    BY <1>5, LosingKeepsAPrefix
  <2> QED
    BY <2>1, <2>2, <2>3 DEF Phases
<1>6. ASSUME NEW g \in Gateways, Receive(g) PROVE Phases'
  <2>1. phase[g] = "serving" /\ UNCHANGED <<phase, toLoad, subscribed>>
    BY <1>6 DEF Receive, Phases, start, TypeOK
  <2>2. \A h \in Gateways \ {g} : queue'[h] = queue[h] /\ rules'[h] = rules[h]
    BY <1>6, ReceivingTakesTheFirst
  <2> QED
    BY <2>1, <2>2 DEF Phases
<1>7. ASSUME NEW g \in Gateways, Stop(g) PROVE Phases'
  BY <1>7 DEF Stop, Phases, TypeOK
<1>8. CASE UNCHANGED <<phase, toLoad, subscribed, queue, rules>>
  BY <1>8 DEF Phases
<1> QED
  BY <1>1, <1>2, <1>3, <1>4, <1>5, <1>6, <1>7, <1>8 DEF Next, vars, start, channel, cache, ProbeStep,
        ProbeAll, VisitRule, ProbeKey

------------------------------------------------------------------------------
(* Versions on their way *)

\* Announcing what is stored keeps the events within bounds and in order.
LEMMA AnnouncedOrdered ==
    ASSUME TypeOK, InBounds, InOrder, NEW m \in Models, Announced(m), UNCHANGED <<rules, store>>
    PROVE  InBounds' /\ InOrder'
<1>1. ASSUME NEW g \in Gateways, NEW i \in 1 .. Len(queue'[g])
      PROVE \/ i \in 1 .. Len(queue[g]) /\ queue'[g][i] = queue[g][i]
            \/ /\ i = Len(queue[g]) + 1
               /\ queue'[g][i].model = m /\ queue'[g][i].version = store[m]
  <2>1. Len(queue[g]) \in Nat
    BY QueueTyped
  <2> QED
    BY <2>1 DEF Announced
<1>2. ASSUME NEW g \in Gateways, NEW i \in 1 .. Len(queue'[g])
      PROVE /\ rules[g][queue'[g][i].model] <= queue'[g][i].version
            /\ queue'[g][i].version <= store[queue'[g][i].model]
  BY <1>1, RulesTyped DEF InBounds
<1>3. InBounds'
  BY <1>2 DEF InBounds
<1>4. ASSUME NEW g \in Gateways, NEW i \in 1 .. Len(queue'[g]), NEW j \in 1 .. Len(queue'[g]),
             i < j, queue'[g][i].model = queue'[g][j].model
      PROVE queue'[g][i].version <= queue'[g][j].version
  <2>1. i \in 1 .. Len(queue[g]) /\ queue'[g][i] = queue[g][i]
    <3>1. Len(queue[g]) \in Nat
      BY QueueTyped
    <3>2. Len(queue'[g]) <= Len(queue[g]) + 1
      BY <3>1 DEF Announced
    <3> QED
      BY <1>1, <1>4, <3>1, <3>2
  <2>2. CASE j \in 1 .. Len(queue[g]) /\ queue'[g][j] = queue[g][j]
    BY <1>4, <2>1, <2>2 DEF InOrder
  <2>3. CASE queue'[g][j].model = m /\ queue'[g][j].version = store[m]
    BY <1>4, <2>1, <2>3 DEF InBounds
  <2> QED
    BY <1>1, <2>2, <2>3
<1>5. InOrder'
  BY <1>4 DEF InOrder
<1> QED
  BY <1>3, <1>5

LEMMA OrderStep == TypeOK /\ Phases /\ InBounds /\ InOrder /\ [Next]_vars => InBounds' /\ InOrder'
<1> SUFFICES ASSUME TypeOK, Phases, InBounds, InOrder, [Next]_vars PROVE InBounds' /\ InOrder'
  OBVIOUS
<1>1. ASSUME NEW w \in Writers, NEW m \in Models, SetRule(w, m) \/ SetUnanswered(w, m)
      PROVE InBounds' /\ InOrder'
  <2>1. UNCHANGED <<rules, queue>>
    BY <1>1 DEF SetRule, SetUnanswered, channel, cache
  <2>2. InOrder'
    BY <2>1 DEF InOrder
  <2>3. \A n \in Models : store[n] \in Nat /\ store'[n] \in Nat /\ store'[n] >= store[n]
    <3>1. store' = [store EXCEPT ![m] = @ + 1]
      BY <1>1 DEF SetRule, SetUnanswered
    <3>2. \A n \in Models : store'[n] = IF n = m THEN store[n] + 1 ELSE store[n]
      BY <3>1 DEF TypeOK
    <3> QED
      BY <3>2, RulesTyped
  <2>4. \A g \in Gateways, n \in Models : rules[g][n] <= store'[n]
    BY <2>3, RulesTyped DEF InBounds
  <2>5. ASSUME NEW g \in Gateways, NEW i \in 1 .. Len(queue[g])
        PROVE queue[g][i].version <= store'[queue[g][i].model]
    BY <2>3, QueueTyped DEF InBounds
  <2>6. InBounds'
    BY <2>1, <2>4, <2>5 DEF InBounds
  <2> QED
    BY <2>2, <2>6
<1>2. ASSUME NEW w \in Writers, Publish(w) \/ PublishUnanswered(w) PROVE InBounds' /\ InOrder'
  <2>1. UNCHANGED <<rules, store>>
    BY <1>2 DEF Publish, PublishUnanswered, cache
  <2> QED
    BY <1>2, <2>1, PublishAnnounces, AnnouncedOrdered
<1>3. ASSUME NEW g \in Gateways, NEW m \in Models, LoadRule(g, m) PROVE InBounds' /\ InOrder'
  <2>1. queue[g] = <<>> /\ UNCHANGED <<store, queue>>
    BY <1>3 DEF LoadRule, Phases, writers, channel
  <2>2. \A h \in Gateways, n \in Models :
          rules'[h][n] = IF h = g /\ n = m THEN store[m] ELSE rules[h][n]
    BY <1>3 DEF LoadRule, StoreRule, TypeOK
  <2>3. InOrder'
    BY <2>1 DEF InOrder
  <2>4. \A h \in Gateways, n \in Models : rules'[h][n] <= store[n]
    BY <2>2, RulesTyped DEF InBounds
  <2>5. ASSUME NEW h \in Gateways, NEW i \in 1 .. Len(queue[h])
        PROVE rules'[h][queue[h][i].model] <= queue[h][i].version
    <3>1. h # g
      BY <2>1
    <3>2. queue[h][i].model \in Models
      BY QueueTyped
    <3> QED
      BY <2>2, <3>1, <3>2 DEF InBounds
  <2>6. InBounds'
    BY <2>1, <2>4, <2>5 DEF InBounds
  <2> QED
    BY <2>3, <2>6
<1>4. ASSUME NEW g \in Gateways, LoseConnection(g) PROVE InBounds' /\ InOrder'
  <2>1. UNCHANGED <<rules, store>>
    BY <1>4 DEF LoseConnection, writers, cache
  <2>2. ASSUME NEW h \in Gateways, NEW i \in 1 .. Len(queue'[h])
        PROVE i \in 1 .. Len(queue[h]) /\ queue'[h][i] = queue[h][i]
    BY <1>4, LosingKeepsAPrefix, QueueTyped
  <2>3. InBounds'
    BY <2>1, <2>2 DEF InBounds
  <2>4. InOrder'
    BY <2>2 DEF InOrder
  <2> QED
    BY <2>3, <2>4
<1>5. ASSUME NEW g \in Gateways, Receive(g) PROVE InBounds' /\ InOrder'
  <2>1. UNCHANGED store
    BY <1>5 DEF Receive, writers
  <2> DEFINE first == queue[g][1]
  <2>2. /\ 1 \in 1 .. Len(queue[g]) /\ first.model \in Models /\ first.version \in Nat
        /\ Len(queue'[g]) = Len(queue[g]) - 1
        /\ \A m \in Models : rules'[g][m] =
              IF m = first.model THEN first.version ELSE rules[g][m]
        /\ \A h \in Gateways \ {g} : queue'[h] = queue[h] /\ rules'[h] = rules[h]
    BY <1>5, ReceivingTakesTheFirst, QueueTyped
  <2>3. ASSUME NEW i \in 1 .. Len(queue'[g])
        PROVE /\ i + 1 \in 1 .. Len(queue[g]) /\ 1 < i + 1
              /\ queue'[g][i] = queue[g][i + 1]
    BY <1>5, <2>2, ReceivingTakesTheFirst, QueueTyped
  <2>4. ASSUME NEW m \in Models PROVE rules'[g][m] <= store[m]
    <3>1. rules[g][m] <= store[m] /\ first.version <= store[first.model]
      BY <2>2 DEF InBounds
    <3> QED
      BY <2>2, <3>1
  <2>5. ASSUME NEW i \in 1 .. Len(queue'[g])
        PROVE /\ rules'[g][queue'[g][i].model] <= queue'[g][i].version
              /\ queue'[g][i].version <= store[queue'[g][i].model]
    <3>1. queue'[g][i] = queue[g][i + 1] /\ queue[g][i + 1].model \in Models
      BY <2>3, QueueTyped
    <3>2. CASE queue[g][i + 1].model = first.model
      BY <2>2, <2>3, <3>1, <3>2 DEF InOrder, InBounds
    <3>3. CASE queue[g][i + 1].model # first.model
      <4>1. rules'[g][queue[g][i + 1].model] = rules[g][queue[g][i + 1].model]
        BY <2>2, <3>1, <3>3
      <4>2. /\ rules[g][queue[g][i + 1].model] <= queue[g][i + 1].version
            /\ queue[g][i + 1].version <= store[queue[g][i + 1].model]
        BY <2>3 DEF InBounds
      <4> QED
        BY <3>1, <4>1, <4>2
    <3> QED
      BY <3>2, <3>3
  <2> HIDE DEF first
  <2>6. InBounds'
    BY <2>1, <2>2, <2>4, <2>5 DEF InBounds
  <2>7. ASSUME NEW i \in 1 .. Len(queue'[g]), NEW j \in 1 .. Len(queue'[g]), i < j,
               queue'[g][i].model = queue'[g][j].model
        PROVE queue'[g][i].version <= queue'[g][j].version
    <3>1. i + 1 < j + 1
      BY <2>7
    <3> QED
      BY <2>3, <2>7, <3>1 DEF InOrder
  <2>8. ASSUME NEW h \in Gateways, NEW i \in 1 .. Len(queue'[h]), NEW j \in 1 .. Len(queue'[h]),
               i < j, queue'[h][i].model = queue'[h][j].model
        PROVE queue'[h][i].version <= queue'[h][j].version
    <3>1. CASE h = g
      BY <2>7, <2>8, <3>1
    <3>2. CASE h # g
      <4>1. queue'[h] = queue[h]
        BY <2>2, <3>2
      <4> QED
        BY <2>8, <4>1 DEF InOrder
    <3> QED
      BY <3>1, <3>2
  <2>9. InOrder'
    BY <2>8 DEF InOrder
  <2> QED
    BY <2>6, <2>9
<1>6. ASSUME NEW g \in Gateways, Stop(g) PROVE InBounds' /\ InOrder'
  <2>1. /\ UNCHANGED store
        /\ queue' = [queue EXCEPT ![g] = <<>>]
        /\ rules' = [rules EXCEPT ![g] = [m \in Models |-> 0]]
    BY <1>6 DEF Stop, writers
  <2>2. queue'[g] = <<>> /\ \A h \in Gateways \ {g} : queue'[h] = queue[h] /\ rules'[h] = rules[h]
    BY <2>1 DEF TypeOK
  <2>3. \A m \in Models : rules'[g][m] = 0
    BY <2>1 DEF TypeOK
  <2>4. InBounds'
    BY <2>1, <2>2, <2>3, RulesTyped DEF InBounds
  <2>5. InOrder'
    BY <2>2 DEF InOrder
  <2> QED
    BY <2>4, <2>5
<1>7. CASE UNCHANGED <<store, queue, rules>>
  BY <1>7 DEF InBounds, InOrder
<1> QED
  BY <1>1, <1>2, <1>3, <1>4, <1>5, <1>6, <1>7 DEF Next, vars, writers, channel, cache, WriterStep,
        PublishFails, Published, StartStep, SkipRule, Subscribe, ListKeys, Confirm, ProbeStep,
        ProbeAll, VisitRule, ProbeKey

LEMMA OnItsWayStep ==
    TypeOK /\ Phases /\ InBounds /\ OnItsWay /\ [Next]_vars => OnItsWay'
<1> SUFFICES ASSUME TypeOK, Phases, InBounds, OnItsWay, [Next]_vars,
                    NEW g \in Gateways, NEW m \in Models,
                    HasRead(g, m)', m \notin gap'[g], \A w \in Writers : updating'[w] # m
             PROVE  \/ rules'[g][m] = store'[m]
                    \/ \E i \in 1 .. Len(queue'[g]) :
                          queue'[g][i].model = m /\ queue'[g][i].version = store'[m]
  BY DEF OnItsWay
<1> DEFINE Goal == \/ rules'[g][m] = store'[m]
                   \/ \E i \in 1 .. Len(queue'[g]) :
                         queue'[g][i].model = m /\ queue'[g][i].version = store'[m]
<1>0. phase'[g] # "down" /\ m \notin toLoad'[g]
  BY DEF HasRead
\* What has to be there before the step, if nothing that matters has changed.
<1>a. ASSUME HasRead(g, m), m \notin gap[g], \A w \in Writers : updating[w] # m
      PROVE  \/ rules[g][m] = store[m]
             \/ \E i \in 1 .. Len(queue[g]) :
                   queue[g][i].model = m /\ queue[g][i].version = store[m]
  BY <1>a DEF OnItsWay
<1>b. CASE /\ UNCHANGED <<rules, store, queue, updating>>
           /\ HasRead(g, m) /\ m \notin gap[g]
  BY <1>a, <1>b
<1>1. ASSUME NEW w \in Writers, NEW n \in Models, SetRule(w, n) PROVE Goal
  <2>1. n # m
    BY <1>1 DEF SetRule, TypeOK
  <2>2. store'[m] = store[m] /\ UNCHANGED <<rules, queue, gap, phase, toLoad>>
    BY <1>1, <2>1 DEF SetRule, TypeOK, cache, channel, start
  <2>3. \A v \in Writers : updating[v] # m
    BY <1>1, RouteTableAssumption DEF SetRule, TypeOK
  <2> QED
    BY <1>0, <1>a, <2>2, <2>3 DEF HasRead
<1>2. ASSUME NEW w \in Writers, NEW n \in Models, SetUnanswered(w, n) PROVE Goal
  <2>1. UNCHANGED <<rules, queue, phase, toLoad, updating>>
    BY <1>2 DEF SetUnanswered, cache, channel, start
  <2>2. HasRead(g, m)
    BY <1>0, <2>1 DEF HasRead
  <2>3. CASE n = m
    <3>1. store'[m] = store[m] + 1
      BY <1>2, <2>3 DEF SetUnanswered, TypeOK
    <3>2. rules[g][m] # store'[m]
      BY <3>1, RulesTyped DEF InBounds
    <3>3. m \in gap'[g]
      BY <1>2, <2>2, <2>3, <3>2 DEF SetUnanswered, Missed, Behind, TypeOK
    <3> QED
      BY <3>3
  <2>4. CASE n # m
    <3>1. store'[m] = store[m]
      BY <1>2, <2>4 DEF SetUnanswered, TypeOK
    <3>2. m \notin gap[g]
      BY <1>2 DEF SetUnanswered, Missed, TypeOK
    <3> QED
      BY <1>a, <2>1, <2>2, <3>1, <3>2
  <2> QED
    BY <2>3, <2>4
<1>3. ASSUME NEW w \in Writers, Publish(w) \/ PublishUnanswered(w) PROVE Goal
  <2> DEFINE n == updating[w]
  <2>1. /\ UNCHANGED <<rules, store, phase, toLoad>>
        /\ n \in Models /\ Announced(n) /\ Announce(n, store[n])
    BY <1>3, PublishAnnounces DEF Publish, PublishUnanswered, cache, start
  <2>2. HasRead(g, m) /\ Len(queue[g]) \in Nat
    BY <1>0, <2>1, QueueTyped DEF HasRead
  <2>3. \A v \in Writers : v # w => updating'[v] = updating[v]
    BY <1>3 DEF Publish, PublishUnanswered, Published, TypeOK
  <2> HIDE DEF n
  <2>4. CASE n = m /\ g \in subscribed
    BY <2>1, <2>2, <2>4 DEF Announced
  <2>5. CASE n = m /\ g \notin subscribed
    <3>1. gap' = [h \in Gateways |-> CASE h \in subscribed -> gap[h] \ {n}
                                       [] h \in Behind(n, store[n]) \ subscribed -> gap[h] \union {n}
                                       [] OTHER -> gap[h]]
      BY <2>1 DEF Announce
    <3>2. g \in Behind(n, store[n]) => m \in gap'[g]
      BY <2>5, <3>1
    <3> QED
      BY <2>1, <2>2, <2>5, <3>2 DEF Behind
  <2>6. CASE n # m
    <3>1. m \notin gap[g]
      BY <2>1, <2>6 DEF Announce, TypeOK
    <3>2. \A v \in Writers : updating[v] # m
      BY <2>3, <2>6 DEF n
    <3>3. ASSUME NEW i \in 1 .. Len(queue[g])
          PROVE i \in 1 .. Len(queue'[g]) /\ queue'[g][i] = queue[g][i]
      BY <2>1, <2>2 DEF Announced
    <3> QED
      BY <1>a, <2>1, <2>2, <3>1, <3>2, <3>3
  <2> QED
    BY <2>4, <2>5, <2>6
<1>4. ASSUME NEW w \in Writers, PublishFails(w) PROVE Goal
  <2>1. UNCHANGED <<rules, store, queue, phase, toLoad>>
    BY <1>4 DEF PublishFails, cache, channel, start
  <2>2. HasRead(g, m)
    BY <1>0, <2>1 DEF HasRead
  <2>3. CASE updating[w] = m
    BY <1>4, <2>1, <2>2, <2>3 DEF PublishFails, Missed, Behind, TypeOK
  <2>4. CASE updating[w] # m
    <3>1. \A v \in Writers : updating[v] # m
      BY <1>4, <2>4 DEF PublishFails, Published, TypeOK
    <3>2. m \notin gap[g]
      BY <1>4 DEF PublishFails, Missed, TypeOK
    <3> QED
      BY <1>a, <2>1, <2>2, <3>1, <3>2
  <2> QED
    BY <2>3, <2>4
<1>5. ASSUME NEW h \in Gateways, ListKeys(h) PROVE Goal
  <2>1. UNCHANGED <<rules, store, queue, updating>>
    BY <1>5 DEF ListKeys, cache, channel, writers
  <2>2. CASE h = g
    <3>1. rules[g][m] = 0 /\ toLoad[g] = {}
      BY <1>5, <2>2 DEF ListKeys, Phases
    <3>2. store[m] = 0
      BY <1>0, <1>5, <2>2 DEF ListKeys, TypeOK
    <3> QED
      BY <2>1, <3>1, <3>2
  <2>3. CASE h # g
    <3>1. phase'[g] = phase[g] /\ toLoad'[g] = toLoad[g] /\ gap'[g] = gap[g]
      BY <1>5, <2>3 DEF ListKeys, TypeOK
    <3> QED
      BY <1>0, <1>a, <2>1, <3>1 DEF HasRead
  <2> QED
    BY <2>2, <2>3
<1>6. ASSUME NEW h \in Gateways, NEW n \in Models, LoadRule(h, n) PROVE Goal
  <2>1. UNCHANGED <<store, queue, updating, gap, phase>>
    BY <1>6 DEF LoadRule, channel, writers
  <2>2. CASE h = g /\ n = m
    BY <1>6, <2>1, <2>2 DEF LoadRule, StoreRule, TypeOK
  <2>3. CASE ~(h = g /\ n = m)
    <3>1. rules'[g][m] = rules[g][m]
      BY <1>6, <2>3 DEF LoadRule, StoreRule, TypeOK
    <3>2. m \notin toLoad[g]
      BY <1>0, <1>6, <2>3 DEF LoadRule, TypeOK
    <3> QED
      BY <1>0, <1>a, <2>1, <3>1, <3>2 DEF HasRead
  <2> QED
    BY <2>2, <2>3
<1>7. ASSUME NEW h \in Gateways, NEW n \in Models, SkipRule(h, n) PROVE Goal
  <2>1. UNCHANGED <<rules, store, queue, updating, phase>>
    BY <1>7 DEF SkipRule, cache, channel, writers
  <2>2. m \notin gap[g] /\ m \notin toLoad[g]
    BY <1>0, <1>7 DEF SkipRule, TypeOK
  <2> QED
    BY <1>0, <1>b, <2>1, <2>2 DEF HasRead
<1>8. ASSUME NEW h \in Gateways, Subscribe(h) PROVE Goal
  <2>1. UNCHANGED <<rules, store, queue, updating, toLoad, gap>>
    BY <1>8 DEF Subscribe, cache, channel, writers
  <2>2. phase[g] # "down"
    BY <1>0, <1>8 DEF Subscribe, TypeOK
  <2> QED
    BY <1>0, <1>b, <2>1, <2>2 DEF HasRead
<1>9. ASSUME NEW h \in Gateways, LoseConnection(h) PROVE Goal
  <2>1. UNCHANGED <<rules, store, updating, phase, toLoad>>
    BY <1>9 DEF LoseConnection, cache, writers, start
  <2>2. m \notin gap[g]
    BY <1>9, LosingKeepsAPrefix
  <2>3. ASSUME NEW i \in 1 .. Len(queue[g]), queue[g][i].model = m
        PROVE i \in 1 .. Len(queue'[g]) /\ queue'[g][i] = queue[g][i]
    <3>1. CASE g = h
      <4>1. PICK n \in 0 .. Len(queue[g]) :
              /\ Len(queue'[g]) = n
              /\ \A j \in 1 .. n : queue'[g][j] = queue[g][j]
              /\ \A j \in n + 1 .. Len(queue[g]) : queue[g][j].model \in gap'[g]
        BY <1>9, <3>1, LosingKeepsAPrefix
      <4>2. i \notin n + 1 .. Len(queue[g])
        BY <2>3, <4>1
      <4> QED
        BY <4>1, <4>2, QueueTyped
    <3>2. CASE g # h
      BY <1>9, <3>2, LosingKeepsAPrefix
    <3> QED
      BY <3>1, <3>2
  <2> QED
    BY <1>0, <1>a, <2>1, <2>2, <2>3 DEF HasRead
<1>10. ASSUME NEW h \in Gateways, Receive(h) PROVE Goal
  <2>1. UNCHANGED <<store, updating, phase, toLoad, gap>>
    BY <1>10 DEF Receive, writers, start
  <2>2. HasRead(g, m)
    BY <1>0, <2>1 DEF HasRead
  <2>3. CASE h # g
    BY <1>10, <1>a, <2>1, <2>2, <2>3, ReceivingTakesTheFirst
  <2>4. CASE h = g
    <3> DEFINE first == queue[g][1]
    <3>1. /\ 1 \in 1 .. Len(queue[g])
          /\ Len(queue'[g]) = Len(queue[g]) - 1
          /\ \A i \in 1 .. Len(queue'[g]) : queue'[g][i] = queue[g][i + 1]
          /\ rules'[g][m] = IF m = first.model THEN first.version ELSE rules[g][m]
      BY <1>10, <2>4, ReceivingTakesTheFirst
    <3>2. Len(queue[g]) \in Nat /\ first.version \in Nat
      BY <3>1, QueueTyped
    <3>3. CASE rules[g][m] = store[m]
      <4>1. CASE m = first.model
        <5>1. rules[g][m] <= first.version /\ first.version <= store[m]
          BY <3>1, <4>1 DEF InBounds
        <5> QED
          BY <2>1, <3>1, <3>2, <3>3, <4>1, <5>1, RulesTyped
      <4>2. CASE m # first.model
        BY <2>1, <3>1, <3>3, <4>2
      <4> QED
        BY <4>1, <4>2
    <3>4. ASSUME NEW i \in 1 .. Len(queue[g]),
                 queue[g][i].model = m, queue[g][i].version = store[m]
          PROVE Goal
      <4>1. CASE i = 1
        BY <2>1, <3>1, <3>4, <4>1
      <4>2. CASE i # 1
        <5>1. i - 1 \in 1 .. Len(queue'[g]) /\ (i - 1) + 1 = i
          BY <3>1, <3>2, <4>2
        <5>2. queue'[g][i - 1] = queue[g][i]
          BY <3>1, <5>1
        <5> QED
          BY <2>1, <3>4, <5>1, <5>2
      <4> QED
        BY <4>1, <4>2
    <3> QED
      BY <1>a, <2>1, <2>2, <3>3, <3>4
  <2> QED
    BY <2>3, <2>4
<1>11. ASSUME NEW h \in Gateways, Stop(h) PROVE Goal
  <2>1. h # g
    BY <1>0, <1>11 DEF Stop, TypeOK
  <2>2. /\ UNCHANGED <<store, updating>>
        /\ phase'[g] = phase[g] /\ toLoad'[g] = toLoad[g] /\ queue'[g] = queue[g]
        /\ rules'[g] = rules[g] /\ gap'[g] = gap[g]
    BY <1>11, <2>1 DEF Stop, TypeOK, writers
  <2> QED
    BY <1>0, <1>a, <2>2 DEF HasRead
<1>12. CASE UNCHANGED <<store, queue, rules, updating, phase, toLoad, gap>>
  BY <1>0, <1>b, <1>12 DEF HasRead
<1> QED
  BY <1>1, <1>2, <1>3, <1>4, <1>5, <1>6, <1>7, <1>8, <1>9, <1>10, <1>11, <1>12 DEF Next, vars, writers,
        start, channel, cache, WriterStep, StartStep, Confirm, ProbeStep, ProbeAll, VisitRule, ProbeKey

------------------------------------------------------------------------------
(* Theorems *)

LEMMA InitInv == Init => Inv
<1> SUFFICES ASSUME Init PROVE Inv
  OBVIOUS
<1>1. TypeOK
  BY InitTyped
<1>2. Phases
  BY DEF Init, Phases
<1>3. InBounds
  BY <1>1, RulesTyped DEF Init, InBounds
<1>4. InOrder
  BY DEF Init, InOrder
<1>5. OnItsWay
  BY DEF Init, OnItsWay, HasRead
<1> QED
  BY <1>1, <1>2, <1>3, <1>4, <1>5 DEF Inv

LEMMA InvStep == Inv /\ [Next]_vars => Inv'
  BY TypeStep, PhasesStep, OrderStep, OnItsWayStep DEF Inv

LEMMA Invariant == Spec => []Inv
  BY InitInv, InvStep, PTL DEF Spec

\* Every variable keeps its type, and a key can only be failed in a gateway's
\* cache if the rule cached there was published so.
THEOREM TypeCorrect == Spec => []TypeOK
<1>1. Inv => TypeOK
  BY DEF Inv
<1> QED
  BY <1>1, Invariant, PTL

\* A gateway that has missed nothing of a model's rule has the stored version as
\* soon as no event for it is on its way, whatever was lost or repeated before.
THEOREM QuietGatewaysAreCurrent == Spec => []QuietIsCurrent
<1>1. Inv => QuietIsCurrent
  <2> SUFFICES ASSUME Inv, NEW g \in Gateways, NEW m \in Models, Quiet(g, m), m \notin gap[g]
               PROVE  rules[g][m] = store[m]
    BY DEF QuietIsCurrent
  <2>1. \A i \in 1 .. Len(queue[g]) : queue[g][i].model # m
    <3>1. queue[g] \in Seq(Events)
      BY QueueTyped DEF Inv
    <3> QED
      BY <3>1 DEF Quiet
  <2> QED
    BY <2>1 DEF Inv, OnItsWay, Quiet
<1> QED
  BY <1>1, Invariant, PTL

\* A running gateway never exchanges a rule for an earlier version of it.
LEMMA NoStepBack == Inv /\ [Next]_vars =>
    \A g \in Gateways : phase'[g] # "down" => \A m \in Models : rules'[g][m] >= rules[g][m]
<1> SUFFICES ASSUME Inv, [Next]_vars, NEW g \in Gateways, phase'[g] # "down", NEW m \in Models
             PROVE  rules'[g][m] >= rules[g][m]
  OBVIOUS
<1>0. TypeOK /\ InBounds
  BY DEF Inv
<1>1. rules[g][m] \in Nat /\ store[m] \in Nat /\ rules[g][m] <= store[m]
  BY <1>0, RulesTyped DEF InBounds
<1>2. ASSUME NEW h \in Gateways, NEW n \in Models, LoadRule(h, n) PROVE rules'[g][m] >= rules[g][m]
  <2>1. rules'[g][m] = IF h = g /\ n = m THEN store[m] ELSE rules[g][m]
    BY <1>0, <1>2 DEF LoadRule, StoreRule, TypeOK
  <2> QED
    BY <1>1, <2>1
<1>3. ASSUME NEW h \in Gateways, Receive(h) PROVE rules'[g][m] >= rules[g][m]
  <2>1. CASE h # g
    BY <1>0, <1>1, <1>3, <2>1, ReceivingTakesTheFirst
  <2>2. CASE h = g
    <3>1. /\ 1 \in 1 .. Len(queue[g])
          /\ rules'[g][m] = IF m = queue[g][1].model THEN queue[g][1].version ELSE rules[g][m]
      BY <1>0, <1>3, <2>2, ReceivingTakesTheFirst
    <3>2. queue[g][1].version \in Nat
      BY <1>0, <3>1, QueueTyped
    <3>3. m = queue[g][1].model => rules[g][m] <= queue[g][1].version
      BY <1>0, <3>1 DEF InBounds
    <3> QED
      BY <1>1, <3>1, <3>2, <3>3
  <2> QED
    BY <2>1, <2>2
<1>4. ASSUME NEW h \in Gateways, Stop(h) PROVE rules'[g][m] >= rules[g][m]
  <2>1. h # g
    BY <1>0, <1>4 DEF Stop, TypeOK
  <2>2. rules'[g] = rules[g]
    BY <1>0, <1>4, <2>1 DEF Stop, TypeOK
  <2> QED
    BY <1>1, <2>2
<1>5. CASE UNCHANGED rules
  BY <1>1, <1>5
<1> QED
  BY <1>2, <1>3, <1>4, <1>5 DEF Next, vars, cache, WriterStep, SetRule, SetUnanswered, Publish,
        PublishUnanswered, PublishFails, StartStep, SkipRule, Subscribe, ListKeys, Confirm,
        LoseConnection, ProbeStep, ProbeAll, VisitRule, ProbeKey

\* An update, once in force in a gateway, stays in force while the gateway runs.
THEOREM RulesOnlyAdvance == Spec => NeverGoesBack
<1>1. Inv /\ [Next]_vars =>
        [\A g \in Gateways : phase'[g] # "down" =>
            \A m \in Models : rules'[g][m] >= rules[g][m]]_vars
  BY NoStepBack
<1> QED
  BY <1>1, Invariant, PTL DEF Spec, NeverGoesBack
==============================================================================
