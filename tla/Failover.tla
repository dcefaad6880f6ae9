------------------------------- MODULE Failover -------------------------------
(***************************************************************************)
(* internal/router: the rules a gateway has cached, the selection of an    *)
(* API key, the four levels of ExecuteWithFailover, and the health probe.  *)
(* The circuit breaker is used through what it promises (AbstractBreaker). *)
(*                                                                         *)
(* A cached rule is an object behind a pointer: an update replaces it, the *)
(* probe changes the status of its keys in place, and a request keeps the  *)
(* pointer it has loaded for as long as a level takes.  All requests ask   *)
(* for one model; its fallback chain names others.                         *)
(***************************************************************************)
EXTENDS Integers, Sequences, FiniteSets

CONSTANTS
    Models,         \* model ids
    Main,           \* the model that is asked for
    Rules,          \* rule objects that are ever cached: each update brings one
    Loaded,         \* Loaded[m]: the rule LoadRules has cached for the model, or NoRule
    ModelOf,        \* ModelOf[v]: the model the rule is for
    APIKeys,        \* APIKeys[v]: its keys, in order
    InitialStatus,  \* InitialStatus[v]: their status as published
    FallbackChain,  \* FallbackChain[v]: sequence of [level, model]
    RoundRobin,     \* the rules balanced by round robin
    AtRandom,       \* those balanced at random, weighted or not (others: first key)
    NoRule,         \* nothing is cached, or held
    Keys, Requests, NoKey, MaxRequests      \* as in AbstractBreaker

VARIABLES
    rules,          \* RouteManager.rules: the cached rule of each model
    used,           \* rule objects that have been cached
    status,         \* APIKeyConfig.Status, in each rule object
    roundRobin,     \* RouteManager.roundRobin
    state, probes, inflight,    \* the breaker
    level,          \* the failover level the request is at
    rule,           \* the rule that level has loaded
    pos,            \* its position in that level's list
    source,         \* the rule SelectAPIKey is selecting from
    active,         \* its activeKeys, as listed there
    chosen,         \* the key to ask the breaker for
    first,          \* HISTORY: the key the breaker was asked for at the primary level
    due,            \* HISTORY: positions whose keys were active when the backup level
                    \* began and that the breaker has not been asked for
    share           \* HISTORY: selections of each key since the list last changed

breaker == <<state, probes, inflight>>
cache == <<rules, used, status>>
requests == <<level, rule, pos, source, active, chosen>>
history == <<first, due, share>>
vars == <<cache, roundRobin, breaker, requests, history>>

Breaker == INSTANCE AbstractBreaker

KeyStatus == {"active", "cooldown", "failed"}
Levels == {"none", "primary", "backup", "alternative", "fallback", "failed"}
Positions(v) == 1 .. Len(APIKeys[v])
RulesOf(m) == {v \in Rules : ModelOf[v] = m}
Chains == {"alternative", "fallback"}

ASSUME FailoverAssumption ==
    /\ Main \in Models
    /\ ModelOf \in [Rules -> Models]
    /\ APIKeys \in [Rules -> Seq(Keys)]
    /\ DOMAIN InitialStatus = Rules
    /\ \A v \in Rules : InitialStatus[v] \in [Positions(v) -> KeyStatus]
    /\ FallbackChain \in [Rules -> Seq([level : 1..3, model : Models])]
    /\ RoundRobin \subseteq Rules
    /\ AtRandom \subseteq Rules \ RoundRobin
    /\ NoRule \notin Rules
    /\ Loaded \in [Models -> Rules \union {NoRule}]
    /\ Loaded[Main] # NoRule
    /\ \A m \in Models : Loaded[m] # NoRule => ModelOf[Loaded[m]] = m
    /\ MaxRequests \in Nat

TypeOK ==
    /\ Breaker!TypeOK
    /\ rules \in [Models -> Rules \union {NoRule}]
    /\ \A m \in Models : rules[m] # NoRule => ModelOf[rules[m]] = m
    /\ used \in SUBSET Rules
    /\ \A v \in Rules : status[v] \in [Positions(v) -> KeyStatus]
    /\ roundRobin \in [Models -> Nat]
    /\ \A m \in Models : roundRobin[m] = 0 \/ \E v \in RulesOf(m) : roundRobin[m] < Len(APIKeys[v])
    /\ level \in [Requests -> Levels]
    /\ rule \in [Requests -> RulesOf(Main) \union {NoRule}]
    /\ pos \in [Requests -> Nat \ {0}]
    /\ source \in [Requests -> Rules \union {NoRule}]
    /\ active \in [Requests -> Seq(Keys)]
    /\ chosen \in [Requests -> Keys \union {NoKey}]
    /\ first \in [Requests -> Keys \union {NoKey}]
    /\ due \in [Requests -> SUBSET UNION {Positions(v) : v \in Rules}]

Init ==
    /\ Breaker!Init
    /\ rules = Loaded
    /\ used = {v \in Rules : \E m \in Models : Loaded[m] = v}
    /\ status = InitialStatus
    /\ roundRobin = [m \in Models |-> 0]
    /\ level = [r \in Requests |-> "none"]
    /\ rule = [r \in Requests |-> NoRule]
    /\ pos = [r \in Requests |-> 1]
    /\ source = [r \in Requests |-> NoRule]
    /\ active = [r \in Requests |-> <<>>]
    /\ chosen = [r \in Requests |-> NoKey]
    /\ first = [r \in Requests |-> NoKey]
    /\ due = [r \in Requests |-> {}]
    /\ share = [m \in Models |-> [keys |-> <<>>, count |-> <<>>]]

------------------------------------------------------------------------------
(* Levels.  A request is free when it is neither selecting a key, nor about *)
(* to ask for one, nor running.                                             *)

Free(r) == active[r] = <<>> /\ chosen[r] = NoKey /\ inflight[r] = NoKey

IsActive(v, i) == status[v][i] = "active"
ActivePositions(v) == {i \in Positions(v) : IsActive(v, i)}

\* In order: the n-th of them is the one that has n - 1 before it.
ActiveKeys(v) ==
    [n \in 1 .. Cardinality(ActivePositions(v)) |->
        APIKeys[v][CHOOSE i \in ActivePositions(v) :
                       Cardinality({j \in ActivePositions(v) : j < i}) = n - 1]]

\* The first position of a level, and the last.  "Try all keys except the first".
FirstPos(step) == IF step = "backup" THEN 2 ELSE 1

LastPos(r) ==
    CASE level[r] = "primary" -> 1
      [] level[r] = "backup" -> Len(APIKeys[rule[r]])
      [] level[r] \in Chains -> Len(FallbackChain[rule[r]])

Advance(r) == pos' = [pos EXCEPT ![r] = @ + 1]

Begin(r) ==
    /\ level[r] = "none"
    /\ level' = [level EXCEPT ![r] = "primary"]
    /\ pos' = [pos EXCEPT ![r] = 1]
    /\ UNCHANGED <<cache, roundRobin, breaker, rule, source, active, chosen, history>>

\* ExecuteWithFailover returns: what the request was doing is forgotten.
Done(r) ==
    /\ level' = [level EXCEPT ![r] = "none"]
    /\ rule' = [rule EXCEPT ![r] = NoRule]
    /\ pos' = [pos EXCEPT ![r] = 1]
    /\ due' = [due EXCEPT ![r] = {}]

Following(step) ==
    CASE step = "primary" -> "backup"
      [] step = "backup" -> "alternative"
      [] step = "alternative" -> "fallback"
      [] step = "fallback" -> "failed"

\* A level is exhausted: the next one loads the rule anew.
NextLevel(r) ==
    /\ level[r] \in {"primary", "backup"} \union Chains
    /\ Free(r)
    /\ pos[r] > LastPos(r)
    /\ LET next == Following(level[r])
       IN  /\ level' = [level EXCEPT ![r] = next]
           /\ rule' = [rule EXCEPT ![r] = IF next = "failed" THEN NoRule ELSE rules[Main]]
           /\ pos' = [pos EXCEPT ![r] = FirstPos(next)]
           /\ due' = IF next = "backup"
                     THEN [due EXCEPT ![r] = {i \in Positions(rules[Main]) :
                                /\ IsActive(rules[Main], i)
                                /\ APIKeys[rules[Main]][i] # first[r]}]
                     ELSE due
           /\ first' = [first EXCEPT ![r] = NoKey]
    /\ UNCHANGED <<cache, roundRobin, breaker, source, active, chosen, share>>

\* The executor's caller has the error.
Finish(r) ==
    /\ level[r] = "failed"
    /\ Done(r)
    /\ UNCHANGED <<cache, roundRobin, breaker, source, active, chosen, first, share>>

------------------------------------------------------------------------------
(* SelectAPIKey *)

\* The active keys are listed without a lock; no rule or no active key is an
\* error, and the level goes on.
Select(r, m) ==
    /\ IF rules[m] = NoRule \/ ActiveKeys(rules[m]) = <<>>
       THEN Advance(r) /\ UNCHANGED <<source, active>>
       ELSE /\ source' = [source EXCEPT ![r] = rules[m]]
            /\ active' = [active EXCEPT ![r] = ActiveKeys(rules[m])]
            /\ UNCHANGED pos
    /\ UNCHANGED <<cache, roundRobin, breaker, level, rule, chosen, history>>

\* Mutant of NextIndex: the modulus is left to the next selection.
NextIndexUnreduced(index, n) == index + 1

\* Mutant of NextIndex: an off-by-one in the modulus.
NextIndexOffByOne(index, n) == (index + 1) % (n + 1)

NextIndex(index, n) == (index + 1) % n

\* Counts, with what they have in common taken off.
Normalized(count) ==
    IF \A i \in DOMAIN count : count[i] > 0 THEN [i \in DOMAIN count |-> count[i] - 1] ELSE count

Count(m, keys, i) ==
    LET old == IF share[m].keys = keys THEN share[m].count ELSE [j \in DOMAIN keys |-> 0]
    IN  share' = [share EXCEPT ![m] = [keys |-> keys, count |-> Normalized([old EXCEPT ![i] = @ + 1])]]

\* roundRobinSelect, under its lock.
SelectInTurn(r) ==
    LET m == ModelOf[source[r]]
        n == Len(active[r])
        i == (roundRobin[m] % n) + 1
    IN  /\ source[r] \in RoundRobin
        /\ chosen' = [chosen EXCEPT ![r] = active[r][i]]
        /\ roundRobin' = [roundRobin EXCEPT ![m] = NextIndex(@, n)]
        /\ Count(m, active[r], i)

\* rand.Intn, over the keys or over their weights: any key may come.
SelectAtRandom(r) ==
    /\ source[r] \in AtRandom
    /\ \E i \in DOMAIN active[r] : chosen' = [chosen EXCEPT ![r] = active[r][i]]
    /\ UNCHANGED <<roundRobin, share>>

SelectFirst(r) ==
    /\ source[r] \notin RoundRobin \union AtRandom
    /\ chosen' = [chosen EXCEPT ![r] = active[r][1]]
    /\ UNCHANGED <<roundRobin, share>>

Balance(r) ==
    /\ active[r] # <<>>
    /\ SelectInTurn(r) \/ SelectAtRandom(r) \/ SelectFirst(r)
    /\ active' = [active EXCEPT ![r] = <<>>]
    /\ source' = [source EXCEPT ![r] = NoRule]
    /\ UNCHANGED <<cache, breaker, level, rule, pos, first, due>>

------------------------------------------------------------------------------
(* The candidates of each level *)

TryPrimary(r) ==
    /\ level[r] = "primary" /\ Free(r) /\ pos[r] <= LastPos(r)
    /\ Select(r, Main)

\* Mutant of TryBackup: a key that is not active ends the level.
TryBackupBreaks(r) ==
    /\ level[r] = "backup" /\ Free(r) /\ pos[r] <= LastPos(r)
    /\ IF IsActive(rule[r], pos[r])
       THEN chosen' = [chosen EXCEPT ![r] = APIKeys[rule[r]][pos[r]]] /\ UNCHANGED pos
       ELSE pos' = [pos EXCEPT ![r] = LastPos(r) + 1] /\ UNCHANGED chosen
    /\ UNCHANGED <<cache, roundRobin, breaker, level, rule, source, active, history>>

TryBackup(r) ==
    /\ level[r] = "backup" /\ Free(r) /\ pos[r] <= LastPos(r)
    /\ IF IsActive(rule[r], pos[r])
       THEN chosen' = [chosen EXCEPT ![r] = APIKeys[rule[r]][pos[r]]] /\ UNCHANGED pos
       ELSE Advance(r) /\ UNCHANGED chosen
    /\ UNCHANGED <<cache, roundRobin, breaker, level, rule, source, active, history>>

\* Alternative models are all those that are not of level 1; the fallback models,
\* of level 3, are among them.
Eligible(step, entry) ==
    IF step = "alternative" THEN entry.level >= 2 ELSE entry.level = 3

TryChain(r) ==
    /\ level[r] \in Chains /\ Free(r) /\ pos[r] <= LastPos(r)
    /\ LET entry == FallbackChain[rule[r]][pos[r]]
       IN  IF Eligible(level[r], entry)
           THEN Select(r, entry.model)
           ELSE /\ Advance(r)
                /\ UNCHANGED <<cache, roundRobin, breaker, level, rule, source, active, chosen,
                               history>>

------------------------------------------------------------------------------
(* The breaker and the executor *)

Asks(r) ==
    /\ first' = IF level[r] = "primary" THEN [first EXCEPT ![r] = chosen[r]] ELSE first
    /\ due' = IF level[r] = "backup" THEN [due EXCEPT ![r] = @ \ {pos[r]}] ELSE due

\* AllowRequest admits, and the executor runs.
Admit(r) ==
    /\ chosen[r] # NoKey
    /\ Breaker!Admit(r, chosen[r])
    /\ Asks(r)
    /\ chosen' = [chosen EXCEPT ![r] = NoKey]
    /\ UNCHANGED <<cache, roundRobin, level, rule, pos, source, active, share>>

\* AllowRequest refuses: the breaker is open, or half-open with its probes spent.
Refuse(r) ==
    /\ chosen[r] # NoKey
    /\ \/ state[chosen[r]] = "open"
       \/ state[chosen[r]] = "halfOpen" /\ probes[chosen[r]] > MaxRequests
    /\ Asks(r)
    /\ chosen' = [chosen EXCEPT ![r] = NoKey]
    /\ Advance(r)
    /\ UNCHANGED <<cache, roundRobin, breaker, level, rule, source, active, share>>

\* The executor returns nil: RecordSuccess, and the request is done.
Succeed(r) ==
    /\ inflight[r] # NoKey
    /\ Breaker!Succeed(r, inflight[r])
    /\ Done(r)
    /\ first' = [first EXCEPT ![r] = NoKey]
    /\ UNCHANGED <<cache, roundRobin, source, active, chosen, share>>

\* The executor fails, for whatever reason: RecordFailure, and the next candidate.
Fail(r) ==
    /\ inflight[r] # NoKey
    /\ Breaker!Fail(r, inflight[r])
    /\ Advance(r)
    /\ UNCHANGED <<cache, roundRobin, level, rule, source, active, chosen, history>>

------------------------------------------------------------------------------
(* SubscribeUpdates and HealthProbe *)

\* An update event is stored: the rule object it brings replaces the cached one.
Update(v) ==
    /\ v \notin used
    /\ rules' = [rules EXCEPT ![ModelOf[v]] = v]
    /\ used' = used \union {v}
    /\ UNCHANGED <<status, roundRobin, breaker, requests, history>>

\* probeAll probes a failed key and, as its upstream answers, makes it active again;
\* other keys, in cooldown too, are passed over.  The rule it is at may have been
\* replaced since it came to it.
ProbeKey(v, i) ==
    /\ v \in used
    /\ status[v][i] = "failed"
    /\ status' = [status EXCEPT ![v][i] = "active"]
    /\ UNCHANGED <<rules, used, roundRobin, breaker, requests, history>>

RequestStep(r) ==
    \/ NextLevel(r) \/ Finish(r)
    \/ TryPrimary(r) \/ TryBackup(r) \/ TryChain(r) \/ Balance(r)
    \/ Admit(r) \/ Refuse(r) \/ Succeed(r) \/ Fail(r)

Next ==
    \/ \E r \in Requests : Begin(r) \/ RequestStep(r)
    \/ \E v \in Rules : Update(v) \/ \E i \in Positions(v) : ProbeKey(v, i)

Spec == Init /\ [][Next]_vars

------------------------------------------------------------------------------
(* Properties *)

GivenUp(r) == level[r] \in Chains \union {"failed"}

\* A request turns to other models only when every backup key has had its chance:
\* the breaker has been asked for each key that was active when that level began,
\* though the rule may be replaced, and keys recover or trip, in the meantime.
GivesUpExhausted == \A r \in Requests : GivenUp(r) => due[r] \subseteq {1}

\* design.md:1843 (property 6): in turn, every key gets its share.  As long as
\* requests find the same active keys, no key is chosen twice more often than
\* another, however their selections interleave.
EqualShares ==
    \A m \in Models : \A i \in DOMAIN share[m].count : share[m].count[i] <= 1

\* design.md:1849 (property 7): alternative models are tried when ALL keys of the
\* model have failed.  So no key that was active has never been asked for.
AllKeysFirst == \A r \in Requests : GivenUp(r) => due[r] = {}
==============================================================================
