----------------------------- MODULE Failover_proof -----------------------------
(***************************************************************************)
(* What holds of the failover of any number of requests over any rules and *)
(* keys: the types, that no backup key is passed over, and that keys taken *)
(* in turn are taken equally often.                                        *)
(***************************************************************************)
EXTENDS Failover, FiniteSetTheorems, WellFoundedInduction, TLAPS

------------------------------------------------------------------------------
(* Counting in a circle *)

\* How many steps before c, going round 0 .. n - 1, the position x - 1 was passed.
Distance(c, x, n) == IF x <= c THEN c - x ELSE (c - x) + n

LEMMA NextInCircle ==
    ASSUME NEW n \in Nat \ {0}, NEW a \in Nat
    PROVE  /\ a % n \in 0 .. n - 1
           /\ (a + 1) % n \in 0 .. n - 1
           /\ (a + 1) % n = IF (a % n) + 1 = n THEN 0 ELSE (a % n) + 1
<1> DEFINE c == a % n
           q == a \div n
<1>1. c \in 0 .. n - 1 /\ q \in Nat /\ a = n * q + c
  OBVIOUS
<1> HIDE DEF c, q
<1>2. CASE c + 1 = n
  <2>1. a + 1 = n * (q + 1) + 0
    BY <1>1, <1>2
  <2>2. \A p \in Nat, d \in 0 .. n - 1 : (n * p + d) % n = d
    OBVIOUS
  <2>3. (a + 1) % n = 0
    BY <1>1, <2>1, <2>2
  <2> QED
    BY <1>1, <1>2, <2>3 DEF c
<1>3. CASE c + 1 # n
  <2>1. a + 1 = n * q + (c + 1) /\ c + 1 \in 0 .. n - 1
    BY <1>1, <1>3
  <2>2. \A p \in Nat, d \in 0 .. n - 1 : (n * p + d) % n = d
    OBVIOUS
  <2>3. (a + 1) % n = c + 1
    BY <1>1, <2>1, <2>2
  <2> QED
    BY <1>1, <1>3, <2>3 DEF c
<1> QED
  BY <1>2, <1>3

LEMMA SmallInCircle == ASSUME NEW n \in Nat \ {0}, NEW a \in 0 .. n - 1 PROVE a % n = a
  OBVIOUS

\* The j positions passed last have one more than the others.
Block(count, c, j, n) ==
    /\ DOMAIN count = 1 .. n
    /\ \A x \in 1 .. n : count[x] = IF Distance(c, x, n) < j THEN 1 ELSE 0

\* One more step extends the block, and a full round is taken off.
LEMMA BlockGrows ==
    ASSUME NEW n \in Nat \ {0}, NEW c \in 0 .. n - 1, NEW j \in 0 .. n - 1, NEW old,
           Block(old, c, j, n)
    PROVE  LET count == Normalized([old EXCEPT ![c + 1] = @ + 1])
               next == IF c + 1 = n THEN 0 ELSE c + 1
           IN  \E k \in 0 .. n - 1 : Block(count, next, k, n)
<1> DEFINE w == [old EXCEPT ![c + 1] = @ + 1]
           next == IF c + 1 = n THEN 0 ELSE c + 1
<1>1. next \in 0 .. n - 1 /\ c + 1 \in 1 .. n
  OBVIOUS
<1>2. DOMAIN w = 1 .. n /\ \A x \in 1 .. n : w[x] = IF x = c + 1 THEN old[x] + 1 ELSE old[x]
  BY <1>1 DEF Block
<1>3. \A x \in 1 .. n : Distance(next, x, n) = IF x = c + 1 THEN 0 ELSE Distance(c, x, n) + 1
  BY DEF Distance
<1>4. \A x \in 1 .. n : Distance(c, x, n) \in 0 .. n - 1
  BY DEF Distance
<1>5. Distance(c, c + 1, n) = n - 1
  BY DEF Distance
<1>6. \A x \in 1 .. n : w[x] = IF Distance(next, x, n) < j + 1 THEN 1 ELSE 0
  BY <1>1, <1>2, <1>3, <1>4, <1>5 DEF Block
<1> HIDE DEF w
<1>7. CASE j + 1 = n
  <2>1. \A x \in 1 .. n : w[x] = 1
    <3>1. \A x \in 1 .. n : Distance(next, x, n) \in 0 .. n - 1
      BY <1>1 DEF Distance
    <3> QED
      BY <1>6, <1>7, <3>1
  <2>2. Normalized(w) = [i \in 1 .. n |-> w[i] - 1]
    BY <1>2, <2>1 DEF Normalized
  <2>3. DOMAIN Normalized(w) = 1 .. n /\ \A x \in 1 .. n : Normalized(w)[x] = 0
    BY <2>1, <2>2
  <2>4. \A x \in 1 .. n : ~(Distance(next, x, n) < 0)
    BY <1>1 DEF Distance
  <2>5. Block(Normalized(w), next, 0, n)
    BY <2>3, <2>4 DEF Block
  <2> QED
    BY <2>5 DEF w
<1>8. CASE j + 1 # n
  <2>1. next + 1 \in 1 .. n /\ Distance(next, next + 1, n) = n - 1
    BY <1>1 DEF Distance
  <2>2. w[next + 1] = 0
    BY <1>6, <1>8, <2>1
  <2>3. Normalized(w) = w
    BY <1>2, <2>1, <2>2 DEF Normalized
  <2>4. Block(Normalized(w), next, j + 1, n) /\ j + 1 \in 0 .. n - 1
    BY <1>2, <1>6, <1>8, <2>3 DEF Block
  <2> QED
    BY <2>4 DEF w
<1> QED
  BY <1>7, <1>8

------------------------------------------------------------------------------
(* The list of active keys *)

\* A list is empty, or numbers its members from 1.
Listed(s) == s = <<>> \/ (Len(s) \in Nat \ {0} /\ DOMAIN s = 1 .. Len(s))

LEMMA ActiveKeysListed == ASSUME NEW v \in Rules PROVE Listed(ActiveKeys(v))
<1> DEFINE n == Cardinality(ActivePositions(v))
           s == ActiveKeys(v)
<1>1. n \in Nat
  <2>1. Len(APIKeys[v]) \in Nat
    BY FailoverAssumption
  <2>2. IsFiniteSet(1 .. Len(APIKeys[v]))
    BY <2>1, FS_Interval
  <2>3. IsFiniteSet(ActivePositions(v))
    BY <2>2, FS_Subset DEF ActivePositions, Positions
  <2> QED
    BY <2>3, FS_CardinalityType
<1>2. s \in [1 .. n -> {s[i] : i \in 1 .. n}]
  BY DEF ActiveKeys
<1> HIDE DEF n, s
<1>3. Len(s) = n /\ DOMAIN s = 1 .. n /\ s \in Seq({s[i] : i \in 1 .. n})
  BY <1>1, <1>2
<1>4. CASE n = 0
  <2>1. s = <<>>
    BY <1>3, <1>4
  <2> QED
    BY <2>1 DEF Listed, s
<1>5. CASE n # 0
  BY <1>1, <1>3, <1>5 DEF Listed, s
<1> QED
  BY <1>4, <1>5

------------------------------------------------------------------------------
(* The invariant *)

\* The parts of the state that the rest is about.
Tables ==
    /\ DOMAIN status = Rules
    /\ \A v \in Rules : DOMAIN status[v] = Positions(v)
    /\ rules \in [Models -> Rules \union {NoRule}]
    /\ rules[Main] \in Rules
    /\ roundRobin \in [Models -> Nat]
    /\ rule \in [Requests -> Rules \union {NoRule}]
    /\ pos \in [Requests -> Nat \ {0}]
    /\ level \in [Requests -> Levels]
    /\ source \in [Requests -> Rules \union {NoRule}]
    /\ DOMAIN active = Requests /\ DOMAIN chosen = Requests /\ DOMAIN inflight = Requests
    /\ DOMAIN due = Requests

\* A request does one thing at a time, and what it selects from is listed.
OneThing ==
    \A r \in Requests :
        /\ Listed(active[r])
        /\ active[r] # <<>> => source[r] \in Rules /\ chosen[r] = NoKey
        /\ active[r] # <<>> \/ chosen[r] # NoKey => inflight[r] = NoKey
        /\ level[r] \in {"backup"} \union Chains => rule[r] \in Rules

\* At the backup level what is due is active and still to come; position 1 the
\* level never comes to.
DueToCome ==
    \A r \in Requests : level[r] = "backup" =>
        /\ pos[r] >= 2
        /\ due[r] \subseteq {i \in Positions(rule[r]) : i >= pos[r] \/ i = 1}
        /\ \A i \in due[r] : IsActive(rule[r], i)
        /\ inflight[r] # NoKey => pos[r] \notin due[r]

\* The keys of a model that were counted last are those round robin is among, and
\* the ones that are ahead are those it passed last.
CountsInTurn ==
    \A m \in Models :
        LET s == share[m] IN
        \/ s.keys = <<>> /\ s.count = <<>>
        \/ /\ Len(s.keys) \in Nat \ {0} /\ DOMAIN s.keys = 1 .. Len(s.keys)
           /\ roundRobin[m] \in 0 .. Len(s.keys) - 1
           /\ \E j \in 0 .. Len(s.keys) - 1 : Block(s.count, roundRobin[m], j, Len(s.keys))

Inv ==
    /\ Tables /\ OneThing /\ DueToCome /\ GivesUpExhausted
    /\ DOMAIN share = Models /\ CountsInTurn

LEMMA InitInv == Init => Inv
<1> SUFFICES ASSUME Init PROVE Inv
  OBVIOUS
<1>1. Tables
  BY FailoverAssumption DEF Init, Breaker!Init, Tables, Positions, Levels
<1>2. OneThing /\ DueToCome /\ GivesUpExhausted
  BY DEF Init, Breaker!Init, OneThing, DueToCome, GivesUpExhausted, GivenUp, Listed, Chains
<1>3. DOMAIN share = Models /\ CountsInTurn
  BY DEF Init, CountsInTurn
<1> QED
  BY <1>1, <1>2, <1>3 DEF Inv

------------------------------------------------------------------------------
(* Round robin *)

LEMMA TurnKeepsCounts ==
    ASSUME Inv, NEW r \in Requests, active[r] # <<>>, SelectInTurn(r)
    PROVE  /\ roundRobin' \in [Models -> Nat]
           /\ DOMAIN share' = Models /\ CountsInTurn'
<1> DEFINE m == ModelOf[source[r]]
           s == active[r]
           n == Len(s)
           rr == roundRobin[m]
           c == rr % n
           old == IF share[m].keys = s THEN share[m].count ELSE [j \in DOMAIN s |-> 0]
           count == Normalized([old EXCEPT ![c + 1] = @ + 1])
           next == IF c + 1 = n THEN 0 ELSE c + 1
<1>1. m \in Models
  BY FailoverAssumption DEF Inv, OneThing
<1>2. n \in Nat \ {0} /\ DOMAIN s = 1 .. n /\ rr \in Nat
  BY <1>1 DEF Inv, OneThing, Listed, Tables
<1>3. /\ roundRobin' = [roundRobin EXCEPT ![m] = (rr + 1) % n]
      /\ share' = [share EXCEPT ![m] = [keys |-> s, count |-> count]]
  BY <1>1 DEF SelectInTurn, Count, NextIndex, Inv, Tables
<1>4. c \in 0 .. n - 1 /\ (rr + 1) % n = next /\ next \in 0 .. n - 1
  BY <1>2, NextInCircle
<1>5. \E j \in 0 .. n - 1 : Block(old, c, j, n)
  <2>1. CASE share[m].keys = s
    <3>1. rr \in 0 .. n - 1 /\ \E j \in 0 .. n - 1 : Block(share[m].count, rr, j, n)
      BY <1>1, <1>2, <2>1 DEF Inv, CountsInTurn
    <3>2. c = rr
      BY <1>2, <3>1, SmallInCircle
    <3> QED
      BY <2>1, <3>1, <3>2
  <2>2. CASE share[m].keys # s
    <3>1. old = [j \in 1 .. n |-> 0]
      BY <1>2, <2>2
    <3>2. \A x \in 1 .. n : ~(Distance(c, x, n) < 0)
      BY <1>2, <1>4 DEF Distance
    <3>3. Block(old, c, 0, n)
      BY <3>1, <3>2 DEF Block
    <3> QED
      BY <1>2, <3>3
  <2> QED
    BY <2>1, <2>2
<1> HIDE DEF old
<1>6. \E k \in 0 .. n - 1 : Block(count, next, k, n)
  BY <1>2, <1>4, <1>5, BlockGrows
<1> HIDE DEF count, next, c, rr, n, s, m
<1>7. next \in 0 .. n - 1 /\ next \in Nat
  BY <1>2, <1>4
<1>8. roundRobin' \in [Models -> Nat]
  BY <1>1, <1>2, <1>3, <1>4, <1>7 DEF Inv, Tables
<1>9. DOMAIN share' = Models
  BY <1>3 DEF Inv
<1>10. /\ share'[m].keys = s /\ share'[m].count = count /\ roundRobin'[m] = next
       /\ \A x \in Models \ {m} : share'[x] = share[x] /\ roundRobin'[x] = roundRobin[x]
  BY <1>1, <1>3, <1>4 DEF Inv, Tables
<1>11. CountsInTurn'
  BY <1>1, <1>2, <1>6, <1>7, <1>10 DEF Inv, CountsInTurn
<1> QED
  BY <1>8, <1>9, <1>11

------------------------------------------------------------------------------
(* The steps of a request.  What it asks of one request is ReqInv; a step of    *)
(* one request leaves that of the others alone.                                 *)

ReqInv(r) ==
    /\ Listed(active[r])
    /\ active[r] # <<>> => source[r] \in Rules /\ chosen[r] = NoKey
    /\ active[r] # <<>> \/ chosen[r] # NoKey => inflight[r] = NoKey
    /\ level[r] \in {"backup"} \union Chains => rule[r] \in Rules
    /\ level[r] = "backup" =>
          /\ pos[r] >= 2
          /\ due[r] \subseteq {i \in Positions(rule[r]) : i >= pos[r] \/ i = 1}
          /\ \A i \in due[r] : IsActive(rule[r], i)
          /\ inflight[r] # NoKey => pos[r] \notin due[r]
    /\ GivenUp(r) => due[r] \subseteq {1}

LEMMA ByRequest ==
    OneThing /\ DueToCome /\ GivesUpExhausted <=> \A r \in Requests : ReqInv(r)
  BY DEF OneThing, DueToCome, GivesUpExhausted, ReqInv

Others(r) ==
    \A q \in Requests \ {r} :
        /\ active'[q] = active[q] /\ source'[q] = source[q] /\ chosen'[q] = chosen[q]
        /\ inflight'[q] = inflight[q] /\ level'[q] = level[q] /\ rule'[q] = rule[q]
        /\ pos'[q] = pos[q] /\ due'[q] = due[q]

LEMMA OneRequest ==
    ASSUME Inv, NEW r \in Requests, Tables', Others(r), ReqInv(r)', UNCHANGED status
    PROVE  (\A q \in Requests : ReqInv(q))'
<1>1. ASSUME NEW q \in Requests, q # r PROVE ReqInv(q)'
  <2>1. ReqInv(q)
    BY ByRequest DEF Inv
  <2> QED
    BY <1>1, <2>1 DEF Others, ReqInv, IsActive, GivenUp
<1> QED
  BY <1>1

LEMMA KeptByRequest ==
    ASSUME Inv, NEW r \in Requests, Tables', Others(r), ReqInv(r)', UNCHANGED status,
           (DOMAIN share = Models /\ CountsInTurn)'
    PROVE  Inv'
<1>1. (\A q \in Requests : ReqInv(q))'
  BY OneRequest
<1>2. (OneThing /\ DueToCome /\ GivesUpExhausted)'
  BY <1>1 DEF OneThing, DueToCome, GivesUpExhausted, ReqInv
<1> QED
  BY <1>2 DEF Inv

LEMMA CountsUnchanged ==
    ASSUME Inv, UNCHANGED <<roundRobin, share>>
    PROVE  (DOMAIN share = Models /\ CountsInTurn)'
  BY DEF Inv, CountsInTurn

\* Beginning, ending and going on to the next level.
LEMMA LevelsKeep ==
    ASSUME Inv, NEW r \in Requests, Begin(r) \/ NextLevel(r) \/ Finish(r)
    PROVE  Inv'
<1>0. Tables /\ ReqInv(r)
  BY ByRequest DEF Inv
<1>1. /\ UNCHANGED <<status, rules, roundRobin, source, active, chosen, inflight, share>>
  BY DEF Begin, NextLevel, Finish, cache, breaker, history
<1>2. CASE Begin(r)
  <2>1. /\ level' = [level EXCEPT ![r] = "primary"] /\ pos' = [pos EXCEPT ![r] = 1]
        /\ UNCHANGED <<rule, due>>
    BY <1>2 DEF Begin, history
  <2>2. Tables' /\ Others(r)
    BY <1>0, <1>1, <2>1 DEF Tables, Levels, Others
  <2>3. ReqInv(r)'
    BY <1>0, <1>1, <2>1 DEF Tables, ReqInv, GivenUp, Chains
  <2> QED
    BY <1>1, <2>2, <2>3, KeptByRequest, CountsUnchanged
<1>3. CASE Finish(r)
  <2>1. /\ level' = [level EXCEPT ![r] = "none"] /\ pos' = [pos EXCEPT ![r] = 1]
        /\ rule' = [rule EXCEPT ![r] = NoRule] /\ due' = [due EXCEPT ![r] = {}]
    BY <1>3 DEF Finish, Done
  <2>2. Tables' /\ Others(r)
    BY <1>0, <1>1, <2>1 DEF Tables, Levels, Others
  <2>3. ReqInv(r)'
    BY <1>0, <1>1, <2>1 DEF Tables, ReqInv, GivenUp, Chains
  <2> QED
    BY <1>1, <2>2, <2>3, KeptByRequest, CountsUnchanged
<1>4. CASE NextLevel(r)
  <2> DEFINE next == Following(level[r])
             begun == {i \in Positions(rules[Main]) :
                          IsActive(rules[Main], i) /\ APIKeys[rules[Main]][i] # first[r]}
  <2>1. /\ level[r] \in {"primary", "backup"} \union Chains
        /\ Free(r) /\ pos[r] > LastPos(r)
        /\ level' = [level EXCEPT ![r] = next]
        /\ rule' = [rule EXCEPT ![r] = IF next = "failed" THEN NoRule ELSE rules[Main]]
        /\ pos' = [pos EXCEPT ![r] = FirstPos(next)]
        /\ due' = IF next = "backup" THEN [due EXCEPT ![r] = begun] ELSE due
    BY <1>4 DEF NextLevel
  <2>2. \/ level[r] = "primary" /\ next = "backup"
        \/ level[r] = "backup" /\ next = "alternative"
        \/ level[r] = "alternative" /\ next = "fallback"
        \/ level[r] = "fallback" /\ next = "failed"
    BY <2>1 DEF Following, Chains
  <2> HIDE DEF next, begun
  <2>3. Tables' /\ Others(r)
    BY <1>0, <1>1, <2>1, <2>2 DEF Tables, Levels, Others, FirstPos
  <2>4. active[r] = <<>> /\ chosen[r] = NoKey /\ inflight[r] = NoKey
    BY <2>1 DEF Free
  <2>5. /\ level'[r] = next /\ pos'[r] = FirstPos(next)
        /\ next # "failed" => rule'[r] = rules[Main]
        /\ due'[r] = IF next = "backup" THEN begun ELSE due[r]
    BY <1>0, <2>1 DEF Tables
  <2>6. CASE next = "backup"
    <3>1. begun \subseteq {i \in Positions(rules[Main]) : i >= 2 \/ i = 1}
      <4>1. Len(APIKeys[rules[Main]]) \in Nat
        BY <1>0, FailoverAssumption DEF Tables
      <4> QED
        BY <4>1 DEF begun, Positions
    <3>2. \A i \in begun : IsActive(rules[Main], i)
      BY DEF begun
    <3>3. rules[Main] \in Rules
      BY <1>0 DEF Tables
    <3>4. level'[r] = "backup" /\ pos'[r] = 2 /\ rule'[r] = rules[Main] /\ due'[r] = begun
      BY <2>5, <2>6 DEF FirstPos
    <3>5. active'[r] = <<>> /\ chosen'[r] = NoKey /\ inflight'[r] = NoKey
      BY <1>1, <2>4
    <3>6. \A i \in due'[r] : status'[rule'[r]][i] = "active"
      BY <1>1, <3>2, <3>4 DEF IsActive
    <3>7. ReqInv(r)'
      BY <3>1, <3>3, <3>4, <3>5, <3>6 DEF ReqInv, GivenUp, Chains, Listed, IsActive
    <3> QED
      BY <1>1, <2>3, <3>7, KeptByRequest, CountsUnchanged
  <2>7. CASE next # "backup"
    <3>1. due[r] \subseteq {1}
      <4>1. CASE level[r] = "backup"
        <5>1. rule[r] \in Rules
          BY <1>0, <4>1 DEF ReqInv
        <5>3. LastPos(r) = Len(APIKeys[rule[r]])
          BY <4>1 DEF LastPos, Chains
        <5>2. Len(APIKeys[rule[r]]) \in Nat /\ pos[r] \in Nat
          BY <1>0, <5>1, FailoverAssumption DEF Tables
        <5> QED
          BY <1>0, <2>1, <4>1, <5>1, <5>2, <5>3 DEF ReqInv, Positions
      <4>2. CASE level[r] # "backup"
        BY <1>0, <2>2, <2>7, <4>2 DEF ReqInv, GivenUp, Chains
      <4> QED
        BY <4>1, <4>2
    <3>2. rules[Main] \in Rules
      BY <1>0 DEF Tables
    <3>3. ReqInv(r)'
      BY <1>0, <1>1, <2>2, <2>4, <2>5, <2>7, <3>1, <3>2 DEF ReqInv, GivenUp, Chains
    <3> QED
      BY <1>1, <2>3, <3>3, KeptByRequest, CountsUnchanged
  <2> QED
    BY <2>6, <2>7
<1> QED
  BY <1>2, <1>3, <1>4

\* Selecting: the level goes on, or its request has keys to choose from.
LEMMA SelectKeeps ==
    ASSUME Inv, NEW r \in Requests, NEW m \in Models, Free(r), Select(r, m),
           level[r] \in {"primary"} \union Chains
    PROVE  Inv'
<1>0. Tables /\ ReqInv(r)
  BY ByRequest DEF Inv
<1>1. UNCHANGED <<status, rules, roundRobin, inflight, level, rule, chosen, due, share>>
  BY DEF Select, cache, breaker, history
<1>2. CASE rules[m] = NoRule \/ ActiveKeys(rules[m]) = <<>>
  <2>1. pos' = [pos EXCEPT ![r] = @ + 1] /\ UNCHANGED <<source, active>>
    BY <1>2 DEF Select, Advance
  <2>2. Tables' /\ Others(r)
    BY <1>0, <1>1, <2>1 DEF Tables, Others
  <2>3. ReqInv(r)'
    BY <1>0, <1>1, <2>1 DEF ReqInv, GivenUp, Chains
  <2> QED
    BY <1>1, <2>2, <2>3, KeptByRequest, CountsUnchanged
<1>3. CASE ~(rules[m] = NoRule \/ ActiveKeys(rules[m]) = <<>>)
  <2>1. /\ source' = [source EXCEPT ![r] = rules[m]]
        /\ active' = [active EXCEPT ![r] = ActiveKeys(rules[m])]
        /\ UNCHANGED pos
    BY <1>3 DEF Select
  <2>2. rules[m] \in Rules
    BY <1>0, <1>3 DEF Tables
  <2>3. Listed(ActiveKeys(rules[m]))
    BY <2>2, ActiveKeysListed
  <2>4. Tables' /\ Others(r)
    BY <1>0, <1>1, <2>1, <2>2 DEF Tables, Others
  <2>5. /\ active'[r] = ActiveKeys(rules[m]) /\ source'[r] = rules[m]
        /\ chosen'[r] = NoKey /\ inflight'[r] = NoKey
    BY <1>0, <1>1, <2>1 DEF Tables, Free
  <2> HIDE DEF ActiveKeys
  <2>6. ReqInv(r)'
    BY <1>0, <1>1, <2>1, <2>2, <2>3, <2>5 DEF ReqInv, GivenUp, Chains
  <2> QED
    BY <1>1, <2>4, <2>6, KeptByRequest, CountsUnchanged
<1> QED
  BY <1>2, <1>3

\* The candidates of each level.
LEMMA TriesKeep ==
    ASSUME Inv, NEW r \in Requests, TryPrimary(r) \/ TryBackup(r) \/ TryChain(r)
    PROVE  Inv'
<1>0. Tables /\ ReqInv(r)
  BY ByRequest DEF Inv
<1>1. CASE TryPrimary(r)
  BY <1>1, SelectKeeps, FailoverAssumption DEF TryPrimary
<1>2. CASE TryChain(r)
  <2> DEFINE entry == FallbackChain[rule[r]][pos[r]]
  <2>1. level[r] \in Chains /\ Free(r) /\ pos[r] <= LastPos(r) /\ rule[r] \in Rules
    BY <1>0, <1>2 DEF TryChain, ReqInv
  <2>2. CASE Select(r, entry.model)
    <3>1. LastPos(r) = Len(FallbackChain[rule[r]])
      BY <2>1 DEF LastPos, Chains
    <3>2. FallbackChain[rule[r]] \in Seq([level : 1..3, model : Models])
      BY <2>1, FailoverAssumption
    <3>3. pos[r] \in 1 .. Len(FallbackChain[rule[r]])
      BY <1>0, <2>1, <3>1, <3>2 DEF Tables
    <3>4. \A E, s : s \in Seq(E) => \A i \in 1 .. Len(s) : s[i] \in E
      OBVIOUS
    <3>5. entry \in [level : 1..3, model : Models]
      BY <3>2, <3>3, <3>4
    <3>6. entry.model \in Models
      BY <3>5
    <3> QED
      BY <2>1, <2>2, <3>6, SelectKeeps
  <2>3. CASE /\ Advance(r)
             /\ UNCHANGED <<cache, roundRobin, breaker, level, rule, source, active, chosen, history>>
    <3>1. /\ pos' = [pos EXCEPT ![r] = @ + 1]
          /\ UNCHANGED <<status, rules, roundRobin, inflight, level, rule, source, active, chosen, due,
                         share>>
      BY <2>3 DEF Advance, cache, breaker, history
    <3>2. Tables' /\ Others(r)
      BY <1>0, <3>1 DEF Tables, Others
    <3>3. ReqInv(r)'
      BY <1>0, <2>1, <3>1 DEF ReqInv, GivenUp, Chains
    <3> QED
      BY <3>1, <3>2, <3>3, KeptByRequest, CountsUnchanged
  <2> QED
    BY <1>2, <2>2, <2>3 DEF TryChain
<1>3. CASE TryBackup(r)
  <2>1. /\ level[r] = "backup" /\ active[r] = <<>> /\ inflight[r] = NoKey
        /\ UNCHANGED <<status, rules, roundRobin, inflight, level, rule, source, active, due, share>>
    BY <1>3 DEF TryBackup, Free, cache, breaker, history
  <2>2. CASE IsActive(rule[r], pos[r])
    <3>1. chosen' = [chosen EXCEPT ![r] = APIKeys[rule[r]][pos[r]]] /\ UNCHANGED pos
      BY <1>3, <2>2 DEF TryBackup
    <3>2. Tables' /\ Others(r)
      BY <1>0, <2>1, <3>1 DEF Tables, Others
    <3>3. ReqInv(r)'
      BY <1>0, <2>1, <3>1 DEF ReqInv, GivenUp, Chains, IsActive
    <3> QED
      BY <2>1, <3>2, <3>3, KeptByRequest, CountsUnchanged
  <2>3. CASE ~IsActive(rule[r], pos[r])
    <3>1. pos' = [pos EXCEPT ![r] = @ + 1] /\ UNCHANGED chosen
      BY <1>3, <2>3 DEF TryBackup, Advance
    <3>2. Tables' /\ Others(r)
      BY <1>0, <2>1, <3>1 DEF Tables, Others
    <3>3. pos[r] \in Nat /\ pos'[r] = pos[r] + 1 /\ pos[r] \notin due[r]
      BY <1>0, <2>1, <2>3, <3>1 DEF Tables, ReqInv
    <3>4. rule[r] \in Rules /\ Positions(rule[r]) \subseteq Int
      BY <1>0, <2>1, FailoverAssumption DEF ReqInv, Positions
    <3>5. due[r] \subseteq {i \in Positions(rule[r]) : i >= pos[r] + 1 \/ i = 1}
      BY <1>0, <2>1, <3>3, <3>4 DEF ReqInv
    <3>6. ReqInv(r)'
      BY <1>0, <2>1, <3>1, <3>3, <3>5 DEF ReqInv, GivenUp, Chains, IsActive
    <3> QED
      BY <2>1, <3>2, <3>6, KeptByRequest, CountsUnchanged
  <2> QED
    BY <2>2, <2>3
<1> QED
  BY <1>1, <1>2, <1>3

LEMMA BalanceKeeps == ASSUME Inv, NEW r \in Requests, Balance(r) PROVE Inv'
<1>0. Tables /\ ReqInv(r)
  BY ByRequest DEF Inv
<1>1. /\ active[r] # <<>> /\ inflight[r] = NoKey
      /\ active' = [active EXCEPT ![r] = <<>>] /\ source' = [source EXCEPT ![r] = NoRule]
      /\ UNCHANGED <<status, rules, inflight, level, rule, pos, due>>
  BY <1>0 DEF Balance, ReqInv, cache, breaker
<1>2. DOMAIN chosen' = Requests /\ \A q \in Requests \ {r} : chosen'[q] = chosen[q]
  BY <1>0 DEF Balance, SelectInTurn, SelectAtRandom, SelectFirst, Tables
<1>3. roundRobin' \in [Models -> Nat] /\ (DOMAIN share = Models /\ CountsInTurn)'
  <2>1. CASE SelectInTurn(r)
    BY <1>1, <2>1, TurnKeepsCounts
  <2>2. CASE UNCHANGED <<roundRobin, share>>
    BY <1>0, <2>2, CountsUnchanged DEF Tables
  <2> QED
    BY <2>1, <2>2 DEF Balance, SelectAtRandom, SelectFirst
<1>4. Tables' /\ Others(r)
  BY <1>0, <1>1, <1>2, <1>3 DEF Tables, Others
<1>5. active'[r] = <<>>
  BY <1>0, <1>1 DEF Tables
<1>6. ReqInv(r)'
  BY <1>0, <1>1, <1>5 DEF ReqInv, GivenUp, Chains, Listed, IsActive
<1> QED
  BY <1>1, <1>3, <1>4, <1>6, KeptByRequest

\* The breaker answers, and the executor returns.
LEMMA AttemptsKeep ==
    ASSUME Inv, NEW r \in Requests, Admit(r) \/ Refuse(r) \/ Succeed(r) \/ Fail(r)
    PROVE  Inv'
<1>0. Tables /\ ReqInv(r)
  BY ByRequest DEF Inv
<1>1. UNCHANGED <<status, rules, roundRobin, source, active, share>>
  BY DEF Admit, Refuse, Succeed, Fail, cache, history
<1>2. pos[r] \in Nat
  BY <1>0 DEF Tables
<1>3. level[r] = "backup" => Positions(rule[r]) \subseteq Int
  BY <1>0, FailoverAssumption DEF ReqInv, Positions
<1>4. CASE Admit(r)
  <2>1. /\ chosen[r] # NoKey
        /\ inflight' = [inflight EXCEPT ![r] = chosen[r]]
        /\ chosen' = [chosen EXCEPT ![r] = NoKey]
        /\ due' = IF level[r] = "backup" THEN [due EXCEPT ![r] = @ \ {pos[r]}] ELSE due
        /\ UNCHANGED <<level, rule, pos>>
    BY <1>4 DEF Admit, Breaker!Admit, Asks
  <2>2. Tables' /\ Others(r)
    BY <1>0, <1>1, <2>1 DEF Tables, Others
  <2>3. active[r] = <<>> /\ chosen'[r] = NoKey
    BY <1>0, <2>1 DEF ReqInv, Tables
  <2>4. due'[r] = IF level[r] = "backup" THEN due[r] \ {pos[r]} ELSE due[r]
    BY <1>0, <2>1 DEF Tables
  <2>5. ReqInv(r)'
    BY <1>0, <1>1, <2>1, <2>3, <2>4 DEF ReqInv, GivenUp, Chains, IsActive
  <2> QED
    BY <1>1, <2>2, <2>5, KeptByRequest, CountsUnchanged
<1>5. CASE Refuse(r)
  <2>1. /\ chosen[r] # NoKey
        /\ chosen' = [chosen EXCEPT ![r] = NoKey]
        /\ due' = IF level[r] = "backup" THEN [due EXCEPT ![r] = @ \ {pos[r]}] ELSE due
        /\ pos' = [pos EXCEPT ![r] = @ + 1]
        /\ UNCHANGED <<level, rule, inflight>>
    BY <1>5 DEF Refuse, Asks, Advance, breaker
  <2>2. Tables' /\ Others(r)
    BY <1>0, <1>1, <2>1 DEF Tables, Others
  <2>3. active[r] = <<>> /\ inflight[r] = NoKey /\ pos'[r] = pos[r] + 1
    BY <1>0, <2>1 DEF ReqInv, Tables
  <2>4. due'[r] = IF level[r] = "backup" THEN due[r] \ {pos[r]} ELSE due[r]
    BY <1>0, <2>1 DEF Tables
  <2>5. level[r] = "backup" =>
          due'[r] \subseteq {i \in Positions(rule[r]) : i >= pos[r] + 1 \/ i = 1}
    BY <1>0, <1>2, <1>3, <2>4 DEF ReqInv
  <2>6. ReqInv(r)'
    BY <1>0, <1>1, <1>2, <2>1, <2>3, <2>4, <2>5 DEF ReqInv, GivenUp, Chains, IsActive
  <2> QED
    BY <1>1, <2>2, <2>6, KeptByRequest, CountsUnchanged
<1>6. CASE Succeed(r)
  <2>1. /\ inflight' = [inflight EXCEPT ![r] = NoKey]
        /\ level' = [level EXCEPT ![r] = "none"] /\ pos' = [pos EXCEPT ![r] = 1]
        /\ rule' = [rule EXCEPT ![r] = NoRule] /\ due' = [due EXCEPT ![r] = {}]
        /\ UNCHANGED chosen
    BY <1>6 DEF Succeed, Breaker!Succeed, Done
  <2>2. Tables' /\ Others(r)
    BY <1>0, <1>1, <2>1 DEF Tables, Others, Levels
  <2>3. ReqInv(r)'
    BY <1>0, <1>1, <2>1 DEF ReqInv, Tables, GivenUp, Chains
  <2> QED
    BY <1>1, <2>2, <2>3, KeptByRequest, CountsUnchanged
<1>7. CASE Fail(r)
  <2>1. /\ inflight[r] # NoKey
        /\ inflight' = [inflight EXCEPT ![r] = NoKey]
        /\ pos' = [pos EXCEPT ![r] = @ + 1]
        /\ UNCHANGED <<level, rule, due, chosen>>
    BY <1>7 DEF Fail, Breaker!Fail, Advance, history
  <2>2. Tables' /\ Others(r)
    BY <1>0, <1>1, <2>1 DEF Tables, Others
  <2>3. inflight'[r] = NoKey /\ pos'[r] = pos[r] + 1
    BY <1>0, <2>1 DEF Tables
  <2>4. level[r] = "backup" =>
          due[r] \subseteq {i \in Positions(rule[r]) : i >= pos[r] + 1 \/ i = 1}
    BY <1>0, <1>2, <1>3, <2>1 DEF ReqInv
  <2>5. ReqInv(r)'
    BY <1>0, <1>1, <1>2, <2>1, <2>3, <2>4 DEF ReqInv, GivenUp, Chains, IsActive
  <2> QED
    BY <1>1, <2>2, <2>5, KeptByRequest, CountsUnchanged
<1> QED
  BY <1>4, <1>5, <1>6, <1>7

------------------------------------------------------------------------------
(* The cache changes under the requests *)

LEMMA CacheKeeps ==
    ASSUME Inv, \E v \in Rules : Update(v) \/ \E i \in Positions(v) : ProbeKey(v, i)
    PROVE  Inv'
<1>0. Tables
  BY DEF Inv
<1>1. UNCHANGED <<roundRobin, inflight, level, rule, pos, source, active, chosen, due, share>>
  BY DEF Update, ProbeKey, breaker, requests, history
\* A key that is active stays so.
<1>2. /\ DOMAIN status' = Rules
      /\ \A v \in Rules : DOMAIN status'[v] = Positions(v)
      /\ \A v \in Rules : \A i \in Positions(v) : status[v][i] = "active" => status'[v][i] = "active"
  <2>1. CASE \E v \in Rules : Update(v)
    BY <1>0, <2>1 DEF Update, Tables
  <2>2. ASSUME NEW v \in Rules, NEW i \in Positions(v), ProbeKey(v, i)
        PROVE /\ DOMAIN status' = Rules
              /\ \A u \in Rules : DOMAIN status'[u] = Positions(u)
              /\ \A u \in Rules : \A j \in Positions(u) :
                    status[u][j] = "active" => status'[u][j] = "active"
    <3>1. status' = [status EXCEPT ![v] = [status[v] EXCEPT ![i] = "active"]]
      BY <2>2 DEF ProbeKey
    <3> QED
      BY <1>0, <3>1 DEF Tables
  <2> QED
    BY <2>1, <2>2
<1>3. rules' \in [Models -> Rules \union {NoRule}] /\ rules'[Main] \in Rules
  <2>1. rules \in [Models -> Rules \union {NoRule}] /\ rules[Main] \in Rules
    BY <1>0 DEF Tables
  <2>2. ASSUME NEW v \in Rules, Update(v)
        PROVE  rules' \in [Models -> Rules \union {NoRule}] /\ rules'[Main] \in Rules
    <3>1. rules' = [rules EXCEPT ![ModelOf[v]] = v]
      BY <2>2 DEF Update
    <3> QED
      BY <2>1, <3>1, FailoverAssumption
  <2>3. ASSUME NEW v \in Rules, NEW i \in Positions(v), ProbeKey(v, i)
        PROVE  rules' = rules
    BY <2>3 DEF ProbeKey
  <2> QED
    BY <2>1, <2>2, <2>3
<1>4. Tables'
  BY <1>0, <1>1, <1>2, <1>3 DEF Tables
<1>5. ASSUME NEW r \in Requests PROVE ReqInv(r)'
  <2>1. ReqInv(r)
    BY ByRequest DEF Inv
  <2>2. level[r] = "backup" => \A i \in due[r] : status'[rule[r]][i] = "active"
    BY <1>2, <2>1 DEF ReqInv, IsActive
  <2> QED
    BY <1>1, <2>1, <2>2 DEF ReqInv, IsActive, GivenUp
<1>6. (OneThing /\ DueToCome /\ GivesUpExhausted)'
  BY <1>5 DEF OneThing, DueToCome, GivesUpExhausted, ReqInv
<1> QED
  BY <1>1, <1>4, <1>6, CountsUnchanged DEF Inv

LEMMA InvStep == Inv /\ [Next]_vars => Inv'
<1> SUFFICES ASSUME Inv, [Next]_vars PROVE Inv'
  OBVIOUS
<1>1. ASSUME NEW r \in Requests, Begin(r) \/ RequestStep(r) PROVE Inv'
  BY <1>1, LevelsKeep, TriesKeep, BalanceKeeps, AttemptsKeep DEF RequestStep
<1>2. CASE \E v \in Rules : Update(v) \/ \E i \in Positions(v) : ProbeKey(v, i)
  BY <1>2, CacheKeeps
<1>3. CASE UNCHANGED vars
  BY <1>3 DEF vars, cache, breaker, requests, history, Inv, Tables, OneThing, DueToCome,
        GivesUpExhausted, CountsInTurn, GivenUp, IsActive
<1> QED
  BY <1>1, <1>2, <1>3 DEF Next

LEMMA Invariant == Spec => []Inv
  BY InitInv, InvStep, PTL DEF Spec

------------------------------------------------------------------------------
(* Types *)

LEMMA LessIsWellFounded ==
    IsWellFoundedOn({ss \in Nat \X Nat : ss[1] < ss[2]}, Nat)
  BY NatLessThanWellFounded DEF OpToRel

\* Induction over Nat, with a set for the property.
LEMMA Induction ==
    ASSUME NEW P, 0 \in P, \A n \in Nat : n \in P => n + 1 \in P
    PROVE  Nat \subseteq P
<1> DEFINE Outside == Nat \ P
           Less == {ss \in Nat \X Nat : ss[1] < ss[2]}
<1>1. SUFFICES ASSUME Outside # {} PROVE FALSE
  OBVIOUS
<1>2. Outside \subseteq Nat
  OBVIOUS
<1>3. \E n \in Outside : \A m \in Outside : <<m, n>> \notin Less
  <2>1. IsWellFoundedOn(Less, Nat)
    BY LessIsWellFounded
  <2> HIDE DEF Outside, Less
  <2> QED
    BY <1>1, <1>2, <2>1, WFMin
<1>4. PICK n \in Outside : \A m \in Outside : <<m, n>> \notin Less
  BY <1>3
<1>5. n \in Nat /\ n # 0
  OBVIOUS
<1>6. n - 1 \in Nat /\ n - 1 < n /\ (n - 1) + 1 = n
  BY <1>5
<1>7. n - 1 \in Outside
  BY <1>4, <1>6
<1> QED
  BY <1>4, <1>6, <1>7

Below(S, i) == {j \in S : j < i}

\* Of the n-th of a set of positions there are n - 1 before it.
LEMMA Ranked ==
    ASSUME NEW top \in Nat, NEW S \in SUBSET (1 .. top), NEW n \in 1 .. Cardinality(S)
    PROVE  \E i \in S : Cardinality(Below(S, i)) = n - 1
<1> DEFINE P == {m \in Nat : \A T \in SUBSET (1 .. m) : \A k \in 1 .. Cardinality(T) :
                                \E i \in T : Cardinality(Below(T, i)) = k - 1}
<1>1. 0 \in P
  <2>1. \A T \in SUBSET (1 .. 0) : T = {}
    OBVIOUS
  <2> QED
    BY <2>1, FS_EmptySet
<1>2. ASSUME NEW m \in Nat, m \in P PROVE m + 1 \in P
  <2>1. SUFFICES ASSUME NEW T \in SUBSET (1 .. m + 1), NEW k \in 1 .. Cardinality(T)
                 PROVE  \E i \in T : Cardinality(Below(T, i)) = k - 1
    OBVIOUS
  <2> DEFINE R == T \ {m + 1}
  <2>2. R \in SUBSET (1 .. m)
    OBVIOUS
  <2>3. IsFiniteSet(T) /\ Cardinality(T) \in Nat
    <3>1. IsFiniteSet(1 .. m + 1)
      BY FS_Interval
    <3> QED
      BY <3>1, FS_Subset, FS_CardinalityType
  <2>4. Cardinality(R) = IF m + 1 \in T THEN Cardinality(T) - 1 ELSE Cardinality(T)
    BY <2>3, FS_RemoveElement
  <2>5. \A i \in R : Below(T, i) = Below(R, i)
    BY DEF Below
  <2>6. CASE k \in 1 .. Cardinality(R)
    <3>1. PICK i \in R : Cardinality(Below(R, i)) = k - 1
      BY <1>2, <2>2, <2>6
    <3> QED
      BY <2>5, <3>1
  <2>7. CASE k \notin 1 .. Cardinality(R)
    <3>1. m + 1 \in T /\ k = Cardinality(T)
      BY <2>3, <2>4, <2>7
    <3>2. Below(T, m + 1) = R
      <4>1. \A j \in T : j \in Nat /\ j <= m + 1
        OBVIOUS
      <4>2. \A j \in T : j < m + 1 <=> j # m + 1
        BY <4>1
      <4> QED
        BY <4>2 DEF Below
    <3> QED
      BY <2>3, <2>4, <3>1, <3>2
  <2> QED
    BY <2>6, <2>7
<1>3. Nat \subseteq P
  <2> HIDE DEF P
  <2> QED
    BY <1>1, <1>2, Induction
<1> QED
  BY <1>3

\* The active keys of a rule are some of its keys.
LEMMA ActiveKeysTyped ==
    ASSUME NEW v \in Rules
    PROVE  /\ ActiveKeys(v) \in Seq(Keys)
           /\ Len(ActiveKeys(v)) \in Nat /\ Len(ActiveKeys(v)) <= Len(APIKeys[v])
<1> DEFINE S == ActivePositions(v)
           n == Cardinality(S)
           at(k) == CHOOSE i \in S : Cardinality({j \in S : j < i}) = k - 1
<1>1. Len(APIKeys[v]) \in Nat /\ \A i \in Positions(v) : APIKeys[v][i] \in Keys
  <2>1. APIKeys[v] \in Seq(Keys)
    BY FailoverAssumption
  <2> QED
    BY <2>1 DEF Positions
<1>2. S \in SUBSET (1 .. Len(APIKeys[v]))
  BY DEF ActivePositions, Positions
<1>3. n \in Nat /\ n <= Len(APIKeys[v])
  <2>1. IsFiniteSet(1 .. Len(APIKeys[v])) /\ Cardinality(1 .. Len(APIKeys[v])) = Len(APIKeys[v])
    BY <1>1, FS_Interval
  <2> HIDE DEF S
  <2>2. IsFiniteSet(S) /\ Cardinality(S) <= Cardinality(1 .. Len(APIKeys[v]))
    BY <1>2, <2>1, FS_Subset
  <2> QED
    BY <2>1, <2>2, FS_CardinalityType
<1>4. ASSUME NEW k \in 1 .. n PROVE APIKeys[v][at(k)] \in Keys
  <2>1. \E i \in S : Cardinality({j \in S : j < i}) = k - 1
    <3> HIDE DEF S
    <3> QED
      BY <1>1, <1>2, Ranked DEF Below
  <2>2. at(k) \in S
    BY <2>1
  <2> QED
    BY <1>1, <2>2 DEF ActivePositions
<1>5. ActiveKeys(v) = [k \in 1 .. n |-> APIKeys[v][at(k)]]
  BY DEF ActiveKeys
<1> HIDE DEF n, at, S
<1>6. ActiveKeys(v) \in [1 .. n -> Keys]
  BY <1>4, <1>5
<1>7. ActiveKeys(v) \in Seq(Keys) /\ Len(ActiveKeys(v)) = n
  BY <1>3, <1>6
<1> QED
  BY <1>3, <1>7

\* What the breaker does.
LEMMA AdmitTyped ==
    ASSUME Breaker!TypeOK, NEW r \in Requests, NEW k \in Keys, Breaker!Admit(r, k)
    PROVE  Breaker!TypeOK'
<1> USE DEF Breaker!TypeOK, Breaker!CircuitState, Breaker!ProbeLimit
<1>1. inflight' = [inflight EXCEPT ![r] = k]
  BY DEF Breaker!Admit
<1>2. CASE UNCHANGED <<state, probes>>
  BY <1>1, <1>2
<1>3. CASE state' = [state EXCEPT ![k] = "halfOpen"] /\ probes' = [probes EXCEPT ![k] = 1]
  BY <1>1, <1>3, FailoverAssumption
<1>4. CASE probes[k] < MaxRequests + 1 /\ probes' = [probes EXCEPT ![k] = @ + 1] /\ UNCHANGED state
  BY <1>1, <1>4, FailoverAssumption
<1> QED
  BY <1>2, <1>3, <1>4 DEF Breaker!Admit

LEMMA RecordTyped ==
    ASSUME Breaker!TypeOK, NEW r \in Requests, NEW k, Breaker!Succeed(r, k) \/ Breaker!Fail(r, k)
    PROVE  Breaker!TypeOK'
<1> USE DEF Breaker!TypeOK, Breaker!CircuitState, Breaker!ProbeLimit
<1>1. inflight' = [inflight EXCEPT ![r] = NoKey]
  BY DEF Breaker!Succeed, Breaker!Fail
<1>2. state' \in [Keys -> {"closed", "open", "halfOpen"}]
  BY DEF Breaker!Succeed, Breaker!Fail
<1>3. probes' \in [Keys -> 0 .. MaxRequests + 1]
  BY FailoverAssumption DEF Breaker!Succeed, Breaker!Fail
<1> QED
  BY <1>1, <1>2, <1>3

\* A request reads its fallback chain within its bounds.
LEMMA EntryTyped ==
    ASSUME Tables, NEW r \in Requests, ReqInv(r), TryChain(r)
    PROVE  FallbackChain[rule[r]][pos[r]].model \in Models
<1>1. level[r] \in Chains /\ pos[r] <= LastPos(r) /\ rule[r] \in Rules /\ pos[r] \in Nat \ {0}
  BY DEF TryChain, ReqInv, Tables
<1>2. LastPos(r) = Len(FallbackChain[rule[r]])
  BY <1>1 DEF LastPos, Chains
<1>3. FallbackChain[rule[r]] \in Seq([level : 1..3, model : Models])
  BY <1>1, FailoverAssumption
<1>4. pos[r] \in 1 .. Len(FallbackChain[rule[r]])
  BY <1>1, <1>2, <1>3
<1>5. \A E, s : s \in Seq(E) => \A i \in 1 .. Len(s) : s[i] \in E
  OBVIOUS
<1>6. FallbackChain[rule[r]][pos[r]] \in [level : 1..3, model : Models]
  BY <1>3, <1>4, <1>5
<1> QED
  BY <1>6

CacheTypes ==
    /\ rules \in [Models -> Rules \union {NoRule}]
    /\ \A m \in Models : rules[m] # NoRule => ModelOf[rules[m]] = m
    /\ used \in SUBSET Rules
    /\ \A v \in Rules : status[v] \in [Positions(v) -> KeyStatus]

TurnTypes ==
    /\ roundRobin \in [Models -> Nat]
    /\ \A m \in Models : roundRobin[m] = 0 \/ \E v \in RulesOf(m) : roundRobin[m] < Len(APIKeys[v])

AllPositions == UNION {Positions(v) : v \in Rules}

RequestTypes ==
    /\ level \in [Requests -> Levels]
    /\ rule \in [Requests -> RulesOf(Main) \union {NoRule}]
    /\ pos \in [Requests -> Nat \ {0}]
    /\ source \in [Requests -> Rules \union {NoRule}]
    /\ active \in [Requests -> Seq(Keys)]
    /\ chosen \in [Requests -> Keys \union {NoKey}]

HistoryTypes ==
    /\ first \in [Requests -> Keys \union {NoKey}]
    /\ due \in [Requests -> SUBSET AllPositions]

LEMMA TypesByGroup ==
    TypeOK <=> Breaker!TypeOK /\ CacheTypes /\ TurnTypes /\ RequestTypes /\ HistoryTypes
  BY DEF TypeOK, CacheTypes, TurnTypes, RequestTypes, HistoryTypes, AllPositions

\* A request selects among no more keys than the rule has: what it leaves in
\* roundRobin is the place of one of them.
ShortLists == \A r \in Requests : active[r] # <<>> => Len(active[r]) <= Len(APIKeys[source[r]])

Typed == TypeOK /\ ShortLists

LEMMA TypedNext ==
    ASSUME Breaker!TypeOK', CacheTypes', TurnTypes', RequestTypes', HistoryTypes', ShortLists'
    PROVE  Typed'
  BY DEF Typed, TypeOK, CacheTypes, TurnTypes, RequestTypes, HistoryTypes, AllPositions

LEMMA InitTyped == Init => Typed
<1> SUFFICES ASSUME Init PROVE Typed
  OBVIOUS
<1>1. Breaker!TypeOK
  BY FailoverAssumption DEF Init, Breaker!Init, Breaker!TypeOK, Breaker!CircuitState, Breaker!ProbeLimit
<1>2. CacheTypes /\ TurnTypes
  BY FailoverAssumption DEF Init, CacheTypes, TurnTypes
<1>3. RequestTypes /\ HistoryTypes
  BY DEF Init, RequestTypes, HistoryTypes, Levels
<1>4. ShortLists
  BY DEF Init, ShortLists
<1> QED
  BY <1>1, <1>2, <1>3, <1>4, TypesByGroup DEF Typed

\* Where a level's rule is the model's own.
LEMMA MainRule ==
    ASSUME Inv, CacheTypes
    PROVE  rules[Main] \in RulesOf(Main) /\ Positions(rules[Main]) \in SUBSET AllPositions
  BY FailoverAssumption DEF Inv, Tables, CacheTypes, RulesOf, AllPositions

LEMMA LevelsTyped ==
    ASSUME Inv, Typed, NEW r \in Requests, Begin(r) \/ NextLevel(r) \/ Finish(r)
    PROVE  Typed'
<1>0. Breaker!TypeOK /\ CacheTypes /\ TurnTypes /\ RequestTypes /\ HistoryTypes /\ ShortLists
  BY TypesByGroup DEF Typed
<1>1. UNCHANGED <<cache, roundRobin, breaker, source, active, chosen>>
  BY DEF Begin, NextLevel, Finish
<1>2. Breaker!TypeOK' /\ CacheTypes' /\ TurnTypes' /\ ShortLists'
  BY <1>0, <1>1 DEF Breaker!TypeOK, CacheTypes, TurnTypes, ShortLists, cache, breaker
<1>3. RequestTypes' /\ HistoryTypes'
  <2>1. CASE Begin(r)
    BY <1>0, <1>1, <2>1 DEF Begin, RequestTypes, HistoryTypes, Levels, history
  <2>2. CASE Finish(r)
    BY <1>0, <1>1, <2>2 DEF Finish, Done, RequestTypes, HistoryTypes, Levels
  <2>3. CASE NextLevel(r)
    <3> DEFINE next == Following(level[r])
               begun == {i \in Positions(rules[Main]) :
                            IsActive(rules[Main], i) /\ APIKeys[rules[Main]][i] # first[r]}
    <3>1. /\ level[r] \in {"primary", "backup"} \union Chains
          /\ level' = [level EXCEPT ![r] = next]
          /\ rule' = [rule EXCEPT ![r] = IF next = "failed" THEN NoRule ELSE rules[Main]]
          /\ pos' = [pos EXCEPT ![r] = FirstPos(next)]
          /\ due' = IF next = "backup" THEN [due EXCEPT ![r] = begun] ELSE due
          /\ first' = [first EXCEPT ![r] = NoKey]
      BY <2>3 DEF NextLevel
    <3>2. next \in Levels
      BY <3>1 DEF Following, Chains, Levels
    <3>3. rules[Main] \in RulesOf(Main) /\ begun \in SUBSET AllPositions
      BY <1>0, MainRule
    <3>4. FirstPos(next) \in Nat \ {0}
      BY DEF FirstPos
    <3> HIDE DEF next, begun
    <3>5. RequestTypes'
      BY <1>0, <1>1, <3>1, <3>2, <3>3, <3>4 DEF RequestTypes
    <3>6. HistoryTypes'
      BY <1>0, <3>1, <3>3 DEF HistoryTypes
    <3> QED
      BY <3>5, <3>6
  <2> QED
    BY <2>1, <2>2, <2>3
<1> QED
  BY <1>2, <1>3, TypedNext

LEMMA SelectTyped ==
    ASSUME Inv, Typed, NEW r \in Requests, NEW m \in Models, Select(r, m)
    PROVE  Typed'
<1>0. Breaker!TypeOK /\ CacheTypes /\ TurnTypes /\ RequestTypes /\ HistoryTypes /\ ShortLists
  BY TypesByGroup DEF Typed
<1>1. UNCHANGED <<cache, roundRobin, breaker, level, rule, chosen, history>>
  BY DEF Select
<1>2. Breaker!TypeOK' /\ CacheTypes' /\ TurnTypes' /\ HistoryTypes'
  BY <1>0, <1>1 DEF Breaker!TypeOK, CacheTypes, TurnTypes, HistoryTypes, cache, breaker, history
<1>3. CASE rules[m] = NoRule \/ ActiveKeys(rules[m]) = <<>>
  <2>1. pos' = [pos EXCEPT ![r] = @ + 1] /\ UNCHANGED <<source, active>>
    BY <1>3 DEF Select, Advance
  <2>2. RequestTypes' /\ ShortLists'
    BY <1>0, <1>1, <2>1 DEF RequestTypes, ShortLists
  <2> QED
    BY <1>2, <2>2, TypedNext
<1>4. CASE ~(rules[m] = NoRule \/ ActiveKeys(rules[m]) = <<>>)
  <2>1. /\ source' = [source EXCEPT ![r] = rules[m]]
        /\ active' = [active EXCEPT ![r] = ActiveKeys(rules[m])]
        /\ UNCHANGED pos
    BY <1>4 DEF Select
  <2>2. rules[m] \in Rules
    BY <1>0, <1>4 DEF CacheTypes
  <2>3. /\ ActiveKeys(rules[m]) \in Seq(Keys)
        /\ Len(ActiveKeys(rules[m])) <= Len(APIKeys[rules[m]])
    BY <2>2, ActiveKeysTyped
  <2> HIDE DEF ActiveKeys
  <2>4. RequestTypes'
    BY <1>0, <1>1, <2>1, <2>2, <2>3 DEF RequestTypes
  <2>5. ShortLists'
    BY <1>0, <2>1, <2>3 DEF ShortLists, RequestTypes
  <2> QED
    BY <1>2, <2>4, <2>5, TypedNext
<1> QED
  BY <1>3, <1>4

LEMMA TriesTyped ==
    ASSUME Inv, Typed, NEW r \in Requests, TryPrimary(r) \/ TryBackup(r) \/ TryChain(r)
    PROVE  Typed'
<1>0. Breaker!TypeOK /\ CacheTypes /\ TurnTypes /\ RequestTypes /\ HistoryTypes /\ ShortLists
  BY TypesByGroup DEF Typed
<1>a. Tables /\ ReqInv(r)
  BY ByRequest DEF Inv
<1>1. ASSUME Advance(r), UNCHANGED <<cache, roundRobin, breaker, level, rule, source, active, chosen, history>>
      PROVE  Typed'
  <2>1. pos' = [pos EXCEPT ![r] = @ + 1]
    BY <1>1 DEF Advance
  <2>2. RequestTypes' /\ ShortLists'
    BY <1>0, <1>1, <2>1 DEF RequestTypes, ShortLists
  <2>3. Breaker!TypeOK' /\ CacheTypes' /\ TurnTypes' /\ HistoryTypes'
    BY <1>0, <1>1 DEF Breaker!TypeOK, CacheTypes, TurnTypes, HistoryTypes, cache, breaker, history
  <2> QED
    BY <2>2, <2>3, TypedNext
<1>2. CASE TryPrimary(r)
  BY <1>2, SelectTyped, FailoverAssumption DEF TryPrimary
<1>3. CASE TryChain(r)
  <2> DEFINE entry == FallbackChain[rule[r]][pos[r]]
  <2>1. CASE Select(r, entry.model)
    <3>1. entry.model \in Models
      BY <1>3, <1>a, EntryTyped
    <3> QED
      BY <2>1, <3>1, SelectTyped
  <2> QED
    BY <1>1, <1>3, <2>1 DEF TryChain
<1>4. CASE TryBackup(r)
  <2>1. CASE IsActive(rule[r], pos[r])
    <3>1. /\ chosen' = [chosen EXCEPT ![r] = APIKeys[rule[r]][pos[r]]]
          /\ UNCHANGED <<cache, roundRobin, breaker, level, rule, pos, source, active, history>>
      BY <1>4, <2>1 DEF TryBackup
    <3>2. APIKeys[rule[r]][pos[r]] \in Keys
      <4>1. rule[r] \in Rules /\ level[r] = "backup" /\ pos[r] <= LastPos(r) /\ pos[r] \in Nat \ {0}
        BY <1>4, <1>a DEF TryBackup, ReqInv, Tables
      <4>2. LastPos(r) = Len(APIKeys[rule[r]])
        BY <4>1 DEF LastPos, Chains
      <4>3. APIKeys[rule[r]] \in Seq(Keys)
        BY <4>1, FailoverAssumption
      <4> QED
        BY <4>1, <4>2, <4>3
    <3>3. RequestTypes' /\ ShortLists'
      BY <1>0, <3>1, <3>2 DEF RequestTypes, ShortLists
    <3>4. Breaker!TypeOK' /\ CacheTypes' /\ TurnTypes' /\ HistoryTypes'
      BY <1>0, <3>1 DEF Breaker!TypeOK, CacheTypes, TurnTypes, HistoryTypes, cache, breaker, history
    <3> QED
      BY <3>3, <3>4, TypedNext
  <2>2. CASE ~IsActive(rule[r], pos[r])
    BY <1>1, <1>4, <2>2 DEF TryBackup
  <2> QED
    BY <2>1, <2>2
<1> QED
  BY <1>2, <1>3, <1>4

LEMMA BalanceTyped == ASSUME Inv, Typed, NEW r \in Requests, Balance(r) PROVE Typed'
<1>0. Breaker!TypeOK /\ CacheTypes /\ TurnTypes /\ RequestTypes /\ HistoryTypes /\ ShortLists
  BY TypesByGroup DEF Typed
<1>1. /\ active[r] # <<>>
      /\ active' = [active EXCEPT ![r] = <<>>] /\ source' = [source EXCEPT ![r] = NoRule]
      /\ UNCHANGED <<cache, breaker, level, rule, pos, first, due>>
  BY DEF Balance
<1> DEFINE m == ModelOf[source[r]]
           n == Len(active[r])
<1>2. /\ source[r] \in Rules /\ m \in Models /\ source[r] \in RulesOf(m)
      /\ n \in Nat \ {0} /\ n <= Len(APIKeys[source[r]])
      /\ \A i \in 1 .. n : active[r][i] \in Keys
  <2>1. source[r] \in Rules
    BY <1>1 DEF Inv, OneThing
  <2>2. active[r] \in Seq(Keys)
    BY <1>0 DEF RequestTypes
  <2> QED
    BY <1>0, <1>1, <2>1, <2>2, FailoverAssumption DEF RulesOf, ShortLists
<1>3. TurnTypes' /\ \E i \in 1 .. n : chosen' = [chosen EXCEPT ![r] = active[r][i]]
  <2>1. CASE SelectInTurn(r)
    <3> DEFINE c == roundRobin[m] % n
               next == (roundRobin[m] + 1) % n
    <3>1. roundRobin[m] \in Nat
      BY <1>0, <1>2 DEF TurnTypes
    <3>2. c + 1 \in 1 .. n /\ next \in 0 .. n - 1
      <4>1. PICK a \in Nat : a = roundRobin[m]
        BY <3>1
      <4>2. PICK d \in Nat \ {0} : d = n
        BY <1>2
      <4>3. a % d \in 0 .. d - 1 /\ (a + 1) % d \in 0 .. d - 1
        BY NextInCircle
      <4>4. (a % d) + 1 \in 1 .. d
        BY <4>3
      <4> QED
        BY <4>1, <4>2, <4>3, <4>4
    <3>3. /\ chosen' = [chosen EXCEPT ![r] = active[r][c + 1]]
          /\ roundRobin' = [roundRobin EXCEPT ![m] = next]
      BY <1>0, <1>2, <2>1 DEF SelectInTurn, NextIndex, TurnTypes
    <3> HIDE DEF c, next, m, n
    <3>4. next \in Nat /\ next < Len(APIKeys[source[r]])
      <4>1. Len(APIKeys[source[r]]) \in Nat
        BY <1>2, FailoverAssumption
      <4> QED
        BY <1>2, <3>2, <4>1
    <3>5. roundRobin' \in [Models -> Nat]
      BY <1>0, <1>2, <3>3, <3>4 DEF TurnTypes
    <3>6. roundRobin'[m] = next /\ \A x \in Models \ {m} : roundRobin'[x] = roundRobin[x]
      BY <1>0, <1>2, <3>3 DEF TurnTypes
    <3>7. ASSUME NEW x \in Models
          PROVE roundRobin'[x] = 0 \/ \E v \in RulesOf(x) : roundRobin'[x] < Len(APIKeys[v])
      BY <1>0, <1>2, <3>4, <3>6 DEF TurnTypes
    <3>8. TurnTypes'
      BY <3>5, <3>7 DEF TurnTypes
    <3> QED
      BY <3>2, <3>3, <3>8
  <2>2. CASE SelectAtRandom(r)
    <3>1. roundRobin' = roundRobin /\ \E i \in DOMAIN active[r] : chosen' = [chosen EXCEPT ![r] = active[r][i]]
      BY <2>2 DEF SelectAtRandom
    <3>2. DOMAIN active[r] = 1 .. n
      BY <1>0 DEF RequestTypes
    <3> QED
      BY <1>0, <3>1, <3>2 DEF TurnTypes
  <2>3. CASE SelectFirst(r)
    <3>1. roundRobin' = roundRobin /\ chosen' = [chosen EXCEPT ![r] = active[r][1]]
      BY <2>3 DEF SelectFirst
    <3>2. 1 \in 1 .. n
      BY <1>2
    <3> QED
      BY <1>0, <3>1, <3>2 DEF TurnTypes
  <2> QED
    BY <2>1, <2>2, <2>3 DEF Balance
<1>4. RequestTypes'
  <2>1. PICK i \in 1 .. n : chosen' = [chosen EXCEPT ![r] = active[r][i]]
    BY <1>3
  <2>2. active[r][i] \in Keys
    BY <1>2
  <2>3. <<>> \in Seq(Keys)
    OBVIOUS
  <2> QED
    BY <1>0, <1>1, <2>1, <2>2, <2>3 DEF RequestTypes
<1>5. Breaker!TypeOK' /\ CacheTypes' /\ HistoryTypes'
  BY <1>0, <1>1 DEF Breaker!TypeOK, CacheTypes, HistoryTypes, cache, breaker
<1>6. ShortLists'
  BY <1>0, <1>1 DEF ShortLists, RequestTypes
<1> QED
  BY <1>3, <1>4, <1>5, <1>6, TypedNext

LEMMA AttemptsTyped ==
    ASSUME Inv, Typed, NEW r \in Requests, Admit(r) \/ Refuse(r) \/ Succeed(r) \/ Fail(r)
    PROVE  Typed'
<1>0. Breaker!TypeOK /\ CacheTypes /\ TurnTypes /\ RequestTypes /\ HistoryTypes /\ ShortLists
  BY TypesByGroup DEF Typed
<1>1. UNCHANGED <<cache, roundRobin, source, active>>
  BY DEF Admit, Refuse, Succeed, Fail
<1>2. CacheTypes' /\ TurnTypes' /\ ShortLists'
  BY <1>0, <1>1 DEF CacheTypes, TurnTypes, ShortLists, cache
<1>3. Asks(r) => HistoryTypes'
  BY <1>0 DEF Asks, HistoryTypes, RequestTypes
<1>4. CASE Admit(r)
  <2>1. chosen[r] \in Keys
    BY <1>0, <1>4 DEF Admit, RequestTypes
  <2>2. Breaker!TypeOK'
    BY <1>0, <1>4, <2>1, AdmitTyped DEF Admit
  <2>3. RequestTypes'
    BY <1>0, <1>1, <1>4 DEF Admit, RequestTypes
  <2> QED
    BY <1>2, <1>3, <1>4, <2>2, <2>3, TypedNext DEF Admit
<1>5. CASE Refuse(r)
  <2>1. Breaker!TypeOK'
    BY <1>0, <1>5 DEF Refuse, breaker, Breaker!TypeOK
  <2>2. RequestTypes'
    BY <1>0, <1>1, <1>5 DEF Refuse, Advance, RequestTypes
  <2> QED
    BY <1>2, <1>3, <1>5, <2>1, <2>2, TypedNext DEF Refuse
<1>6. CASE Succeed(r)
  <2>1. Breaker!TypeOK'
    BY <1>0, <1>6, RecordTyped DEF Succeed, Breaker!TypeOK
  <2>2. RequestTypes' /\ HistoryTypes'
    BY <1>0, <1>1, <1>6 DEF Succeed, Done, RequestTypes, HistoryTypes, Levels
  <2> QED
    BY <1>2, <2>1, <2>2, TypedNext
<1>7. CASE Fail(r)
  <2>1. Breaker!TypeOK'
    BY <1>0, <1>7, RecordTyped DEF Fail, Breaker!TypeOK
  <2>2. RequestTypes' /\ HistoryTypes'
    BY <1>0, <1>1, <1>7 DEF Fail, Advance, RequestTypes, HistoryTypes, history
  <2> QED
    BY <1>2, <2>1, <2>2, TypedNext
<1> QED
  BY <1>4, <1>5, <1>6, <1>7

LEMMA UpdateTyped == ASSUME Inv, Typed, NEW v \in Rules, Update(v) PROVE Typed'
<1>0. Breaker!TypeOK /\ CacheTypes /\ TurnTypes /\ RequestTypes /\ HistoryTypes /\ ShortLists
  BY TypesByGroup DEF Typed
<1>1. /\ rules' = [rules EXCEPT ![ModelOf[v]] = v] /\ used' = used \union {v}
      /\ UNCHANGED <<status, roundRobin, breaker, requests, history>>
  BY DEF Update
<1>2. CacheTypes'
  BY <1>0, <1>1, FailoverAssumption DEF CacheTypes
<1>3. Breaker!TypeOK' /\ TurnTypes' /\ RequestTypes' /\ HistoryTypes' /\ ShortLists'
  BY <1>0, <1>1
     DEF Breaker!TypeOK, TurnTypes, RequestTypes, HistoryTypes, ShortLists, breaker, requests, history
<1> QED
  BY <1>2, <1>3, TypedNext

LEMMA ProbeTyped ==
    ASSUME Inv, Typed, NEW v \in Rules, NEW i \in Positions(v), ProbeKey(v, i)
    PROVE  Typed'
<1>0. Breaker!TypeOK /\ CacheTypes /\ TurnTypes /\ RequestTypes /\ HistoryTypes /\ ShortLists
  BY TypesByGroup DEF Typed
<1>1. /\ status' = [status EXCEPT ![v] = [status[v] EXCEPT ![i] = "active"]]
      /\ UNCHANGED <<rules, used, roundRobin, breaker, requests, history>>
  BY DEF ProbeKey
<1>2. DOMAIN status = Rules
  BY DEF Inv, Tables
<1>3. \A u \in Rules : status'[u] \in [Positions(u) -> KeyStatus]
  BY <1>0, <1>1, <1>2 DEF CacheTypes, KeyStatus
<1>4. CacheTypes'
  BY <1>0, <1>1, <1>3 DEF CacheTypes
<1>5. Breaker!TypeOK' /\ TurnTypes' /\ RequestTypes' /\ HistoryTypes' /\ ShortLists'
  BY <1>0, <1>1
     DEF Breaker!TypeOK, TurnTypes, RequestTypes, HistoryTypes, ShortLists, breaker, requests, history
<1> QED
  BY <1>4, <1>5, TypedNext

LEMMA TypedStep == Inv /\ Typed /\ [Next]_vars => Typed'
<1> SUFFICES ASSUME Inv, Typed, [Next]_vars PROVE Typed'
  OBVIOUS
<1>1. ASSUME NEW r \in Requests, Begin(r) \/ RequestStep(r) PROVE Typed'
  BY <1>1, LevelsTyped, TriesTyped, BalanceTyped, AttemptsTyped DEF RequestStep
<1>2. CASE \E v \in Rules : Update(v) \/ \E i \in Positions(v) : ProbeKey(v, i)
  BY <1>2, UpdateTyped, ProbeTyped
<1>3. CASE UNCHANGED vars
  BY <1>3 DEF vars, cache, breaker, requests, history, Typed, TypeOK, Breaker!TypeOK, ShortLists
<1> QED
  BY <1>1, <1>2, <1>3 DEF Next

LEMMA TypedAlways == Spec => []Typed
<1>1. Init => Inv /\ Typed
  BY InitInv, InitTyped
<1>2. Inv /\ Typed /\ [Next]_vars => Inv' /\ Typed'
  BY InvStep, TypedStep
<1> QED
  BY <1>1, <1>2, PTL DEF Spec

------------------------------------------------------------------------------
(* Theorems *)

\* Every variable keeps its type: round robin's place is that of a key of some rule
\* of the model, and no request holds the rule of another model than it asked for.
THEOREM TypeCorrect == Spec => []TypeOK
<1>1. Typed => TypeOK
  BY DEF Typed
<1> QED
  BY <1>1, TypedAlways, PTL

\* A request turns to other models only when the breaker has been asked for each key
\* that was active when its backup level began, but one in the first position.
THEOREM BackupsAreTried == Spec => []GivesUpExhausted
<1>1. Inv => GivesUpExhausted
  BY DEF Inv
<1> QED
  BY <1>1, Invariant, PTL

\* As long as requests find the same active keys, round robin chooses no key twice
\* more often than another, however many keys and requests there are and however
\* their selections interleave.
THEOREM TurnsAreEqual == Spec => []EqualShares
<1>1. Inv => EqualShares
  <2> SUFFICES ASSUME Inv, NEW m \in Models, NEW i \in DOMAIN share[m].count
               PROVE  share[m].count[i] <= 1
    BY DEF EqualShares
  <2>1. CASE share[m].count = <<>>
    BY <2>1
  <2>2. CASE \E n \in Nat, j \in Nat : Block(share[m].count, roundRobin[m], j, n)
    BY <2>2 DEF Block
  <2>3. Len(share[m].keys) \in Nat \ {0} =>
          \A j \in 0 .. Len(share[m].keys) - 1 : j \in Nat
    OBVIOUS
  <2> QED
    BY <2>1, <2>2, <2>3 DEF Inv, CountsInTurn
<1> QED
  BY <1>1, Invariant, PTL
==============================================================================
