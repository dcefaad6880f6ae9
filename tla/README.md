# Verification of the AI gateway (LLMAPI-GateWay)

TLA+ modules, TLC configurations and machine-checked proofs about the gateway
under `src/`. The code is the reference: each definition is translated from Go
or Lua, and `PROJECT.json` ("map") names the lines. The documents under
`src/.kiro/specs/ai-ide-gateway/` are used for what the program is *said* to
do; where the code does otherwise there is a finding.

## 1. The system

A request to `POST /v1/chat/completions` passes through one process like this:

    Handle -> Authenticate -> CheckMultiDimension -> GetRule -> GetAdapter
      stream:      ReserveQuota(0) -> ExecuteWithFailover( upstream call, ProxyStream )
                   -> SettleQuota -> Collect
      non-stream:  ExecuteWithFailover( upstream call ) -> DeductQuota -> Collect -> JSON

Several gateways share Redis (rate-limit buckets, quotas, reservations, API
keys, route rules) and Kafka (records for replay).

| component | state | operations | hard because |
|---|---|---|---|
| circuit breaker (`breaker/circuit.go`) | per upstream key: a ring of one-second buckets, state, time of last change, half-open count | AllowRequest, RecordSuccess, RecordFailure | many attempts are in flight; an outcome is recorded in another state than the one that admitted it; wall-clock seconds against ages |
| rate limiter (`breaker/limiter.go`) | Redis hash per user, app, model: tokens, last update, expiry | the token bucket script; CheckMultiDimension runs it three times | clocks of several hosts, retried scripts, expiry, refusal after earlier charges |
| quota (`quota/manager.go`) | Redis hash per user, app, model: total, used, reserved; `reservation:<id>` | ReserveQuota, SettleQuota, DeductQuota | scripts of many requests interleave; cancelled contexts, lost replies, expiry, errors that are only logged |
| stream proxy (`proxy/stream.go`, `connection.go`) | io.Pipe, shared token counts, map of connections | ProxyStream: reader, writer and caller goroutines; cleanup loop | every goroutine may stop first; cancellation, idle cleanup, data race on the counts, two attempts with one session id |
| failover (`router/failover.go`, `manager.go`) | round-robin indexes | SelectAPIKey, ExecuteWithFailover | rules are replaced and keys change while a request walks them; the index belongs to another list length |
| route rules and probe (`router/manager.go`, `health.go`) | Redis `route:<model>`; in each gateway: cached rules, key status | LoadRules, SubscribeUpdates, UpdateRule, health probe | reading and listening are separate; Pub/Sub loses and repeats; the probe may hold a replaced rule |
| chat handler (`handler/chat.go`) | per request: context, stream result, reservation | Handle, handleStream, handleNonStream and their executors | one context over all attempts; the client may leave, or the write deadline pass, at any moment; the stream result is shared by the attempts |
| replay (`replay/`, `handler/replay.go`) | Kafka topic; per run: reader, results | Collect (goroutine), FetchHistory, Replay | records come late, twice or never; a run writes to the topic it reads; a fetch has no end to look for |
| authentication (`auth/`) | Redis `apikey:<hash>` | Authenticate, CreateAPIKey, RevokeAPIKey | one Redis call each |
| adapters (`adapter/`) | none; Kiro: a cached token | conversions, GetValidToken | the token's check and its replacement take different locks |
| server, main, storage, config, logger, monitor | wiring | start, shutdown | the order of the start's steps |

What makes each correct:

* **breaker** - counts exactly the recent outcomes; quiet while open; probed
  again; at most MaxRequests + 1 probes in a half-open period; able to recover.
* **limiter** - lets through no more than capacity plus rate, whatever the
  clocks, retries and expiry do; dimensions independent.
* **quota** - never overdrawn (streams do: by a bounded amount, and deductions
  never); exhausted quotas refuse; every stream is settled.
* **stream** - the response writer is used only while it is lent; no upstream
  body leaks; success means complete; counts agree with what was delivered;
  every goroutine ends.
* **chat handler** - the bill agrees with what was consumed, no key is blamed for what
  happened at another, and every attempt that was admitted is reported.
* **failover** - keys of the model are exhausted before other models are tried;
  round robin is fair; work per request is bounded.
* **routing** - a published rule reaches every gateway that listens, and stays in
  force; a recovered key is used again.
* **replay** - what is read has no gaps, a run never replays its own traffic, and
  ends with one result for each record.

The behaviours that are hard to test are the "hazards" of `PROJECT.json`, each
at its line, with the properties that cover it.

## 2. Modules

| module | what it is |
|---|---|
| `SlidingWindow` | the ring as operators: `record`, `fresh`, `totalFailure`, `RateAbove`... |
| `WindowAccuracy` | the ring next to an exact log of outcomes, the reference definition (its names differ from those of `CircuitBreaker`, so that one module proves both) |
| `AbstractBreaker` | what a breaker promises to its caller: no clocks, no counts |
| `CircuitBreaker` | the breaker as written, over `SlidingWindow`; `probes` maps it to `AbstractBreaker` |
| `RateLimiter` | buckets in Redis and the calls of several gateways |
| `AbstractAccount` | what a quota promises to the owner of an account: no Redis, contexts or faults |
| `Quota` | the scripts and the two handlers that run them; `grant` maps it to `AbstractAccount` |
| `StreamProxy` | ProxyStream, its goroutines, the pipe, the connection manager, and handleStream around it |
| `Failover` | rule cache, SelectAPIKey, ExecuteWithFailover, probe; uses a breaker through `AbstractBreaker` |
| `RouteTable` | rules in Redis and in the gateways: start, updates, Pub/Sub, the probe's rounds |
| `Gateway` | a request from its arrival to its end: Handle, both executors, client and deadline; uses the breaker through `AbstractBreaker` |
| `Replay` | Collect, FetchHistory and Replay, next to the gateway that records what they post |
| `MCBreaker`, `MCFailover`, `MCQuota`, `MCGateway`, `MCStream`, `MCReplay`, `MCRouteTable` | instances for TLC |
| `MCBreakerRing`, `MCAdmission` | two instances side by side in one run: the breaker and its ring, the limiter and failover. Neither half sees the other; `part` says which of them a behaviour moves |
| `*_proof` | theorems and proofs |

So `CircuitBreaker` is checked, and proved, to implement `AbstractBreaker`, and
`Failover` and `Gateway` are built on `AbstractBreaker`: they are checked against
everything a breaker may do, without the breaker's clocks in their state.
`Failover` sees the rule cache of one gateway change by `Update` and `ProbeKey`;
where these events come from, and when, is `RouteTable`. `Gateway` uses what the
other modules show of their parts: the failover loop is a sequence of keys it
offers (`Walks`), a call of ProxyStream counts chunks and then writes them, and
returns a count anywhere between the two when it is interrupted, and the quota is
a refusal before a stream and a bill after it. `Quota` has the arithmetic of that
bill, and the faults of Redis.

How state and actions correspond to the code:

* **Granularity.** What runs under one mutex, or as one Lua script, is one
  action: `AllowRequest`, `Take`, `Settle`. What runs without a lock is cut
  between the accesses that others can see: `Select` (lists the active keys)
  and `Balance` (takes the index, under the lock); `ReturnPrompt` and
  `ReturnCompletion` (the unsynchronised copy of the counts, one field each),
  with `CountUsage` writing them one at a time.
* **Time.** `SlidingWindow` keeps ages instead of dates, saturated where no
  comparison tells them apart, and the wall clock modulo the ring; so time is
  unbounded. `RateLimiter` keeps real time, as buckets only grow with it, up to
  `MaxTime`. `StreamProxy` keeps only "idle for more than five minutes".
* **External code.** The Redis client's retry of a script whose reply is lost
  (`Resend` in `RateLimiter`, `LoseReply` in `Quota`; `storage/redis.go` leaves `MaxRetries` at its default), expiry
  (`Tick`, `ReservationExpires`), the end of a request's context
  (`Disconnect`, `Cancel`, `Leave`), the server's write deadline (`Expire`), the
  Kafka writer behind Collect (`Collect`, `Lose`), the io.Pipe (`Closed`, `CloseWriteEnd`) and body
  reads (`BodyEnds`) are modelled from how the code uses them and marked
  external in the map.
* **HISTORY** variables (`consumed`, `since`, `passed`, `unsettled`, `delivered`,
  `first`, `due`, `share`, `gap`, `suspect`, `earlier`) are written by actions and read by no
  guard that models code.
* Definitions under "Mutant of" comments are plausible bugs. They belong to no
  specification: each shows that a property depends on the definition it alters.

## 3. Runs

Every action and every disjunct of the next-state relations fires in a passing run.

| run | instance | shows |
|---|---|---|
| `breaker` | the breaker: 1 key, 3 attempts, 2 buckets, 2 ticks a second, MaxRequests 1, half-open timeout 5 ticks | `OpenIsQuiet`, `WedgedForever`, `ImplementsAbstract` (refinement), `OpenGetsProbed` (liveness) |
| | the ring: 2 buckets, 2 ticks a second, up to 2 outcomes a tick, all phases of the clock | `NeverCountsStale`, `CountsRecent`: the ring counts no outcome older than the window and all of the last TotalBuckets - 1 seconds. A bucket takes the time of its *first* outcome, so later ones may leave up to a second early (design.md:1861 speaks of the whole window) |
| `breaker_wedge` | the breaker, with one tick a second and timeout 3 | **violated**: `HalfOpenKeepsProbing` |
| `admission` | the limiter: 2 gateways one second apart, 2 dimensions, 1 retry, TTL 3, time to 3 | `NoTokenFromNowhere` (a potential that never rises), `PassesWithinRate` |
| | failover: 2 requests, 3 keys, 2 versions of a rule, an alternative and a missing fallback model | `GivesUpExhausted`, `EqualShares` |
| `failover_skip` | failover | **violated**: `AllKeysFirst` |
| `quota` | 3 requests, 3 keys shared in pairs, up to 2 tokens each, 1 retry | `OverdraftBounded`, `OnlyStreamsOverdraw`, `ImplementsAccount` (refinement) |
| `quota_overdraft` | the same | **violated**: `NeverOverdrawn` |
| `quota_disconnect` | the same | **violated**: `DisconnectedIsSettled` |
| `gateway` | a stream and a unary request, 2 keys, answers of up to 2 tokens | `BillsLastAnswer`, `WellKeysStayClosed`, `EveryRequestEnds` (liveness) |
| `gateway_bill` | the same | **violated**: `BillsConsumption` |
| `stream` | 2 attempts, up to 3 chunks of any kind and then 0 | `WriterIsLent`, `NoBodyLeaks`, `NilMeansComplete`, `CountsDelivered`, `NoneWaitsInVain` (whoever a goroutine waits for is there, or has left its report), `EveryCallEnds` (liveness) |
| `routes` | 1 gateway, 2 models and their writers, 2 versions, 1 retry of a PUBLISH, restarts and broken connections without bound | `NeverGoesBack`, `QuietIsCurrent` (what a gateway that has missed nothing knows), `RecoveredRejoins` (liveness) |
| `replay` | 2 runs of up to 2 records, clients, a partition of 3 records | `ReplaysThePast`, `HistoryHasNoGaps`, `RunEnds` (liveness) |

### What the violated properties say

* `HalfOpenKeepsProbing`: in the half-open state the count of probes only
  grows, failures do not reopen, and a success closes only if the window's
  error rate is below the threshold just then. Once all probes are answered
  without that, the key is refused for the life of the process
  (`circuit.go:75`; `WedgeIsPermanent` proves it for every configuration).
* `NeverOverdrawn`: a stream reserves an estimate of zero (`chat.go:231`), so it is
  admitted on whatever is left of a quota, nothing included, and its settlement is
  not checked. requirements.md:88 and design.md:1927 have the estimated tokens
  deducted before a stream starts, and design.md:1939 has no request make a quota
  negative. What is left of the promise, and proved, is `OverdraftBounded` (a bound
  that grows with the number of requests) and `OnlyStreamsOverdraw` (deductions
  keep it). `ImplementsAccount` is against an account that lets streams overdraw it,
  and so states what the code does promise, not what these lines ask for.
* `BillsConsumption`: if a stream breaks off and another key takes over, the client's
  stream goes on with the new answer, and only that one is settled
  (`chat.go:276`), where requirements.md:89 and design.md:1933 have a stream settled
  by what was consumed. What is left, and proved, is `BillsLastAnswer`: the bill is
  right for the last answer.
* `DisconnectedIsSettled`: settlement uses the cancelled context
  (`chat.go:282`; requirements.md:89).
* `AllKeysFirst`: the backup level skips the key at index 0 though the primary
  was another one (`failover.go:108`; design.md:1849).

### Other things the models state about the code

Three more statements of the documents do not hold, and no run shows them, as
each can be read off a single place of the code:

* A refusal by the app's bucket leaves the user's bucket charged
  (`limiter.go:141`), where design.md:1885 says that a limit of one dimension does
  not affect the counts of another. `PassesWithinRate` is what does hold.
* A request without a stream is served before its quota is looked at, and a
  deduction that is refused is only logged (`chat.go:182`), where
  requirements.md:90 says that an exhausted quota refuses. `ImplementsAccount`
  is what does hold: the deduction does not charge it past its total.
* A stream is a success whatever status its upstream answers with (`chat.go:270`),
  where design.md:2038 has an upstream's error (502) trigger the failover. An error
  page is proxied to the client as the stream, and the next key is not tried.

What the models take as it is, and no document speaks of:

* Any answer below 500 to a unary request that parses is a success.
* The write deadline (`server.go:37`, 30 s as shipped) covers all attempts of a
  stream: the write that fails after it counts against the key that was answering.
  The same holds of a client that leaves: the walk goes on over all keys with a
  dead context, although the comment at `chat.go:264` says "detached context".
* A write to the client may succeed after it has gone or its deadline has passed, as
  net/http has buffers (`Deliver`); a fetch may still be handed a message after its
  operator has left (`Read`).
* A key of an alternative model is used with the model and the adapter of the
  original request.
* The adapters put marshalled bytes into `UpstreamRequest.Body`, which
  `buildHTTPRequest` marshals once more (`chat.go:323`): a JSON string of base64.
  The models abstract bodies.
* The reader of `FetchHistory` names no partition and no group, and so reads
  partition 0 only (`service.go:41`). `contentSimilarity` calls any two non-empty texts
  of fewer than three characters equal. Streams are recorded with status 200 and
  without their text.

### Bounds, and why they are enough

* `MaxPerTick` and `MaxPerBucket` bound outcomes per tick and bucket: one is
  enough to tell a counted bucket from a dropped one, two to cross the
  threshold of one half from both sides.
* Two buckets of two ticks are the least ring in which one bucket is fresh and the
  other stale, and in which a bucket's first outcome is not its last.
* Keys of the breaker share nothing but the clock, so one key is enough. Three
  attempts are two probes (MaxRequests 1, plus the one that opens the period)
  beside an attempt admitted before the breaker opened. The half-open timeout
  is longer than the window, as shipped (30 s and 10 s): `MCBreaker` assumes it.
* `MaxTime` is when a bucket charged at the start has expired (calls go on, and find
  it full); `MaxDelay`
  lets a stamp become stale; two dimensions are the least in which an earlier
  one is charged and a later one refuses. The deadlock check is on in every run (a call of the limiter may
  begin, and fail, when time has ended).
* Three requests overdraw a quota together, share some keys and not others; a
  total of 1 or 2 is exhausted by one request.
* One retry (`MaxRetries`) stands for the several of the Redis client: it
  separates once from more than once.
* Three chunks make a reader that is counting, has data in the pipe and has
  more to read when its call ends; the second, empty stream is there to be
  disturbed by the reader the first one left behind.
* Three keys give round robin a list that changes length (a failed key comes
  back) and one backup key that is skipped next to one that is tried.
  `MaxRequests` is 0 there, so that a half-open key refuses after one probe.
* Gateways share nothing but Redis, which they only read, so one gateway is
  enough in `routes`. Two versions are the least that can go back; the rule of one
  model is stored before the gateway starts, the other is new. `OneWriterEach` is
  an assumption on the operators: with two writers of one rule the order of the
  SETs and of the PUBLISHes may differ, and `NeverGoesBack` fails.
* In `gateway`, `Walks` offers both keys or only the second, so that the requests
  meet at a key one of them comes to first; two tokens make an answer of which
  some is counted, some written and some not read. `MaxRequests` is 0, so that a
  probe of one request makes the breaker refuse the other; requests come without
  bound.
* In `replay`, two runs post to the topic that both read, a limit of 2 leaves a
  third record unread, and three records are one of each kind.
* Symmetry is used only between requests that are charged alike or do the same
  (`quota`, `admission`), and in no run with a liveness property.

### Fairness

* `CircuitBreaker!Fairness`: time passes; an admitted attempt ends, as its HTTP
  client has a timeout of five minutes (`chat.go:64`); clients keep asking. No
  fairness between success and failure is assumed.
* `StreamProxy!Fairness`: goroutines are scheduled; a read of the body ends by
  that same timeout, and a write to the client by the server's write timeout
  (`server.go:37`). Weak fairness of each goroutine, not of the environment: a
  client need not leave, nothing need become idle, and no cleanup need come.
* `RouteTable!Fairness`: a start proceeds and the probe goes on, as every call has
  a timeout (5 s for a probe). Nothing is assumed of Redis, of the writers, or of
  keys outside `Healthy`; a restart may come at any time.
* `Gateway!Fairness`: each handler is scheduled, and each of its calls ends, by
  the timeouts above. Nothing is assumed of clients, nor of what an upstream
  answers.
* `Replay!Fairness`: a fetch has a deadline of ten seconds (`service.go:56`), a
  post a timeout of two minutes. No record need ever be written or read.
* The other modules state safety only.

## 4. Proofs

All are checked by TLAPS, for every value of the constants that satisfies the
named assumptions. TLC evaluates these assumptions in the runs.

* `CircuitBreaker_proof` - `TypeCorrect`, by the type invariant, which is
  inductive as it stands: `halfOpenCount` is bounded because it grows only below
  MaxRequests. `Quiet` and `WedgeIsPermanent` are action properties, proved
  from types action by action. `Refinement`: each step is a step of
  `AbstractBreaker` under `probes`, or a stutter; an outcome recorded late maps
  to an outcome that moves nothing.
* `CircuitBreaker_proof` also has the ring against its log: `RingTypeCorrect`,
  `NothingStale` and `RecentCounted`. The last two compare sums over the fresh
  buckets with sums over the log, and neither is inductive: that the sums are right
  now does not say that each bucket is right, and the next step drops or resets
  one of them. The invariant speaks of each
  bucket alone: while it is in the window it is stamped in its own second
  (`Stamped`), and counts what the log has for that second since the stamp
  (`CountsKept`, `Held`). A bucket comes up again only after a whole ring, and is
  then too old not to be reset. That sums of equal, or smaller, terms are equal, or
  smaller, is one induction over the number of terms.
* `RateLimiter_proof` - `NoTokenCreated`. The potential of a bucket (consumed +
  tokens) is not inductive alone: expiry destroys tokens, and the next call finds a
  full bucket. The invariant adds that an existing bucket is younger than its
  expiry, and a missing one older: then (`RefillsBeforeExpiry`) its rate has
  earned a whole capacity meanwhile, so the full bucket is no gift. That
  assumption relates TTL, clock skew, delay, capacity and rate; the shipped values
  (3600 s, 100 s to refill) satisfy it amply. The argument needs
  monotonicity of nothing: `now` may go back.
* `Quota_proof` - `OverdraftIsBounded`. `used <= Total + ...` is not inductive,
  since a settlement charges without looking. The invariant counts *credits*:
  pairs of an open stream and an application of the settlement script that it
  still has left (1 + MaxRetries each). `used + MaxActual * credits` stays within
  `Total + MaxActual * all credits`: a stream is opened only while the quota is
  within its total; each charge spends a credit, or is a deduction that checks.
  `NothingReserved` (the estimate is zero, as in `handleStream`) completes it.
  `OnlySettlementsOverdraw` is the action property: the step that takes a quota past
  its total is the settlement of a stream, and it is that stream that moves
  (`SettlementOf`). A deduction next to a stream that only waits to be settled is no
  such step, and it has checked.

  `Refinement`: each script is a step of `AbstractAccount`, or a stutter; the grant
  of a stream is the number of settlements it has left, as in the invariant.
  What the code loses (a settlement that is never sent, an expired reservation)
  closes a grant that was not charged.
* `RateLimiter_proof` also has `PassesBounded`, the promise to the operator. The
  additional invariant says what each bucket has been paid for: the calls that have
  passed, and those that are on their way to pass. A retried call takes twice
  and passes once, so charges are never fewer than passes.
* `RouteTable_proof` - `QuietGatewaysAreCurrent` and `RulesOnlyAdvance`. Neither is
  inductive: what is cached next depends on what is on its way. The invariant says
  that versions only grow from the cache along the events of a model, in their
  order, to the store, and that the stored version is cached, on its way, about
  to be published, or missed. It rests on `OneWriterEach`.
* `StreamProxy_proof` - `WriterOnlyLent` and `BodiesAreClosed`, from where the
  caller may be while a writer is at work and while a body is open: it passes the
  point where it waits for the one and closes the other, whichever way it leaves.
  `TypeCorrect` needs that the chunks in the reader's hand, in the writer's and
  delivered are no more than were read. `NilIsComplete` needs where each chunk is:
  what was read is what was delivered, then the one being written, then the one to
  be sent, as long as nothing has failed. `CountsAreDelivered` adds how many of the chunks read are in the
  counts (`CountsInv`: the reader may be between the two fields) and what of them the
  caller has copied (`CopiedInv`). `NoGoroutineStranded` is what the liveness
  property needs besides fairness: a goroutine that stops leaves a report in its
  channel or a closed end of the pipe, so that nobody waits for it in vain.
* `Failover_proof` - `BackupsAreTried`: what is due at the backup level is active
  and at a position the walk has still to come to; a key that is active stays so
  in its rule object, as the probe only ever revives. `TurnsAreEqual`: the keys
  that round robin has chosen once more than the others are those it passed last,
  a block on a circle that ends before its index; a full round takes it off.
  `TypeCorrect` needs that a list of active keys is never longer than its rule, and
  that it has an n-th key for every n up to its length (`Ranked`, by induction), as
  `Balance` picks by number. The type says that an index is below the length of the
  longest list of keys the model may have: what the code's modulo keeps.
* `Gateway_proof` - `BillIsRight` and `OthersUnharmed`: outside a stream that is
  counting, the result lies between what was shown and what was counted; an
  attempt about to be reported has made its own key suspect, and no other.
  `AttemptsAreReported`: an attempt the breaker has admitted is not yet answered for
  only while its handler is on its way to the report, and no handler ends without it.
  `RequestsAdvance`: each step of a handler, until it ends, lowers the triple of its
  stage, the keys left to walk and the steps left of this attempt; no step of another
  request or of the environment raises it. With fairness, and some step
  of the handler enabled until it ends, that is `EveryRequestEnds`.
* `Replay_proof` - `NoFeedback`, `HistoryIsWhole` and `ResultsInOrder` (a run's
  n-th result is for the n-th record it fetched). The invariant speaks of each run
  alone: while it fetches it has posted nothing, and once it posts, what it fetched no
  longer changes; so a record of its own is always later in the topic than all it
  reads.

Inductions over data (sums, counts of a sequence, the n-th of a list) are by the
least counterexample: `WFMin` of the library, on the set of naturals for which the
property fails.

Every invariant and every action property of the passing runs is thus a theorem.
Only model-checked is liveness under fairness (`OpenGetsProbed`, `EveryCallEnds`,
`RecoveredRejoins`, `EveryRequestEnds`, `RunEnds`), which is out of this prover's
reach, as is ENABLED. Of three of them
the safe part is proved: `NoGoroutineStranded`, `RequestsAdvance` with
`AttemptsAreReported`, and, of `RunEnds`, that the results are the right ones
(`ResultsInOrder`).

## 5. Not modelled

* Authentication, adapters, storage wrappers, configuration, logging, metrics:
  stateless, or one call to a library. The retry logic of `adapter/error.go` has no
  caller.
* `Reset`, `GetTokens`, `GetQuota`, `SetQuota`, `MarkKeyFailed`,
  `MarkKeyActive`, `CreateAPIKey`, `TokenCounter`: no caller in the gateway.
  (`SetQuota` would write a string where the scripts expect a hash.)
* `KiroTokenManager`: its refresh is a placeholder that makes up a token and calls
  nothing, so that no promise can be broken by two callers refreshing together.
* The numbers of a comparison, and the request that replayOne builds.
* Kafka partitions other than the one that is read: a record there is as good as lost.
* Data: a chunk is one of four kinds; its text counts as one token; models, keys
  and users are model values; rates are whole numbers.
* A key's weight: weighted selection may pick any active key.

## 6. Plan

The order so far, as money, memory and availability depend on it: breaker,
limiter, quota, stream proxy, failover, route rules, the chat handler around
them, replay; with an abstract specification where a component is used by
another (breaker) or sold to a customer (quota).

What is left:

1. A refinement from `Failover` inside `Gateway`: `Walks` stands for what failover
   offers, and `BillsLastAnswer` and the others are proved for any `Walks`, so
   nothing rests on it; it would say which walks there are.
2. The safe half of `RecoveredRejoins` and of `RunEnds`: measures like that of
   `RequestsAdvance`.
3. `KiroTokenManager`, adapters' retries and the quota's setters, once the code
   has callers for them.
