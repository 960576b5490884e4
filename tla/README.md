# CallIO backend: TLA+ models, checks and proofs

This directory holds TLA+ models of the CallIO CPaaS backend (`src/`, Go), the
TLC configurations that check them, and proofs for the TLA+ proof system
(tlapm 1.4.5). `PROJECT.json` ties every definition to the lines it models,
lists the runs, the mutants that show each property can fail, the hazards the
properties are aimed at, and the theorems.

- [1. The system](#1-the-system)
- [2. The modules](#2-the-modules)
- [3. The runs](#3-the-runs)
- [4. Where the code departs from what it says](#4-where-the-code-departs-from-what-it-says)
- [5. Fairness](#5-fairness)
- [6. What is proved](#6-what-is-proved)
- [7. What is only model-checked, and what is not modelled](#7-what-is-only-model-checked-and-what-is-not-modelled)
- [8. Plan](#8-plan)

## 1. The system

One Go process serves HTTP over Redis and MongoDB. It bills an account for each
SMS, hands the SMS to a carrier (Jasmin), takes the carrier's delivery reports,
and posts status callbacks to its customers. Several processes may share Redis
and Mongo.

| Component (source) | State it keeps | Operations | Correct if |
|---|---|---|---|
| Billing engine (`features/billing/service.go`) | none of its own: the balance in Redis, the account and the ledger in Mongo; a goroutine per success | `DeductBalance`, `RefundBalance`, `GetBalance`, `CheckBalance`, `hydrateCache` | behaves as one wallet per account, up to the first of five events it is known to mishandle; the ledger explains the balance |
| Balance cache (`billing/redis/cache.go`) | `account:balance:<id>` with an expiry that a script removes | two Lua scripts, `Get`, `Set` | check and change are one step; its codes are never balances |
| Account store and service (`features/account`) | account documents: balance, SID, token, email | create, read, update balance, update credentials, record transaction | the unique email; credentials replaced as a pair |
| SMS service (`features/sms/service.go`) | message documents; the callback channel | `Send`, `HandleDeliveryReport`, `Close` | paid if and only if carried; refunds once; reports are kept; a request sent again is carried and paid once |
| Status callbacks and shutdown (same file, `cmd/api/main.go`) | a buffered channel of 500, 5 workers | offer or drop, post, drain | bounded; what it accepted is attempted; a stop ends |
| Carrier gateways (`sms/jasmin`, `sms/mock`) | none | `Dispatch` | (external: what it may answer) |
| Segment count (`calculateSegments`) | none | a function | bills the parts that carry the body; a longer body is never cheaper |
| Idempotency (`pkg/idempotency`, its middleware) | one Redis key per account, path and key | `Acquire`, `SaveResponse`, `Release` | one handler at a time, one success, replays of successes |
| Rate limiter (`middleware/ratelimit.go`) | a Redis counter per identifier and minute | `INCR`, `EXPIRE`, verdict; fails open | at most the limit per minute; nobody refused too early |
| Auth service (`features/auth`), auth middleware | users, accounts; signed tokens | register, login, refresh, rotate credentials; Basic and Bearer | one user per email; suspension holds; credentials in force are known |
| Users (`features/user`) | user documents | create, three updates, delete | nothing but another update makes stale what an update writes back; the deleted stay deleted |
| Metrics (`middleware/metrics.go`) | two maps, counters and latencies, under one `RWMutex` | count a request, `GET /metrics` | no count lost or made twice; a scrape is of one moment; requests end |
| Recovery, logger, CORS, router, config, system, response helpers | configuration | | see section 7 |

**How they interact.** Every request runs through CORS, the request logger,
Recovery and Metrics; under `/v1`, `POST /v1/sms/send` then meets
authentication, the rate limiter and the idempotency middleware before `Send`,
which calls the billing engine, the message store and the carrier one after the
other under the request's context, and offers a callback to the channel last.
On the way back the idempotency middleware saves the answer or releases the
key, and Metrics counts the request; a panic unwinds past both to Recovery. A
delivery report is a request of its own that shares the message document and
the channel with `Send`. The billing engine answers from Redis and leaves Mongo
to a goroutine that nobody waits for. `main` shuts the HTTP server down, and the
deferred `Close` then closes the channel and waits for the workers.

**What is hard here.** Calls overlapping on one balance, a cache that loses the key
between any two steps, background writers in any order, a client that leaves in the
middle of a `Send` (its context also carries the refund), errors after the effect took
place, delivery reports racing the `Send` they are about, a channel closed under its
senders, a key that changes hands between SETNX and GET, requests sent again after an
answer that was lost, minutes that meet, whole-document updates, locks that readers
and writers keep from one another. The `hazards` of `PROJECT.json` list each at its
line.

## 2. The modules

```
Wallet  <--implements--  Billing                       BillingProofs
   |
   +-- W --+
           SmsService <--extends-- RetriedSend         SmsServiceProofs (of both)
   +-- C --+                          |
   |                                  I
Callbacks                             |                CallbacksProofs
   ^--extends-- Server                |                ServerProofs
                          Idempotency                  IdempotencyProofs
RateLimiter                                            RateLimiterProofs
Users   Credentials                                    AuthProofs (extends both)
Segments (with its proofs)
```

Each module that a run checks has an `MC...` module beside it that extends it with the
small instance; `MCCallbacks` is the one of Server. Every Redis command or script, and
every Mongo operation, is one step; whatever a goroutine does between two of them is
local to it and belongs to one of the two steps. Operators marked `(mutant)` are
plausible wrong versions of the operator that follows; the specifications never use
them.

**Wallet** is the abstract specification of the billing engine: a balance per
account, what the caller was told of each purchase, and what reads answered.
`Charge`, `Deny`, `Fail`, `Refund` and `Observe` are single steps.

**Billing** is the engine. A *call* is a pair of a reference id and "debit" or
"refund"; the refund of a purchase may start once its debit has succeeded, as in
`Send`. `cache`, `ttl`, `db`, `ledger` are the stores; `pc`, `loaded` are a
call's position and its local balance; `job`, `remaining` are its goroutine.
`Begin` is the check of the amount, `Mutate` the first run of the script,
`HydrateLoad` and `HydrateStore` are `hydrateCache`, `Retry` the second run of
the script, whose miss the code does not look at. `BeginRead`, `ReadCache`, `ReadStore`
and `PrimeCache` are `GetBalance`. `RecordTransaction` and `UpdateBalance` are
the two writes of the goroutine. `RunScript` models that the scripts' plain
`SET` drops the expiry. `RedisError`, `LostReply`, `LoadError`, `Evict`,
`Expire` and `Crash` are the environment, enabled by `Faults`. The calls may be
spread over any number of processes that share Redis and Mongo: a crash stops any
part of the calls, reads and goroutines, and the rest goes on. `Resend` is the
Redis client sending a command again whose reply was lost, so that what it did is
done twice. Calls overlap freely, on a cold account as on a hot one. The refinement
maps the wallet's balance to the cached balance, or to Mongo's where Redis has none.

The engine is not a wallet whatever happens, and the model says exactly when it stops
being one. Five events, the *Spoilers*, put an account into the history variable
`spoiled`, which no step looks at: (1) a balance loaded from Mongo is stored or
answered although a script or a goroutine has changed it meanwhile (`Outdated`);
(2) Redis evicts a balance that Mongo does not have (`NotInMongo`); (3) a script
changes the balance and the caller gets an error, its reply being lost; (4) the
same, and the client sends the script again; (5) the script misses the cache
twice. `ImplementsWallet`, `OverspendIsExplained` and `LedgerReconciles` hold of an
account up to its first Spoiler, so that the five are a complete list of what can go
wrong with a balance.

**Callbacks** is the callback channel, its workers and the shutdown. `Offer` is
the `select` with a default: it enqueues, drops, or panics when the channel is
closed. `Take`, `Post` and `Leave` are a worker's `range` loop. `Shutdown` is
the signal, `Close` the deferred `Close` once `httpServer.Shutdown` returned, and
`Exit` the end of `main`. `DrainTimesOut` says whether Shutdown's timeout may come
before the handlers return: in the code it may, its error is only logged, and the
channel is closed under handlers that still send; every run has it TRUE.

**Server** extends Callbacks by the rest of a request. `Accept` and
`HandlerReturns` are a handler, which may panic; `Lock` to `AddLatency` are what
Metrics does after `c.Next()`, the counter's `++` in its two halves; `RLock`,
`PrintCounters` and `PrintLatency` are `GET /metrics`, which is itself counted when
it is done. A writer that waits for readers keeps new readers out, as `RWMutex`
does. Shutdown waits for all of these requests (`CloseServer`), and the end of
`main` ends those that still run (`ExitServer`).

**SmsService** composes Wallet and Callbacks: its wallet variables follow `Wallet`
through `W`, its channel follows `Callbacks` through `C` (a handler is a Send or a
delivery report). One action per call that `Send` makes: `DeductBalance`, `Create`,
`RefundAfterCreate`, `Dispatch`, `StoreFailed`, `RefundFailed`, `RefundRejected`,
`StoreResult`, `StoreCarrierId`, `Notify`. A client that has gone (`cancelled`) makes
every later call of its Send fail. `Dispatch` may answer a failure although the carrier
took the message: the answer was lost, or was not a 2xx. `FindMessage`, `FindNothing`,
`ApplyReport`, `ApplyFails`, `NotifyReport` are `HandleDeliveryReport`; an update that
fails may have taken effect (`ApplyFails`). Using `Wallet` in place of the engine is
justified by `ImplementsWallet`, which is to say up to the account's first Spoiler: what
an overdrawn balance, a second miss or a lost reply does to a Send is not seen here, and
the properties of SmsService and RetriedSend about charges are relative to that.

**RetriedSend** is `POST /v1/sms/send` with an Idempotency-Key: it extends SmsService
and follows Idempotency through `I`. The messages are the attempts one client
makes with one key. An attempt that gets the key (`SetNX`) runs `Send` step by step
(`Sending`); what `Send` answers is `EndOf`, 201 for every message it returns,
a failed one included; `Finishing` saves the answer or releases the key. Both parts
share the request's context (`cancelled`), and `Crash` takes the whole process,
the callbacks it has queued and the reports it serves.

**Segments** is `calculateSegments` (`CalculateSegments`, a count of runes and a test for
ASCII) beside `Needed`, the segments in which the body is carried: GSM-7 septets, of
which the characters of the extension table take two, or UTF-16 units, of which those
outside the basic plane take two, with the parts of a concatenated message and the
septet or unit left over where a character of two does not fit. `Needed` is external:
it is what the comment of `calculateSegments` refers to. A body grows by characters of
seven kinds (`Append`), which is all the two counts can tell apart.

**Idempotency** is one key. `SetNX` and `Get` are `Acquire`, with the recursion
on a key that has gone; `RunHandler` is `c.Next()`; `Finish` decides what the
middleware does next: a 2xx is saved, a 5xx releases, a 4xx does neither, a
panic unwinds past it. The requests may be served by several processes, any of
which may crash with the requests it serves. `key.by` and `expired` are there for
the properties.

**RateLimiter** is one identifier's counters, one per minute of a clock that
ticks. `INCR` and `EXPIRE` travel together but are two commands, and the
Redis client may send the pair again (`Resend`).

**Users** is registration, invitation, login, refresh, the three updates (read
the document, write all of it back), and deletion. Tokens are what they claim;
`Authorized` is what the middleware and `requireRole` look at, `Admits` the
status check. Updates of one user overlap; the history variable `overtaken` holds
those about to write of whose user another update wrote since they read it. An
operation of Mongo may fail before its effect (`MongoError`) or after it
(`LosesAnswer`). **Credentials** is the rotation of an account's SID and token and
the requests authenticated with them.

## 3. The runs

`tlc -workers 2 -config <run>.cfg <module>.tla`; states are distinct states.

| Run | Module | Checks | States |
|---|---|---|---|
| BillingWallet | MCBilling | `ImplementsWallet`, `OverspendIsExplained`, `LedgerReconciles` | 420,828 |
| BillingFaults | MCBilling | `NonNegative`, `EveryCallReturns`, `EverySuccessIsPersisted` | 67,209 |
| BillingOverspend | MCBilling | `NeverOverspent` is **violated** | |
| CallbacksDrain | MCCallbacks | `CallbacksTypeOK`, `AcceptedIsAttempted`, `CountedOnce`, `ScrapeIsOfOneMoment`, `StopEnds`, `EveryRequestEnds` | 264,674 |
| SmsFaults | MCSmsService | `TypeOK`, `CarriedWasCharged`, `RefundIsOwed`, `PaidIffCarried`, `ErrorsAreFree`, `SendKeepsReports` | 3,443,400 |
| SmsReports | MCRetriedSend | `StoredIsTold`, `CarriedOnce`, `ChargedOnce`, `EveryAttemptAnswered`, `ReportsApplied` | 95,538 |
| SmsCancel | MCSmsService | `FailedIsRefunded` is **violated** | |
| Idempotency | MCIdempotency | `AtMostOneRunning`, `ReplayIsOfSuccess`, `OneSuccess`, `EveryRequestAnswered` | 117,727 |
| Segments | MCSegments | `BilledAsCarried`, `WithinThreefold`, `NeverCheaper` | 1,527,186 |
| RateLimits | MCRateLimiter | `MinuteLimit`, `RefusedWhenSpent` | 541,126 |
| Users | MCUsers | `TypeOK`, `OneUserPerEmail`, `DeletedStaysDeleted`, `OnlyTheEditedFieldChanges`, `SuspensionHolds` | 375,889 |
| Credentials | MCCredentials | `CredentialsKnown`, `ToldAreWhole` | 10,952 |

Deadlock is not checked: every system here may stop, when its clients have no
more requests or its process has ended.

- **BillingWallet.** One account with 3, purchases of 3 and 2 with their refunds, and a
  read; at most two overlap (`MaxInFlight`), on a cold cache as well, and every fault
  there is may happen, a command being sent again once per call (`MaxResends`). Two at
  a time is enough for a race on one balance, and the two purchases are affordable one
  by one only. The run stops where the account meets its first Spoiler (`CONSTRAINT
  UpToTheFirstSpoiler`): after it the properties say nothing of the account. Up
  to there the engine implements the wallet, although balances are loaded, cached,
  expired, evicted and written back underneath, and although any part of the calls
  may stop with its process while the rest goes on. BillingOverspend is what an
  account may come to after its first Spoiler.
- **BillingFaults.** A purchase, its refund and a read, one purchase of amount
  0, everything that can fail, on a cold cache with overlap, and past every Spoiler. One
  purchase is enough for a read's stale hydration to race a deduction and for a second
  miss. For `NonNegative` the theorem of section 6 covers any number.
- **CallbacksDrain.** Server with two handlers, two scrapes, two workers and a
  channel of one: the second callback queues, or is dropped while the first waits
  for a worker, and the stop falls anywhere, as does Shutdown's timeout. Two scrapes are
  the least with which a reader waits behind a writer that waits for a reader; two
  requests with one key are the least that could lose a count.
- **SmsFaults.** Four sends: two exceed the balance together, one costs nothing, one
  does not validate; a report on the first; one worker. Mongo, the gateway and the
  carrier's answer fail in any way, before or after their effect, clients leave at any
  step, and Shutdown may give up. `PaidIffCarried` and `ErrorsAreFree` are for clients
  that stay.
- **SmsReports.** RetriedSend with three attempts under one key, of which one does
  not validate, on a balance that covers two: a message carried twice would be
  paid for twice. A report on the first, repeated by the carrier while it
  is answered 404; billing, gateway and Redis errors, departures and crashes.
- **Idempotency.** Three requests, the least with which a key changes hands
  twice under a third; every kind of ending; errors, departures, a key that
  expires at any moment, crashes of a process with any part of the requests.
- **Segments.** Every mix of the seven kinds of characters up to 461
  characters, which takes in three GSM-7 parts of one-septet characters, seven UTF-16
  ones, and each boundary from both sides.
- **RateLimits.** Minutes of 3 ticks, keys that live for 4, a request at most
  one tick late: as 60 s, the 70 s of EXPIRE, and a request that is counted within
  10 s of its look at the clock. The code does not promise the last: one try of the
  Redis client may wait for a connection, dial for 3 s, write for 2 s and read for
  2 s, and there are four tries by default. `Minute + Delay <= Life` is therefore a
  condition of `MinuteLimit` (a hypothesis of its theorem), not a fact; a request that
  takes longer may find the key of its minute gone and start it anew. The clock
  runs for nearly three minutes (`Horizon`), with three requests on a limit of two.
- **Users.** An owner and a member; a registration and an invitation under one
  email; the member logs in, refreshes, is renamed, suspended and deleted meanwhile, and
  the two updates of it overlap. A role there is not is asked for first. One operation
  of Mongo fails, before or after its effect, and the owners' tokens last (the
  `CONSTRAINT Instance` of MCUsers: a request refused for its token changes nothing).
- **Credentials.** Three rotations and two Basic requests, with Mongo errors.

Symmetry is used in RateLimits and Credentials only, which check invariants of
interchangeable requests.

## 4. Where the code departs from what it says

Two runs keep a counterexample each:

- **BillingOverspend**: two `DeductBalance` calls that miss the cache together
  both succeed on a balance that covers one, because `hydrateCache` stores what it
  loaded over the deduction made meanwhile (`billing/service.go:166`); the comment
  at line 46 says the balance is reduced atomically.
- **SmsCancel**: the refund of a failed dispatch runs under the request's
  context with its error ignored (`sms/service.go:130`); when the client has
  gone, which is also what makes Dispatch fail, a message returned as failed
  stays paid.

Others are visible in the models and named with their hazards; properties are
stated around them, with the exception in the property:

- A cache miss on the second run of the script is returned as a success
  (`Retry`, the fifth Spoiler), and Mongo's balance can end up older than Redis's when two
  goroutines write in the other order (`UpdateBalance`).
- When Shutdown gives up, handlers send on a closed channel and panic (`Panic`). No
  document says otherwise, so no property forbids it: `AcceptedIsAttempted`, `StopEnds`,
  `CountedOnce` and `PaidIffCarried` are checked with it happening.
- `calculateSegments` is not the GSM-7 count its comment speaks of: characters of
  the extension table take two septets (160 `[` are billed as one segment and carried
  in three), and the letters GSM-7 has beyond ASCII are billed as Unicode (160 e-acute
  are billed as three and carried in one). `BilledAsCarried` is about the bodies for
  which it is right, `WithinThreefold` says how wrong it can be.
- The carrier may have taken a message whose dispatch failed; it is refunded
  (`Dispatch`, `PaidIffCarried`).
- The idempotency key is scoped by the account's SID, and so is the rate limiter's
  counter. A rotation replaces the SID: a request sent again after it is carried
  again, and the limit starts anew. `CarriedOnce` and `MinuteLimit` are of one SID.
- A request that panics is counted nowhere: Recovery answers its 500 above Metrics
  (`HandlerReturns`), so no counter of `GET /metrics` shows it.
- Reports are applied in the order they come, so that an older one received late
  moves a delivered message back (`ApplyReport`).
- A client stays charged for an attempt whose refund the billing engine failed to
  make; the key is released all the same, and the next attempt is charged as well
  (the exception in `ChargedOnce`).
- A 4xx, a panic or a client that left keep the idempotency key locked until it
  expires, a day by default, and retries are told that a request is in progress
  (`Finish`, `Get`). `Acquire` is not limited to one retry.
- Twice the limit may pass where two minutes meet; the comment of
  `RateLimiter` says "sliding window".
- `Register` that fails on the user leaves the account and its email taken
  (`InsertUser`).
- A rotation whose final read fails leaves credentials that nobody was told
  (the last disjunct of `CredentialsKnown`).
- Of two updates of one user that overlap, the later write undoes the earlier: a change
  of name puts back the status that a suspension replaced meanwhile. It is the exception
  (`overtaken`) in `OnlyTheEditedFieldChanges`, and the reason why `SuspensionHolds`
  starts when the updates that read the user active have written.
- A token is believed until it expires: a suspended user's old token goes on
  (`Authorized`).

## 5. Fairness

Weak fairness only, and only of steps the process takes by itself: a goroutine
that can run is run, and each Redis, Mongo, carrier and webhook call returns
within a deadline. No client has to send, no carrier has to report, no fault has
to happen, and nobody has to stop the process.

- `Billing!FairSpec`: the steps of a call, of a read and of a goroutine.
- `Callbacks!CallbacksFairSpec`: a handler returns, a worker goes on, `main` goes
  on once told to stop.
- `Idempotency!FairSpec`: the steps of a request. An error of Redis is not among them
  (nothing makes it happen), except for a request whose client has gone: its
  commands do fail.
- `Server!ServerFairSpec`: as Callbacks; a request that has returned is counted,
  and a scrape ends, for the server gives up on a client that does not read
  (`WriteTimeout`). Nothing is assumed of who gets the lock first beyond what
  `RWMutex` promises.
- `RetriedSend!ChainFairSpec`: an attempt in progress goes on, through the middleware
  and Send, and a report is served; for the latter it includes the carrier repeating
  a report that was answered 404 (`CarrierRetries`). `ReportsApplied` also
  requires that crashes do not go on for ever.

## 6. What is proved

All proofs are checked to the leaves by tlapm, for every value of the constants that
satisfies the modules' named assumptions. These are typing assumptions, except
`OpeningAssumption` of Billing: accounts are opened without debt (`CreateAccount` stores
whatever `initial_balance` it is given), and the part of `UsersAssumption` that says
that the unique index was there when the first users were made. The type invariants of
Billing, Idempotency and RateLimiter are theorems only; those of the other modules say
something of the code (a capacity, a status, a role) and are checked by runs as well. A
theorem that needs more states it as its own hypothesis, named below.

**BillingProofs.**
- `TypeCorrect`: `Spec => []TypeOK`.
- `BalancesNonNegative`: `Spec => []NonNegative`. `NonNegative` is not
  inductive: a balance loaded from Mongo is stored later, and a refund adds an
  amount checked long before. `NonNegativeInductive` adds that what a call has
  loaded is not negative and that a call under way has a positive amount. The
  rest is in the scripts: the one that debits compares with the very balance it
  reduces, and the codes -1 and -2 become 0.
- `EngineImplementsWallet`: `Spec => ImplementsWallet`, with no condition on what may
  overlap or fail: for any number of accounts, calls, reads and processes, from a cold
  or a warm cache, through hydration, expiry, eviction, errors, resends and crashes,
  every step that leaves the spoiled accounts alone is a step of `Wallet`. That the
  exceptions are the five Spoilers and no more is what the theorem says. The
  inductive invariant says of an unspoiled account where its balance may be:
  `ColdAgrees`, that while it is not hot, Redis and Mongo agree and nothing is under way
  that would part them; `RefundsFollowDebits`; `UnansweredReads`. A step changes what
  callers see of one account only, which is why one account's Spoiler leaves the
  others' wallets alone.
- `EngineNeverOverspends` (`OverspendIsExplained`) and `LedgerAlwaysReconciles`
  (`LedgerReconciles`), without a condition as well. `Books` compares the
  visible balance of an unspoiled account with the calls that succeeded, and the ledger
  with their goroutines. The cost of a set of calls is the number of its micro-units
  (`Units`), so that adding a call to it is the cardinality of a union and needs no
  induction over a sum.

**CallbacksProofs.**
- `CallbacksTypeCorrect`: in particular, the channel never exceeds its capacity.
- `NothingAcceptedIsLost`: `AcceptedIsAttempted`, whether or not Shutdown waits for the
  handlers. `NothingLost` says that every accepted callback is in the channel or with a
  worker and that a worker leaves only when the closed channel is empty.

**ServerProofs.**
- `ServerImplementsCallbacks`: `ServerSpec => CallbacksSpec`, so that what is proved
  of the channel and the shutdown holds of the server with its metrics.
- `NoCountIsLost` (`CountedOnce`), by `Exclusive`, mutual exclusion of metricsMu
  among writers and between a writer and the readers, and `CountsRight`, which says
  of every moment inside the critical section what the maps hold.
- `ScrapesAreOfOneMoment` (`ScrapeIsOfOneMoment`), by `ShownAgrees`.

**SmsServiceProofs.** First of SmsService:
- `SmsImplementsCallbacks`, `SmsTypeCorrect`. The channel's invariants are not proved
  again: the module instantiates CallbacksProofs and carries its lemmas over.
- `NothingIsCarriedForFree` (`CarriedWasCharged`), `EveryRefundIsOwed` (`RefundIsOwed`)
  under every fault; `ClientsPayForWhatIsCarried` (`PaidIffCarried`) and
  `ErrorsCostNothing` (`ErrorsAreFree`) if the billing engine answers
  (`BillingAnswers`). `SmsInv` says of each place in `Send` what has been charged,
  carried and stored by then.
- `ReportsAreNotOverwritten` (`SendKeepsReports`), by `IdIsLast`: a report can
  find only a document whose Send has nothing left to write.
- `DocumentsSayWhatWasTold` (`StoredIsTold`) if Mongo answers (`MongoAnswers`).
- `SmsUsesTheWallet`: a step of SmsService is a step of `Wallet` or leaves it alone. It
  holds by the composition, and `EveryRefundIsOwed` says that no step of Send is lost
  to it: the guard of `Refund` never keeps the code from a refund it would make.
- `AccountsSettle`, with the wallet as the engine and if it answers (`BillingAnswers`):
  once an account's sends are over, their clients stayed and the carrier told what became
  of each message it took, the balance is the opening one less the price of the
  messages the carrier took. It joins the wallet's books (`Books`: a balance is what
  the charges that stand have left) to the path of each Send (`SmsInv`). An engine
  whose account has met a Spoiler is not a wallet, and then it says nothing. No run
  checks it: it is about sums, and `PaidIffCarried` is what a run says of each
  message.

Then of RetriedSend, for any number of attempts, under every fault it has:
- `OneMessageIsCarried` (`CarriedOnce`) and `OnePriceIsPaid` (`ChargedOnce`). The
  invariant `ChainInv` says that an attempt inside the middleware is the holder of the
  key, and that one which paid or reached the carrier either still holds it, locked or
  saved, or gave it back after a refund. Neither property is inductive: both rest on
  what Send answers (`EndOf`) agreeing with what it did.
- `OneChargeStands`: if the billing engine answers, at most one charge stands, without
  the exception `ChargedOnce` makes. `Unowed` says that an attempt which ended in a
  server error before a client that stayed has its money back.
- `ChainImplementsIdempotency`: `ChainSpec => I!Spec`, so that what IdempotencyProofs
  shows of one key holds with Send as the handler; `ChainUsesTheWallet`.

**RateLimiterProofs.**
- `RateLimiterTypeCorrect`; `RefusalsAreEarned` (`RefusedWhenSpent`).
- `NoMinuteAdmitsMore` (`MinuteLimit`) if `KeyOutlivesItsRequests`
  (`Minute + Delay <= Life`: 60 s, and what a request may take to Redis, against 70 s; a
  condition the code does not ensure, see RateLimits in section 3). `LimitInv`
  compares the counter of each minute with the requests that have counted on it,
  as long as any request of that minute may still come.
- `NoWindowAdmitsTwiceMore`: any minute, wherever it begins, admits at most twice
  the limit: the price of windows that follow the clock.

**AuthProofs.** Of Users:
- `UsersTypeCorrect`; `EmailsAreUnique` (`OneUserPerEmail`): an insert meets the unique
  index, and nothing else changes which users there are.
- `DeletionIsFinal` (`DeletedStaysDeleted`): whole-document writes match
  on the id of a user that exists.
- `EditsKeepTheRest` (`OnlyTheEditedFieldChanges`), however many updates overlap: `Fresh`
  says that what an update has read is still the document, up to the time of the last
  login, unless another update overtook it or the user is gone.
- `SuspensionIsRespected` (`SuspensionHolds`) under `SuspensionAssumption`: no request
  sets a status back to active, and nobody else is given the email a login asks for. The
  run satisfies both. Updates overlap freely: those that read the user active
  before the suspension have to be over where the property begins (`Suspended`). `ShutOut`
  is what holds of a request from there on: the user is not active, or gone for good, no
  update in progress has read it as active, and nobody else is under its email.

Of Credentials, for any number of rotations, with Mongo errors:
- `SomebodyKnowsTheCredentials` (`CredentialsKnown`) and `CredentialsAreToldWhole`
  (`ToldAreWhole`). `CredentialsInv` adds that only a rotation updates, that what is
  stored is whole, and that the credentials in force, if nobody was told them, are those
  of a rotation that is about to read them back or that failed, which the
  property does not say and needs for its third case.

**IdempotencyProofs.**
- `TypeCorrect`.
- `OneRunsAtATime` (`AtMostOneRunning`), by `RunnerHolds`: whoever runs, saves or
  releases has the key, until it expires under a handler.
- `ReplaysAreOfSuccesses` (`ReplayIsOfSuccess`), by `StepFollowsOutcome` and
  `SavedIsOfSuccess`: only a 2xx is ever saved, and a saved response is its request's.
- `OneSucceeds` (`OneSuccess`), by `SuccessHolds`: a request that succeeded keeps
  the key from everybody else until it expires, saved or merely locked.

**Segments.** For bodies of any length and any mix of characters: `BilledExactly`
(`BilledAsCarried`), `NeverFarOff` (`WithinThreefold`) and `LongerIsNeverCheaper`
(`NeverCheaper`). The invariant `Inv` says that nothing is left unused at the end of a
part as long as every character takes one septet or unit, and how few characters the
septets or units used so far can be of (`Holds`: a part has room for 76 or 33 that take
two); the rest is integer arithmetic about rounding up.

## 7. What is only model-checked, and what is not modelled

Every safety property of the passing runs is a theorem. Out of the prover's reach and
left to TLC is liveness under fairness: `EveryCallReturns`, `EverySuccessIsPersisted`,
`StopEnds`, `EveryRequestEnds`, `EveryRequestAnswered`, `EveryAttemptAnswered`,
`ReportsApplied`.

Not modelled:

- *Configuration, logging, CORS, error and response helpers, health endpoints*:
  read once, or formatting, or without state.
- *bcrypt and JWT signing, the drawing of credentials*: a token is what it
  claims, a rotation's credentials are new.
- *A suspended account*: the status is checked in several places, but no operation
  of this program ever sets it.
- *Degraded starts*: a process that starts without Redis or Mongo serves with nil
  clients, and a request that needs them ends in Recovery's 500.
- *Reads* (lists, `Me`, `GetBySID`): they change nothing and lock nothing.
- *The HTTP request to the carrier* and the mock gateway: `Dispatch` has the
  outcomes a Send can be given.
- *The connection pools and retries of the drivers*, except where a retry has an
  effect of its own (`LostReply`, `Resend`).
- *The Lua scripts' numbers*: `tonumber` makes a double of the balance, which is exact
  up to 2^53 micro-units only and is written back with 17 digits; `DeductReply` and
  `CreditReply` are exact.
- *Accounts opened with debt*: `initial_balance` is stored unchecked, and
  `OpeningAssumption` leaves negative ones out.
- In RetriedSend the attempts are made within the life of the key (a day) and under
  one SID; a key that expires under a handler is in Idempotency. A process that is
  restarted there stands for any number of processes that do not serve the same
  attempt.
- Bounds: `MaxInFlight`, `MaxResends` (Billing; per call or read, where the Redis client
  sends each command up to three times more), `Capacity` (1 for 500), two workers
  for five (one in SmsService and RetriedSend), `Horizon`, `Delay`, `Minute`, `Life`
  (RateLimiter; a count past the limit is not driven further up by `Resend`),
  `MaxLength` (Segments).

## 8. Plan

In this order:

1. RetriedSend with a rotation, or the end of the key's life, between two attempts:
   what is carried twice then, and what is not (at most one message per SID).
2. Billing with two accounts whose purchases have one reference id, and the
   order of two goroutines' writes to Mongo stated as a bound on how old its balance is.
