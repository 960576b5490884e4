------------------------------ MODULE Billing -------------------------------
(***************************************************************************)
(* The billing engine: internal/features/billing/service.go over the Redis *)
(* balance cache (billing/redis/cache.go) and the MongoDB account store    *)
(* (account/mongodb/repository.go).                                        *)
(*                                                                         *)
(* Each Redis command or script and each Mongo operation is one step; what *)
(* a goroutine does between two of them is local to it.  A purchase (Refs) *)
(* makes one DeductBalance call and, after it succeeded, at most one       *)
(* RefundBalance call: that is how sms/service.go uses the engine.         *)
(***************************************************************************)
EXTENDS Integers, FiniteSets

CONSTANTS
    Accounts,     \* billed accounts
    Refs,         \* reference ids of purchases
    Readers,      \* GetBalance and CheckBalance calls
    Owner,        \* the account of a purchase or of a read
    Cost,         \* the amount of a purchase
    Opening,      \* the balance Mongo holds when the model starts
    Warm,         \* the accounts whose balance is in Redis at the start
    MaxInFlight,  \* how many calls of the engine may overlap
    MaxResends,   \* how often the Redis client sends a command of one call again
    Faults,       \* which of AllFaults the environment may produce
    Absent        \* no value: a missing Redis key, a read without an answer

AllFaults == {"redisError", "lostReply", "resend", "mongoError", "evict", "expire", "crash"}

Calls == Refs \X {"debit", "refund"}

ASSUME ConstantsAssumption ==
    /\ Owner \in [Refs \cup Readers -> Accounts]
    /\ Cost \in [Refs -> Int]
    /\ Warm \subseteq Accounts
    /\ MaxInFlight \in Nat \ {0}
    /\ MaxResends \in Nat
    /\ Faults \subseteq AllFaults
    /\ Absent \notin Int
    /\ Readers \cap Calls = {}

\* CreateAccount stores any int64 the client sends as initial_balance; the
\* engine is modelled for the accounts opened without debt.
ASSUME OpeningAssumption == Opening \in [Accounts -> Nat]

VARIABLES
    cache,    \* Redis: account:balance:<id>, or Absent
    ttl,      \* whether that key carries an expiry
    db,       \* Mongo: accounts.balance
    ledger,   \* Mongo: the transactions recorded, by the call that made them
    pc,       \* where each call stands
    loaded,   \* the balance a call read from Mongo on a cache miss (a local: 0 when unused)
    seen,     \* what a GetBalance call answered
    job,      \* the background goroutine of a call that succeeded
    remaining, \* the balance that goroutine captured (0 when unused)
    resent,   \* how often a command of the call or read was sent again
    spoiled   \* (history, for the properties) the accounts that have met a Spoiler

vars == <<cache, ttl, db, ledger, pc, loaded, seen, job, remaining, resent, spoiled>>
stores == <<cache, ttl, db, ledger>>
jobs == <<job, remaining>>
aside == <<resent, spoiled>>

Debit(r) == <<r, "debit">>
RefundOf(r) == <<r, "refund">>
AccountOf(c) == Owner[c[1]]
AmountOf(c) == Cost[c[1]]

\* The account a call or a read works on.
AccountFor(p) == IF p \in Calls THEN AccountOf(p) ELSE Owner[p]

Active == {"mutate", "load", "store", "retry"}
CallStates == Active \cup {"idle", "ok", "denied", "failed", "dead"}
ReaderStates == {"idle", "get", "load", "store", "ok", "failed", "dead"}
Running(c) == pc[c] \in Active \cup {"get"}
Processes == Calls \cup Readers

TypeOK ==
    /\ cache \in [Accounts -> Int \cup {Absent}]
    /\ ttl \in [Accounts -> BOOLEAN]
    /\ db \in [Accounts -> Int]
    /\ ledger \in SUBSET Calls
    /\ pc \in [Processes -> CallStates \cup ReaderStates]
    /\ \A c \in Calls : pc[c] \in CallStates
    /\ \A q \in Readers : pc[q] \in ReaderStates
    /\ loaded \in [Processes -> Int]
    /\ seen \in [Readers -> Int \cup {Absent}]
    /\ job \in [Calls -> {"none", "record", "sync", "done"}]
    /\ remaining \in [Calls -> Int]
    /\ resent \in [Processes -> 0..MaxResends]
    /\ spoiled \in SUBSET Accounts

Init ==
    /\ cache = [a \in Accounts |-> IF a \in Warm THEN Opening[a] ELSE Absent]
    /\ ttl = [a \in Accounts |-> a \in Warm]
    /\ db = Opening
    /\ ledger = {}
    /\ pc = [p \in Processes |-> "idle"]
    /\ loaded = [p \in Processes |-> 0]
    /\ seen = [q \in Readers |-> Absent]
    /\ job = [c \in Calls |-> "none"]
    /\ remaining = [c \in Calls |-> 0]
    /\ resent = [p \in Processes |-> 0]
    /\ spoiled = {}

Goto(p, where) == pc' = [pc EXCEPT ![p] = where]

-----------------------------------------------------------------------------
(* The Lua scripts and what the caller makes of their integer reply.       *)

DeductReply(a, amount) ==
    IF cache[a] = Absent THEN -1
    ELSE IF cache[a] < amount THEN -2 ELSE cache[a] - amount

CreditReply(a, amount) == IF cache[a] = Absent THEN -1 ELSE cache[a] + amount

Reply(c) ==
    IF c[2] = "debit" THEN DeductReply(AccountOf(c), AmountOf(c))
                      ELSE CreditReply(AccountOf(c), AmountOf(c))

\* A script that changes the balance stores it with a plain SET, which also
\* discards the expiry that Set gave the key.
Applies(c) ==
    /\ cache[AccountOf(c)] # Absent
    /\ c[2] = "debit" => cache[AccountOf(c)] >= AmountOf(c)

\* (mutant) SET ... KEEPTTL.
RunScriptKeepingTtl(c) ==
    /\ cache' = IF Applies(c) THEN [cache EXCEPT ![AccountOf(c)] = Reply(c)] ELSE cache
    /\ UNCHANGED ttl

RunScript(c) ==
    IF Applies(c)
    THEN /\ cache' = [cache EXCEPT ![AccountOf(c)] = Reply(c)]
         /\ ttl' = [ttl EXCEPT ![AccountOf(c)] = FALSE]
    ELSE UNCHANGED <<cache, ttl>>

CacheMiss(reply) == reply = -1
InsufficientFunds(reply) == reply = -2

\* (mutant) The codes are not told from a balance.
BalanceInUndecoded(reply) == reply

BalanceIn(reply) == IF reply \in {-1, -2} THEN 0 ELSE reply

-----------------------------------------------------------------------------
(* What the code lets happen to a balance.  Nothing serialises the calls   *)
(* of an account, Redis may drop what it holds and a reply may be lost:    *)
(* the engine is a wallet up to the first of five events (Spoiler), of     *)
(* which the steps below keep a record in spoiled.  No step looks at it.   *)

\* The balance is in Redis to stay: a script has changed it.
Hot(a) == cache[a] # Absent /\ ~ttl[a]

Persisting(c) == job[c] \in {"record", "sync"}

\* 1. What was loaded from Mongo is stored in Redis, or answered, although a script
\* has changed the balance in Redis or a goroutine that in Mongo meanwhile.
Outdated(p) == Hot(AccountFor(p)) \/ loaded[p] # db[AccountFor(p)]

\* 2. Redis drops a balance that Mongo does not have, or will not keep.
NotInMongo(a) ==
    /\ Hot(a)
    /\ cache[a] # db[a] \/ \E c \in Calls : AccountOf(c) = a /\ Persisting(c)

\* 3. A script changes the balance and its reply is lost, so that the caller is told
\* of an error; 4. the same, and the Redis client sends it once more; 5. the script
\* misses the cache twice, which its caller takes for a success.
Spoiler(a, happens) == spoiled' = IF happens THEN spoiled \cup {a} ELSE spoiled

-----------------------------------------------------------------------------
(* DeductBalance and RefundBalance.                                        *)

\* How many calls and reads overlap, for TLC: on one account, cold or not.
MayCall == Cardinality({p \in Processes : Running(p)}) < MaxInFlight

\* An amount that is not positive is refused before anything is touched.
Begin(c) ==
    /\ pc[c] = "idle"
    /\ c[2] = "refund" => pc[Debit(c[1])] = "ok"
    /\ MayCall
    /\ Goto(c, IF AmountOf(c) > 0 THEN "mutate" ELSE "failed")
    /\ UNCHANGED <<stores, loaded, seen, jobs, aside>>

\* (mutant) Only debits are persisted.
SucceedRecordingDebits(c) ==
    /\ Goto(c, "ok")
    /\ job' = [job EXCEPT ![c] = IF c[2] = "debit" THEN "record" ELSE "none"]
    /\ remaining' = [remaining EXCEPT ![c] = BalanceIn(Reply(c))]

\* Success: the goroutine that persists it is started with the balance the
\* script returned, and the caller has its answer.
Succeed(c) ==
    /\ Goto(c, "ok")
    /\ job' = [job EXCEPT ![c] = "record"]
    /\ remaining' = [remaining EXCEPT ![c] = BalanceIn(Reply(c))]

\* Only DeductBalance looks at InsufficientFunds.
Refused(c) == c[2] = "debit" /\ InsufficientFunds(Reply(c))

\* The first run of the script.
Mutate(c) ==
    /\ pc[c] = "mutate"
    /\ RunScript(c)
    /\ \/ CacheMiss(Reply(c)) /\ Goto(c, "load") /\ UNCHANGED jobs
       \/ Refused(c) /\ Goto(c, "denied") /\ UNCHANGED jobs
       \/ ~CacheMiss(Reply(c)) /\ ~Refused(c) /\ Succeed(c)
    /\ UNCHANGED <<db, ledger, loaded, seen, aside>>

\* hydrateCache, its read.
HydrateLoad(c) ==
    /\ pc[c] = "load"
    /\ loaded' = [loaded EXCEPT ![c] = db[AccountOf(c)]]
    /\ Goto(c, "store")
    /\ UNCHANGED <<stores, seen, jobs, aside>>

\* Set: it overwrites whatever is in the cache by now.
Fill(p) ==
    /\ cache' = [cache EXCEPT ![AccountFor(p)] = loaded[p]]
    /\ ttl' = [ttl EXCEPT ![AccountFor(p)] = TRUE]

\* hydrateCache, its write.
HydrateStore(c) ==
    /\ pc[c] = "store"
    /\ Fill(c)
    /\ Spoiler(AccountOf(c), Outdated(c))
    /\ loaded' = [loaded EXCEPT ![c] = 0]
    /\ Goto(c, "retry")
    /\ UNCHANGED <<db, ledger, seen, jobs, resent>>

\* (mutant) Hydrate again for as long as the script misses.
RetryUntilHit(c) ==
    /\ pc[c] = "retry"
    /\ RunScript(c)
    /\ \/ CacheMiss(Reply(c)) /\ Goto(c, "load") /\ UNCHANGED jobs
       \/ Refused(c) /\ Goto(c, "denied") /\ UNCHANGED jobs
       \/ ~CacheMiss(Reply(c)) /\ ~Refused(c) /\ Succeed(c)
    /\ UNCHANGED <<db, ledger, loaded, seen, aside>>

\* The second run of the script.  A second miss is not looked at: it counts
\* as a success that left a balance of 0.
Retry(c) ==
    /\ pc[c] = "retry"
    /\ RunScript(c)
    /\ \/ Refused(c) /\ Goto(c, "denied") /\ UNCHANGED jobs
       \/ ~Refused(c) /\ Succeed(c)
    /\ Spoiler(AccountOf(c), CacheMiss(Reply(c)))
    /\ UNCHANGED <<db, ledger, loaded, seen, resent>>

\* A Redis command fails before it took effect.
RedisError(c) ==
    /\ "redisError" \in Faults
    /\ pc[c] \in {"mutate", "store", "retry"}
    /\ loaded' = [loaded EXCEPT ![c] = 0]
    /\ Goto(c, "failed")
    /\ UNCHANGED <<stores, seen, jobs, aside>>

\* The command a call or a read is waiting for, run by Redis, and what that does to
\* the account if the reply does not arrive.
Command(p) == IF pc[p] = "store" THEN Fill(p) ELSE RunScript(p)
Unnoticed(p) ==
    Spoiler(AccountFor(p), IF pc[p] = "store" THEN Outdated(p) ELSE Applies(p))

\* A command took effect but its reply never arrived: the caller gets an error.
LostReply(c) ==
    /\ "lostReply" \in Faults
    /\ pc[c] \in {"mutate", "store", "retry"}
    /\ Command(c)
    /\ Unnoticed(c)
    /\ loaded' = [loaded EXCEPT ![c] = 0]
    /\ Goto(c, "failed")
    /\ UNCHANGED <<db, ledger, seen, jobs, resent>>

\* The same, and the Redis client sends the command again: what it did is done
\* twice, and the caller knows the last reply only.
Resend(p) ==
    /\ "resend" \in Faults
    /\ pc[p] \in {"mutate", "store", "retry"}
    /\ resent[p] < MaxResends
    /\ Command(p)
    /\ Unnoticed(p)
    /\ resent' = [resent EXCEPT ![p] = @ + 1]
    /\ UNCHANGED <<db, ledger, pc, loaded, seen, jobs>>

\* GetByID fails.
LoadError(c) ==
    /\ "mongoError" \in Faults
    /\ pc[c] = "load"
    /\ Goto(c, "failed")
    /\ UNCHANGED <<stores, loaded, seen, jobs, aside>>

-----------------------------------------------------------------------------
(* GetBalance.                                                             *)

BeginRead(q) ==
    /\ pc[q] = "idle"
    /\ MayCall
    /\ Goto(q, "get")
    /\ UNCHANGED <<stores, loaded, seen, jobs, aside>>

ReadCache(q) ==
    /\ pc[q] = "get"
    /\ IF cache[Owner[q]] # Absent
       THEN /\ seen' = [seen EXCEPT ![q] = cache[Owner[q]]]
            /\ Goto(q, "ok")
       ELSE Goto(q, "load") /\ UNCHANGED seen
    /\ UNCHANGED <<stores, loaded, jobs, aside>>

ReadStore(q) ==
    /\ pc[q] = "load"
    /\ loaded' = [loaded EXCEPT ![q] = db[Owner[q]]]
    /\ Goto(q, "store")
    /\ UNCHANGED <<stores, seen, jobs, aside>>

\* The cache is primed whatever it holds by now; if that fails the read does not.
PrimeCache(q) ==
    /\ pc[q] = "store"
    /\ seen' = [seen EXCEPT ![q] = loaded[q]]
    /\ loaded' = [loaded EXCEPT ![q] = 0]
    /\ Goto(q, "ok")
    /\ \/ Fill(q)
       \/ "redisError" \in Faults /\ UNCHANGED <<cache, ttl>>
    /\ Spoiler(Owner[q], Outdated(q))
    /\ UNCHANGED <<db, ledger, jobs, resent>>

ReadError(q) ==
    /\ \/ pc[q] = "get" /\ "redisError" \in Faults
       \/ pc[q] = "load" /\ "mongoError" \in Faults
    /\ Goto(q, "failed")
    /\ UNCHANGED <<stores, loaded, seen, jobs, aside>>

-----------------------------------------------------------------------------
(* The goroutine that persists a successful call.  Errors are only logged. *)

RecordTransaction(c) ==
    /\ job[c] = "record"
    /\ \/ ledger' = ledger \cup {c}
       \/ "mongoError" \in Faults /\ UNCHANGED ledger
    /\ job' = [job EXCEPT ![c] = "sync"]
    /\ UNCHANGED <<cache, ttl, db, pc, loaded, seen, remaining, aside>>

UpdateBalance(c) ==
    /\ job[c] = "sync"
    /\ \/ db' = [db EXCEPT ![AccountOf(c)] = remaining[c]]
       \/ "mongoError" \in Faults /\ UNCHANGED db
    /\ job' = [job EXCEPT ![c] = "done"]
    /\ remaining' = [remaining EXCEPT ![c] = 0]
    /\ UNCHANGED <<cache, ttl, ledger, pc, loaded, seen, aside>>

-----------------------------------------------------------------------------
(* The environment.                                                        *)

\* Redis drops a key (memory pressure, a restart without persistence).
Evict(a) ==
    /\ "evict" \in Faults
    /\ cache[a] # Absent
    /\ cache' = [cache EXCEPT ![a] = Absent]
    /\ ttl' = [ttl EXCEPT ![a] = FALSE]
    /\ Spoiler(a, NotInMongo(a))
    /\ UNCHANGED <<db, ledger, pc, loaded, seen, jobs, resent>>

\* The key's seven days are over.  They outlast every call and every background
\* write (5 s), so what was under way when the key was set has ended.
Expire(a) ==
    /\ "expire" \in Faults
    /\ ttl[a]
    /\ \A c \in Calls : AccountOf(c) = a =>
           pc[c] \notin {"load", "store", "retry"} /\ ~Persisting(c)
    /\ \A q \in Readers : Owner[q] = a => pc[q] \notin {"load", "store"}
    /\ cache' = [cache EXCEPT ![a] = Absent]
    /\ ttl' = [ttl EXCEPT ![a] = FALSE]
    /\ UNCHANGED <<db, ledger, pc, loaded, seen, jobs, aside>>

\* A process of the program stops: the calls of the purchases and reads it served that
\* are under way, the refunds their callers would have made and the goroutines nobody
\* waits for are gone.  Redis, Mongo and the other processes keep what they have.
ServedBy(served) == (served \X {"debit", "refund"}) \cup (served \cap Readers)

Orphaned(p) ==
    \/ Running(p)
    \/ \E r \in Refs : p = RefundOf(r) /\ pc[p] = "idle" /\ pc[Debit(r)] # "idle"

\* The purchases and reads a crash can still make a difference to.
Unfinished ==
    {x \in Refs \cup Readers :
        \E p \in Processes \cap ServedBy({x}) : Orphaned(p) \/ (p \in Calls /\ Persisting(p))}

Crash(served) ==
    /\ "crash" \in Faults
    /\ served \subseteq Unfinished
    /\ pc' = [p \in Processes |-> IF p \in ServedBy(served) /\ Orphaned(p) THEN "dead" ELSE pc[p]]
    /\ job' = [c \in Calls |-> IF c \in ServedBy(served) /\ Persisting(c) THEN "done" ELSE job[c]]
    /\ loaded' = [p \in Processes |-> IF p \in ServedBy(served) THEN 0 ELSE loaded[p]]
    /\ remaining' = [c \in Calls |-> IF c \in ServedBy(served) THEN 0 ELSE remaining[c]]
    /\ UNCHANGED <<stores, seen, aside>>

-----------------------------------------------------------------------------
CallStep(c) ==
    \/ Mutate(c) \/ HydrateLoad(c) \/ HydrateStore(c) \/ Retry(c)
    \/ RedisError(c) \/ LostReply(c) \/ LoadError(c)

ReadStep(q) == ReadCache(q) \/ ReadStore(q) \/ PrimeCache(q) \/ ReadError(q)

Persist(c) == RecordTransaction(c) \/ UpdateBalance(c)

Next ==
    \/ \E c \in Calls : Begin(c) \/ CallStep(c) \/ Persist(c)
    \/ \E q \in Readers : BeginRead(q) \/ ReadStep(q)
    \/ \E p \in Processes : Resend(p)
    \/ \E a \in Accounts : Evict(a) \/ Expire(a)
    \/ \E served \in (SUBSET Unfinished) \ {{}} : Crash(served)

Spec == Init /\ [][Next]_vars

\* The Go scheduler runs every goroutine that can run, and every Redis and Mongo
\* operation returns within its deadline; nobody is obliged to make a call.
Fairness ==
    /\ \A c \in Calls : WF_vars(CallStep(c)) /\ WF_vars(Persist(c))
    /\ \A q \in Readers : WF_vars(ReadStep(q))

FairSpec == Spec /\ Fairness

-----------------------------------------------------------------------------
(* Properties.                                                             *)

\* No balance the engine ever writes is negative, in Redis, in Mongo or on
\* its way there, whatever fails and however calls interleave: the Lua script
\* checks the very balance it reduces, and its negative replies are codes that
\* must never be mistaken for a balance (cache.go deductLuaScript,
\* mutationFromRedisResult).
NonNegative ==
    /\ \A a \in Accounts : cache[a] # Absent => cache[a] >= 0
    /\ \A a \in Accounts : db[a] >= 0
    /\ \A c \in Calls : remaining[c] >= 0

\* The balance a caller sees: Redis, or Mongo where Redis holds nothing.
VisibleBalance == [a \in Accounts |-> IF cache[a] = Absent THEN db[a] ELSE cache[a]]

StatusOf(r) ==
    CASE pc[RefundOf(r)] = "ok" -> "refunded"
      [] pc[RefundOf(r)] # "ok" /\ pc[Debit(r)] = "ok" -> "charged"
      [] pc[Debit(r)] \in {"denied", "failed"} -> pc[Debit(r)]
      [] OTHER -> "new"

W == INSTANCE Wallet WITH
        balance <- VisibleBalance,
        status <- [r \in Refs |-> StatusOf(r)],
        Unread <- Absent

\* All that an account's callers see of it.
WalletOf(a) ==
    <<VisibleBalance[a],
      [r \in {r \in Refs : Owner[r] = a} |-> StatusOf(r)],
      [q \in {q \in Readers : Owner[q] = a} |-> seen[q]]>>

\* Up to its first Spoiler every account is a wallet: a purchase is charged,
\* denied, failed or refunded in one indivisible step that looks at the balance
\* it changes, and a read answers a balance the account had when it answered,
\* although calls overlap, hot or cold, balances are loaded, cached, expired,
\* evicted and written back underneath, and any part of them stops (service.go,
\* DeductBalance to hydrateCache).  A step that leaves the spoiled accounts alone
\* is one of the wallet's.
ImplementsWallet ==
    /\ W!Init
    /\ [][(\A a \in spoiled' : UNCHANGED WalletOf(a)) => W!Next]_(W!walletVars)

\* What the calls S amount to: the amount of each, one element per micro-unit.
Units(S) == UNION {{c} \X (1..AmountOf(c)) : c \in S}
CostOf(S) == Cardinality(Units(S))
DebitsOf(a) == {c \in Calls : AccountOf(c) = a /\ c[2] = "debit"}
RefundsOf(a) == {c \in Calls : AccountOf(c) = a /\ c[2] = "refund"}
Ok(S) == {c \in S : pc[c] = "ok"}

Quiet(a) == \A c \in Calls : AccountOf(c) = a => ~Running(c) /\ ~Persisting(c)

\* Once nothing is under way and no record was lost on the way to Mongo, the
\* transactions recorded account for the balance callers see, in Redis or, where it
\* has expired or was evicted, in Mongo: opening balance minus debits plus refunds,
\* although each record and each balance is written by a goroutine of its own, in
\* any order (service.go, the goroutines of DeductBalance and RefundBalance).  Only
\* a Spoiler can part the two.
LedgerReconciles ==
    \A a \in Accounts \ spoiled :
        /\ Quiet(a)
        /\ \A c \in Calls : AccountOf(c) = a /\ job[c] = "done" => c \in ledger
        => VisibleBalance[a] = Opening[a] - CostOf(DebitsOf(a) \cap ledger)
                                          + CostOf(RefundsOf(a) \cap ledger)

\* What the purchases charged and not refunded cost.
Spent(a) == CostOf(Ok(DebitsOf(a))) - CostOf(Ok(RefundsOf(a)))

\* No account pays for more than it had unless one of the five Spoilers came first:
\* there is no other way for the engine to overspend, however calls overlap
\* and whatever fails (service.go:46-101).
OverspendIsExplained == \A a \in Accounts \ spoiled : Spent(a) <= Opening[a]

\* "DeductBalance atomically reduces the account's balance" (service.go:46):
\* purchases charged and not refunded never cost more than the account had.
NeverOverspent == \A a \in Accounts : Spent(a) <= Opening[a]

\* No call is kept going for ever by a cache that keeps losing the key: the
\* balance is loaded once and the script is run twice at most.
EveryCallReturns == \A p \in Processes : Running(p) ~> ~Running(p)

\* Every debit and refund reported as a success is taken to Mongo, whether or
\* not the writes then succeed and unless the process ends first
\* ("Asynchronously record ledger entry and sync DB balance", service.go:70).
EverySuccessIsPersisted == \A c \in Calls : pc[c] = "ok" ~> job[c] = "done"
=============================================================================
