---------------------------- MODULE BillingProofs ---------------------------
(***************************************************************************)
(* Theorems about Billing, for every value of its constants.               *)
(***************************************************************************)
EXTENDS Billing, FiniteSetTheorems, TLAPS

USE DEF Debit, RefundOf

\* The parts of a call and the types of what its reference names.
LEMMA CallFacts ==
    ASSUME NEW c \in Calls
    PROVE  /\ c[1] \in Refs
           /\ c[2] \in {"debit", "refund"}
           /\ c = <<c[1], c[2]>>
           /\ AccountOf(c) \in Accounts
           /\ AmountOf(c) \in Int
           /\ c \in Processes
           /\ c \notin Readers
  BY ConstantsAssumption DEF Calls, AccountOf, AmountOf, Processes

LEMMA ReaderFacts ==
    ASSUME NEW q \in Readers
    PROVE  /\ Owner[q] \in Accounts
           /\ q \in Processes
           /\ q \notin Calls
  BY ConstantsAssumption DEF Processes

LEMMA ProcessFacts ==
    ASSUME NEW p \in Processes
    PROVE  /\ AccountFor(p) \in Accounts
           /\ p \in Calls => AccountFor(p) = AccountOf(p)
           /\ p \in Readers => AccountFor(p) = Owner[p] /\ p \notin Calls
           /\ p \in Calls \/ p \in Readers
  BY CallFacts, ReaderFacts DEF AccountFor, Processes

\* What a script writes is an integer.
LEMMA ScriptTypes ==
    ASSUME TypeOK, NEW c \in Calls, RunScript(c)
    PROVE  /\ cache' \in [Accounts -> Int \cup {Absent}]
           /\ ttl' \in [Accounts -> BOOLEAN]
           /\ Reply(c) \in Int
           /\ BalanceIn(Reply(c)) \in Int
  <1>1. Reply(c) \in Int
    BY CallFacts, ConstantsAssumption DEF TypeOK, Reply, DeductReply, CreditReply
  <1>2. BalanceIn(Reply(c)) \in Int
    BY <1>1 DEF BalanceIn
  <1>3. CASE Applies(c)
    BY <1>1, <1>2, <1>3, CallFacts DEF TypeOK, RunScript
  <1>4. CASE ~Applies(c)
    BY <1>1, <1>2, <1>4 DEF TypeOK, RunScript
  <1> QED
    BY <1>3, <1>4

\* So is what a command does that is run without its reply being known.
LEMMA FillTypes ==
    ASSUME TypeOK, NEW p \in Processes, Fill(p)
    PROVE  /\ cache' \in [Accounts -> Int \cup {Absent}]
           /\ ttl' \in [Accounts -> BOOLEAN]
  BY ProcessFacts DEF TypeOK, Fill

LEMMA WhoWaits ==
    ASSUME TypeOK, NEW p \in Processes, pc[p] \in {"mutate", "retry"}
    PROVE  p \in Calls
  BY ProcessFacts DEF TypeOK, ReaderStates

LEMMA CommandTypes ==
    ASSUME TypeOK, NEW p \in Processes, pc[p] \in {"mutate", "store", "retry"},
           Command(p), Unnoticed(p)
    PROVE  /\ cache' \in [Accounts -> Int \cup {Absent}]
           /\ ttl' \in [Accounts -> BOOLEAN]
           /\ spoiled' \in SUBSET Accounts
  <1>1. CASE pc[p] = "store"
    BY <1>1, FillTypes, ProcessFacts DEF Command, Unnoticed, Spoiler, TypeOK
  <1>2. CASE pc[p] # "store"
    BY <1>2, ScriptTypes, WhoWaits, ProcessFacts DEF Command, Unnoticed, Spoiler, TypeOK
  <1> QED
    BY <1>1, <1>2

\* Where a call may go.
LEMMA GotoTypes ==
    ASSUME TypeOK, NEW c \in Calls, NEW s \in CallStates, Goto(c, s)
    PROVE  /\ pc' \in [Processes -> CallStates \cup ReaderStates]
           /\ \A d \in Calls : pc'[d] \in CallStates
           /\ \A q \in Readers : pc'[q] \in ReaderStates
  BY CallFacts, ReaderFacts DEF TypeOK, Goto

LEMMA GotoTypesReader ==
    ASSUME TypeOK, NEW q \in Readers, NEW s \in ReaderStates, Goto(q, s)
    PROVE  /\ pc' \in [Processes -> CallStates \cup ReaderStates]
           /\ \A d \in Calls : pc'[d] \in CallStates
           /\ \A r \in Readers : pc'[r] \in ReaderStates
  BY CallFacts, ReaderFacts DEF TypeOK, Goto

LEMMA SucceedTypes ==
    ASSUME TypeOK, NEW c \in Calls, RunScript(c), Succeed(c)
    PROVE  /\ job' \in [Calls -> {"none", "record", "sync", "done"}]
           /\ remaining' \in [Calls -> Int]
  BY ScriptTypes DEF TypeOK, Succeed

\* Every step of a call, of its goroutine, of a read and of the environment
\* keeps the types.
LEMMA CallStepTypes ==
    ASSUME TypeOK, NEW c \in Calls, Begin(c) \/ CallStep(c)
    PROVE  TypeOK'
  <1> USE DEF stores, jobs, aside
  <1>1. CASE Begin(c)
    BY <1>1, GotoTypes DEF Begin, TypeOK, CallStates, Active
  <1>2. CASE Mutate(c)
    <2>1. CASE ~CacheMiss(Reply(c)) /\ ~Refused(c) /\ Succeed(c)
      BY <1>2, <2>1, GotoTypes, ScriptTypes, SucceedTypes
         DEF Mutate, Succeed, TypeOK, CallStates
    <2>2. CASE UNCHANGED jobs
      BY <1>2, <2>2, GotoTypes, ScriptTypes
         DEF Mutate, Succeed, TypeOK, CallStates, Active
    <2> QED
      BY <1>2, <2>1, <2>2 DEF Mutate
  <1>3. CASE HydrateLoad(c)
    BY <1>3, GotoTypes, CallFacts DEF HydrateLoad, TypeOK, CallStates, Active
  <1>4. CASE HydrateStore(c)
    <2>1. /\ cache' \in [Accounts -> Int \cup {Absent}]
          /\ ttl' \in [Accounts -> BOOLEAN]
      BY <1>4, FillTypes, CallFacts DEF HydrateStore
    <2>2. loaded' \in [Processes -> Int] /\ spoiled' \in SUBSET Accounts
      BY <1>4, CallFacts DEF HydrateStore, Spoiler, TypeOK
    <2> QED
      BY <1>4, <2>1, <2>2, GotoTypes DEF HydrateStore, TypeOK, CallStates, Active
  <1>5. CASE Retry(c)
    <2>0. spoiled' \in SUBSET Accounts
      BY <1>5, CallFacts DEF Retry, Spoiler, TypeOK
    <2>1. CASE ~Refused(c) /\ Succeed(c)
      BY <1>5, <2>0, <2>1, GotoTypes, ScriptTypes, SucceedTypes
         DEF Retry, Succeed, TypeOK, CallStates
    <2>2. CASE Goto(c, "denied") /\ UNCHANGED jobs
      BY <1>5, <2>0, <2>2, GotoTypes, ScriptTypes DEF Retry, TypeOK, CallStates
    <2> QED
      BY <1>5, <2>1, <2>2 DEF Retry
  <1>6. CASE RedisError(c)
    BY <1>6, GotoTypes, CallFacts DEF RedisError, TypeOK, CallStates
  <1>7. CASE LostReply(c)
    <2>1. /\ cache' \in [Accounts -> Int \cup {Absent}]
          /\ ttl' \in [Accounts -> BOOLEAN]
          /\ spoiled' \in SUBSET Accounts
      BY <1>7, CommandTypes, CallFacts DEF LostReply
    <2>2. loaded' \in [Processes -> Int]
      BY <1>7, CallFacts DEF LostReply, TypeOK
    <2> QED
      BY <1>7, <2>1, <2>2, GotoTypes DEF LostReply, TypeOK, CallStates
  <1>8. CASE LoadError(c)
    BY <1>8, GotoTypes DEF LoadError, TypeOK, CallStates
  <1> QED
    BY <1>1, <1>2, <1>3, <1>4, <1>5, <1>6, <1>7, <1>8 DEF CallStep

LEMMA OtherStepTypes ==
    ASSUME TypeOK,
           \/ \E c \in Calls : Persist(c)
           \/ \E q \in Readers : BeginRead(q) \/ ReadStep(q)
           \/ \E p \in Processes : Resend(p)
           \/ \E a \in Accounts : Evict(a) \/ Expire(a)
           \/ \E served \in SUBSET Unfinished : Crash(served)
    PROVE  TypeOK'
  <1> USE DEF stores, jobs, aside
  <1>1. ASSUME NEW c \in Calls, RecordTransaction(c) PROVE TypeOK'
    BY <1>1 DEF RecordTransaction, TypeOK
  <1>2. ASSUME NEW c \in Calls, UpdateBalance(c) PROVE TypeOK'
    BY <1>2, CallFacts DEF UpdateBalance, TypeOK
  <1>3. ASSUME NEW q \in Readers, BeginRead(q) PROVE TypeOK'
    BY <1>3, GotoTypesReader DEF BeginRead, TypeOK, ReaderStates
  <1>4. ASSUME NEW q \in Readers, ReadCache(q) PROVE TypeOK'
    BY <1>4, GotoTypesReader, ReaderFacts DEF ReadCache, TypeOK, ReaderStates
  <1>5. ASSUME NEW q \in Readers, ReadStore(q) PROVE TypeOK'
    BY <1>5, GotoTypesReader, ReaderFacts DEF ReadStore, TypeOK, ReaderStates
  <1>6. ASSUME NEW q \in Readers, PrimeCache(q) PROVE TypeOK'
    <2>1. /\ seen' \in [Readers -> Int \cup {Absent}]
          /\ loaded' \in [Processes -> Int]
      BY <1>6, ReaderFacts DEF PrimeCache, TypeOK
    <2>2. /\ cache' \in [Accounts -> Int \cup {Absent}]
          /\ ttl' \in [Accounts -> BOOLEAN]
          /\ spoiled' \in SUBSET Accounts
      BY <1>6, FillTypes, ReaderFacts DEF PrimeCache, Spoiler, TypeOK
    <2>3. /\ pc' \in [Processes -> CallStates \cup ReaderStates]
          /\ \A d \in Calls : pc'[d] \in CallStates
          /\ \A r \in Readers : pc'[r] \in ReaderStates
      BY <1>6, GotoTypesReader DEF PrimeCache, ReaderStates
    <2> QED
      BY <1>6, <2>1, <2>2, <2>3 DEF PrimeCache, TypeOK
  <1>7. ASSUME NEW q \in Readers, ReadError(q) PROVE TypeOK'
    BY <1>7, GotoTypesReader DEF ReadError, TypeOK, ReaderStates
  <1>8. ASSUME NEW a \in Accounts, Evict(a) \/ Expire(a) PROVE TypeOK'
    BY <1>8 DEF Evict, Expire, Spoiler, TypeOK
  <1>9. ASSUME NEW served \in SUBSET Unfinished, Crash(served) PROVE TypeOK'
    <2>1. \A p \in Processes : pc'[p] \in {"dead", pc[p]}
      BY <1>9 DEF Crash
    <2>2. /\ pc' \in [Processes -> CallStates \cup ReaderStates]
          /\ \A c \in Calls : pc'[c] \in CallStates
          /\ \A q \in Readers : pc'[q] \in ReaderStates
      BY <1>9, <2>1, CallFacts, ReaderFacts
         DEF Crash, TypeOK, CallStates, ReaderStates
    <2> QED
      BY <1>9, <2>2 DEF Crash, TypeOK
  <1>10. ASSUME NEW p \in Processes, Resend(p) PROVE TypeOK'
    <2>1. /\ cache' \in [Accounts -> Int \cup {Absent}]
          /\ ttl' \in [Accounts -> BOOLEAN]
          /\ spoiled' \in SUBSET Accounts
      BY <1>10, CommandTypes DEF Resend
    <2>2. resent' \in [Processes -> 0..MaxResends]
      BY <1>10, ConstantsAssumption DEF Resend, TypeOK
    <2> QED
      BY <1>10, <2>1, <2>2 DEF Resend, TypeOK
  <1> QED
    BY <1>1, <1>2, <1>3, <1>4, <1>5, <1>6, <1>7, <1>8, <1>9, <1>10 DEF Persist, ReadStep

LEMMA NextTypes ==
    ASSUME TypeOK, [Next]_vars
    PROVE  TypeOK'
  <1>1. CASE Next
    BY <1>1, CallStepTypes, OtherStepTypes DEF Next
  <1>2. CASE UNCHANGED vars
    BY <1>2 DEF vars, TypeOK
  <1> QED
    BY <1>1, <1>2

LEMMA InitTypes == Init => TypeOK
  BY ConstantsAssumption, OpeningAssumption, CallFacts
     DEF Init, TypeOK, CallStates, ReaderStates, Processes

\* The types hold in every reachable state.
THEOREM TypeCorrect == Spec => []TypeOK
  BY InitTypes, NextTypes, PTL DEF Spec

-----------------------------------------------------------------------------
(* No negative balance, under every fault.  NonNegative is not inductive:  *)
(* a balance on its way from Mongo to Redis must not be negative either,   *)
(* and a debit under way must have a positive amount, or its reply could   *)
(* be one of the codes -1 and -2.                                          *)

NonNegativeInductive ==
    /\ TypeOK
    /\ NonNegative
    /\ \A p \in Processes : loaded[p] >= 0
    /\ \A c \in Calls : pc[c] \in Active => AmountOf(c) > 0

\* A script writes no negative balance and its reply decodes to none.
LEMMA ScriptNonNegative ==
    ASSUME NonNegativeInductive, NEW c \in Calls, pc[c] \in Active, RunScript(c)
    PROVE  /\ \A a \in Accounts : cache'[a] # Absent => cache'[a] >= 0
           /\ BalanceIn(Reply(c)) >= 0
  <1>1. /\ AmountOf(c) \in Int /\ AmountOf(c) > 0 /\ AccountOf(c) \in Accounts
        /\ c[2] \in {"debit", "refund"}
        /\ cache[AccountOf(c)] \in Int \cup {Absent}
    BY CallFacts DEF NonNegativeInductive, TypeOK
  <1>2. CASE Applies(c)
    <2>1. cache[AccountOf(c)] \in Int /\ cache[AccountOf(c)] >= 0
      BY <1>1, <1>2 DEF Applies, NonNegativeInductive, NonNegative
    <2>2. Reply(c) \in Int /\ Reply(c) >= 0
      BY <1>1, <1>2, <2>1, ConstantsAssumption
         DEF Applies, Reply, DeductReply, CreditReply
    <2> QED
      BY <1>2, <2>2 DEF RunScript, BalanceIn, NonNegativeInductive, NonNegative, TypeOK
  <1>3. CASE ~Applies(c)
    <2>1. Reply(c) \in {-1, -2}
      BY <1>1, <1>3 DEF Applies, Reply, DeductReply, CreditReply
    <2> QED
      BY <1>3, <2>1 DEF RunScript, BalanceIn, NonNegativeInductive, NonNegative
  <1> QED
    BY <1>2, <1>3

LEMMA CommandNonNegative ==
    ASSUME NonNegativeInductive, NEW p \in Processes, pc[p] \in {"mutate", "store", "retry"},
           Command(p)
    PROVE  \A a \in Accounts : cache'[a] # Absent => cache'[a] >= 0
  <1>1. CASE pc[p] = "store"
    BY <1>1, ProcessFacts DEF Command, Fill, NonNegativeInductive, NonNegative, TypeOK
  <1>2. CASE pc[p] # "store"
    <2>1. p \in Calls /\ pc[p] \in Active /\ RunScript(p)
      BY <1>2, WhoWaits DEF NonNegativeInductive, Command, Active
    <2> QED
      BY <2>1, ScriptNonNegative
  <1> QED
    BY <1>1, <1>2

LEMMA NextNonNegative ==
    ASSUME NonNegativeInductive, [Next]_vars
    PROVE  NonNegativeInductive'
  <1> USE DEF stores, jobs, aside, NonNegativeInductive, NonNegative
  <1>0. TypeOK'
    BY NextTypes
  <1>1. ASSUME NEW c \in Calls, Begin(c) PROVE NonNegativeInductive'
    BY <1>0, <1>1, CallFacts DEF Begin, Goto, TypeOK, Active
  <1>2. ASSUME NEW c \in Calls, Mutate(c) \/ Retry(c)
        PROVE  NonNegativeInductive'
    <2>1. /\ \A a \in Accounts : cache'[a] # Absent => cache'[a] >= 0
          /\ BalanceIn(Reply(c)) >= 0
      BY <1>2, ScriptNonNegative DEF Mutate, Retry, Active
    <2>2. \A d \in Calls : remaining'[d] \in {remaining[d], BalanceIn(Reply(c))}
      BY <1>2, CallFacts DEF Mutate, Retry, Succeed, TypeOK
    <2>3. \A d \in Calls : pc'[d] \in Active => pc[d] \in Active
      BY <1>2, CallFacts DEF Mutate, Retry, Succeed, Goto, TypeOK, Active
    <2>4. UNCHANGED <<db, loaded>>
      BY <1>2 DEF Mutate, Retry
    <2> QED
      BY <1>0, <2>1, <2>2, <2>3, <2>4 DEF TypeOK
  <1>3. ASSUME NEW c \in Calls, HydrateLoad(c) PROVE NonNegativeInductive'
    BY <1>0, <1>3, CallFacts DEF HydrateLoad, Goto, TypeOK, Active
  <1>4. ASSUME NEW c \in Calls, HydrateStore(c) PROVE NonNegativeInductive'
    BY <1>0, <1>4, CallFacts, ProcessFacts DEF HydrateStore, Fill, Goto, TypeOK, Active
  <1>5. ASSUME NEW c \in Calls, RedisError(c) \/ LoadError(c)
        PROVE  NonNegativeInductive'
    BY <1>0, <1>5, CallFacts DEF RedisError, LoadError, Goto, TypeOK, Active
  <1>6. ASSUME NEW c \in Calls, Persist(c) PROVE NonNegativeInductive'
    <2>1. CASE RecordTransaction(c)
      BY <1>0, <2>1 DEF RecordTransaction, TypeOK
    <2>2. CASE UpdateBalance(c)
      <3>1. \A a \in Accounts : db'[a] \in {db[a], remaining[c]}
        BY <2>2, CallFacts DEF UpdateBalance, TypeOK
      <3>2. \A d \in Calls : remaining'[d] \in {remaining[d], 0}
        BY <2>2 DEF UpdateBalance, TypeOK
      <3> QED
        BY <1>0, <2>2, <3>1, <3>2 DEF UpdateBalance
    <2> QED
      BY <1>6, <2>1, <2>2 DEF Persist
  <1>7. ASSUME NEW q \in Readers, BeginRead(q) \/ ReadCache(q) \/ ReadError(q)
        PROVE  NonNegativeInductive'
    BY <1>0, <1>7, ReaderFacts, CallFacts
       DEF BeginRead, ReadCache, ReadError, Goto, TypeOK
  <1>8. ASSUME NEW q \in Readers, ReadStore(q) PROVE NonNegativeInductive'
    BY <1>0, <1>8, ReaderFacts, CallFacts DEF ReadStore, Goto, TypeOK
  <1>9. ASSUME NEW q \in Readers, PrimeCache(q) PROVE NonNegativeInductive'
    <2>1. \A a \in Accounts : cache'[a] \in {cache[a], loaded[q]}
      BY <1>9, ReaderFacts, ProcessFacts DEF PrimeCache, Fill, TypeOK
    <2>2. \A p \in Processes : loaded'[p] \in {loaded[p], 0}
      BY <1>9, ReaderFacts DEF PrimeCache, TypeOK
    <2>3. \A d \in Calls : pc'[d] = pc[d]
      BY <1>9, ReaderFacts, CallFacts DEF PrimeCache, Goto, TypeOK
    <2> QED
      BY <1>0, <1>9, <2>1, <2>2, <2>3, ReaderFacts DEF PrimeCache, TypeOK
  <1>10. ASSUME NEW a \in Accounts, Evict(a) \/ Expire(a) PROVE NonNegativeInductive'
    BY <1>0, <1>10 DEF Evict, Expire, TypeOK
  <1>11. ASSUME NEW served \in SUBSET Unfinished, Crash(served) PROVE NonNegativeInductive'
    <2>1. \A c \in Calls : pc'[c] \in {"dead", pc[c]} /\ remaining'[c] \in {0, remaining[c]}
      BY <1>11, CallFacts DEF Crash
    <2>2. \A p \in Processes : loaded'[p] \in {0, loaded[p]}
      BY <1>11 DEF Crash
    <2>3. UNCHANGED <<cache, db>>
      BY <1>11 DEF Crash
    <2> QED
      BY <1>0, <2>1, <2>2, <2>3 DEF Active
  <1>12. CASE UNCHANGED vars
    BY <1>0, <1>12 DEF vars
  <1>13. ASSUME NEW c \in Calls, LostReply(c) PROVE NonNegativeInductive'
    <2>1. \A a \in Accounts : cache'[a] # Absent => cache'[a] >= 0
      BY <1>13, CommandNonNegative, CallFacts DEF LostReply
    <2>2. \A p \in Processes : loaded'[p] \in {loaded[p], 0}
      BY <1>13, CallFacts DEF LostReply, TypeOK
    <2>3. \A d \in Calls : pc'[d] \in Active => pc[d] \in Active
      BY <1>13, CallFacts DEF LostReply, Goto, TypeOK, Active
    <2> QED
      BY <1>0, <1>13, <2>1, <2>2, <2>3 DEF LostReply, TypeOK
  <1>14. ASSUME NEW p \in Processes, Resend(p) PROVE NonNegativeInductive'
    <2>1. \A a \in Accounts : cache'[a] # Absent => cache'[a] >= 0
      BY <1>14, CommandNonNegative DEF Resend
    <2> QED
      BY <1>0, <1>14, <2>1 DEF Resend, TypeOK
  <1> QED
    BY <1>1, <1>2, <1>3, <1>4, <1>5, <1>6, <1>7, <1>8, <1>9, <1>10, <1>11, <1>12, <1>13, <1>14
       DEF Next, CallStep, ReadStep

LEMMA InitNonNegative == Init => NonNegativeInductive
  <1> SUFFICES ASSUME Init PROVE NonNegativeInductive
    OBVIOUS
  <1>1. TypeOK
    BY InitTypes
  <1> QED
    BY <1>1, OpeningAssumption, CallFacts
       DEF Init, NonNegativeInductive, NonNegative, Active, Processes

\* No balance in Redis, in Mongo or about to be written is ever negative,
\* whatever fails and whoever else is running.
THEOREM BalancesNonNegative == Spec => []NonNegative
  <1>1. NonNegativeInductive => NonNegative
    BY DEF NonNegativeInductive
  <1> QED
    BY <1>1, InitNonNegative, NextNonNegative, PTL DEF Spec

-----------------------------------------------------------------------------
(* Every account is a wallet up to its first Spoiler, whatever fails and   *)
(* however calls overlap.  The invariant speaks of the accounts that have  *)
(* not met one.                                                            *)

\* A balance that no script has changed is that of Mongo where Redis has it, and
\* no goroutine has one to write.
ColdAt(a) ==
    ~Hot(a) =>
        /\ cache[a] = Absent \/ cache[a] = db[a]
        /\ \A c \in Calls : AccountOf(c) = a => ~Persisting(c)

ColdAgrees == \A a \in Accounts \ spoiled : ColdAt(a)

RefundsFollowDebits ==
    \A r \in Refs : pc[RefundOf(r)] \in Active \cup {"ok"} => pc[Debit(r)] = "ok"

UnansweredReads ==
    \A q \in Readers : pc[q] \in {"idle", "get", "load", "store"} => seen[q] = Absent

WalletInv ==
    /\ NonNegativeInductive
    /\ ColdAgrees
    /\ RefundsFollowDebits
    /\ UnansweredReads

\* What a script does once the balance is in Redis: it misses no more, and its
\* reply is what it seems.
LEMMA HitReply ==
    ASSUME NonNegativeInductive, NEW c \in Calls, pc[c] \in {"mutate", "retry"},
           cache[AccountOf(c)] # Absent
    PROVE  /\ cache[AccountOf(c)] \in Int
           /\ AmountOf(c) \in Int /\ AmountOf(c) > 0
           /\ ~CacheMiss(Reply(c))
           /\ Refused(c) <=> c[2] = "debit" /\ cache[AccountOf(c)] < AmountOf(c)
           /\ Applies(c) <=> ~Refused(c)
           /\ c[2] = "debit" /\ Applies(c) => Reply(c) = cache[AccountOf(c)] - AmountOf(c)
           /\ c[2] = "refund" => Reply(c) = cache[AccountOf(c)] + AmountOf(c)
  <1>1. /\ AccountOf(c) \in Accounts
        /\ AmountOf(c) \in Int /\ AmountOf(c) > 0
        /\ c[2] \in {"debit", "refund"}
    BY CallFacts DEF NonNegativeInductive, Active
  <1>2. cache[AccountOf(c)] \in Int /\ cache[AccountOf(c)] >= 0
    BY <1>1 DEF NonNegativeInductive, NonNegative, TypeOK
  <1> QED
    BY <1>1, <1>2
       DEF CacheMiss, Refused, InsufficientFunds, Applies, Reply, DeductReply, CreditReply

LEMMA MissReply ==
    ASSUME NEW c \in Calls, cache[AccountOf(c)] = Absent
    PROVE  /\ CacheMiss(Reply(c)) /\ ~Refused(c) /\ ~Applies(c)
  BY CallFacts DEF CacheMiss, Refused, InsufficientFunds, Applies, Reply, DeductReply, CreditReply

\* The ways a run of the script ends for an account that it does not spoil.
LEMMA ScriptOutcome ==
    ASSUME WalletInv, NEW c \in Calls, Mutate(c) \/ Retry(c), AccountOf(c) \notin spoiled'
    PROVE  \/ /\ pc[c] = "mutate" /\ cache[AccountOf(c)] = Absent
              /\ Goto(c, "load")
              /\ UNCHANGED <<cache, ttl, jobs>>
           \/ /\ cache[AccountOf(c)] # Absent /\ Refused(c) /\ c[2] = "debit"
              /\ Goto(c, "denied")
              /\ UNCHANGED <<cache, ttl, jobs>>
           \/ /\ cache[AccountOf(c)] # Absent /\ ~Refused(c)
              /\ Reply(c) \in Int
              /\ Succeed(c)
              /\ cache' = [cache EXCEPT ![AccountOf(c)] = Reply(c)]
              /\ ttl' = [ttl EXCEPT ![AccountOf(c)] = FALSE]
  <1>1. pc[c] \in {"mutate", "retry"} /\ RunScript(c)
    BY DEF Mutate, Retry
  <1>2. CASE cache[AccountOf(c)] = Absent
    <2>1. CacheMiss(Reply(c)) /\ ~Refused(c) /\ ~Applies(c)
      BY <1>2, MissReply
    <2>2. CASE Mutate(c)
      BY <1>1, <1>2, <2>1, <2>2 DEF Mutate, RunScript
    <2>3. CASE Retry(c)
      BY <2>1, <2>3 DEF Retry, Spoiler
    <2> QED
      BY <2>2, <2>3
  <1>3. CASE cache[AccountOf(c)] # Absent
    <2>1. /\ ~CacheMiss(Reply(c)) /\ (Applies(c) <=> ~Refused(c)) /\ NonNegativeInductive
      BY <1>1, <1>3, HitReply DEF WalletInv
    <2>2. Reply(c) \in Int
      BY <1>1, <2>1, ScriptTypes DEF NonNegativeInductive
    <2>3. CASE Refused(c)
      BY <1>1, <1>3, <2>1, <2>3 DEF Mutate, Retry, RunScript, Refused
    <2>4. CASE ~Refused(c)
      BY <1>1, <1>3, <2>1, <2>2, <2>4 DEF Mutate, Retry, RunScript
    <2> QED
      BY <2>3, <2>4
  <1> QED
    BY <1>2, <1>3

\* A step is of one account, unless a process stops.
ActsOn(b) ==
    \/ \E c \in Calls : AccountOf(c) = b /\ (Begin(c) \/ CallStep(c) \/ Persist(c))
    \/ \E q \in Readers : Owner[q] = b /\ (BeginRead(q) \/ ReadStep(q))
    \/ \E p \in Processes : AccountFor(p) = b /\ Resend(p)
    \/ Evict(b) \/ Expire(b)

LEMMA WhoActs ==
    ASSUME [Next]_vars
    PROVE  \/ \E b \in Accounts : ActsOn(b)
           \/ \E served \in SUBSET Unfinished : Crash(served)
           \/ UNCHANGED vars
  BY CallFacts, ReaderFacts, ProcessFacts DEF Next, ActsOn

\* It leaves what belongs to the others alone.
Local(b) ==
    /\ \A a \in Accounts \ {b} : /\ cache'[a] = cache[a]
                                 /\ ttl'[a] = ttl[a]
                                 /\ db'[a] = db[a]
    /\ \A p \in Processes : AccountFor(p) # b => pc'[p] = pc[p]
    /\ \A c \in Calls : AccountOf(c) # b => job'[c] = job[c]
    /\ \A q \in Readers : Owner[q] # b => seen'[q] = seen[q]

LEMMA ScriptLocal ==
    ASSUME TypeOK, NEW c \in Calls, RunScript(c), NEW a \in Accounts, a # AccountOf(c)
    PROVE  cache'[a] = cache[a] /\ ttl'[a] = ttl[a]
  BY CallFacts DEF RunScript, TypeOK

LEMMA FillLocal ==
    ASSUME TypeOK, NEW p \in Processes, Fill(p), NEW a \in Accounts, a # AccountFor(p)
    PROVE  cache'[a] = cache[a] /\ ttl'[a] = ttl[a]
  BY ProcessFacts DEF Fill, TypeOK

LEMMA CommandLocal ==
    ASSUME TypeOK, NEW p \in Processes, pc[p] \in {"mutate", "store", "retry"}, Command(p),
           NEW a \in Accounts, a # AccountFor(p)
    PROVE  cache'[a] = cache[a] /\ ttl'[a] = ttl[a]
  BY ScriptLocal, FillLocal, WhoWaits, ProcessFacts DEF Command

LEMMA ActsLocally ==
    ASSUME TypeOK, NEW b \in Accounts, ActsOn(b)
    PROVE  Local(b)
  <1> USE DEF stores, jobs, aside
  <1>1. ASSUME NEW c \in Calls, NEW s, AccountOf(c) = b, Goto(c, s), UNCHANGED <<db, seen>>,
               \A a \in Accounts \ {b} : cache'[a] = cache[a] /\ ttl'[a] = ttl[a],
               \A d \in Calls : d # c => job'[d] = job[d]
        PROVE  Local(b)
    BY <1>1, CallFacts, ProcessFacts DEF Local, Goto, TypeOK
  <1>2. ASSUME NEW c \in Calls, AccountOf(c) = b, Begin(c) \/ CallStep(c)
        PROVE  Local(b)
    <2>1. UNCHANGED <<db, seen>> /\ \E s : Goto(c, s)
      BY <1>2 DEF Begin, CallStep, Mutate, HydrateLoad, HydrateStore, Retry, RedisError,
                  LostReply, LoadError, Succeed
    <2>2. \A d \in Calls : d # c => job'[d] = job[d]
      BY <1>2 DEF Begin, CallStep, Mutate, HydrateLoad, HydrateStore, Retry, RedisError,
                  LostReply, LoadError, Succeed, TypeOK
    <2>3. ASSUME NEW a \in Accounts \ {b} PROVE cache'[a] = cache[a] /\ ttl'[a] = ttl[a]
      <3>1. CASE Mutate(c) \/ Retry(c)
        BY <1>2, <2>3, <3>1, ScriptLocal DEF Mutate, Retry
      <3>2. CASE HydrateStore(c)
        BY <1>2, <2>3, <3>2, FillLocal, CallFacts, ProcessFacts DEF HydrateStore
      <3>3. CASE LostReply(c)
        BY <1>2, <2>3, <3>3, CommandLocal, CallFacts, ProcessFacts DEF LostReply
      <3> QED
        BY <1>2, <3>1, <3>2, <3>3 DEF Begin, CallStep, HydrateLoad, RedisError, LoadError
    <2> QED
      BY <1>1, <1>2, <2>1, <2>2, <2>3
  <1>3. ASSUME NEW c \in Calls, AccountOf(c) = b, Persist(c) PROVE Local(b)
    BY <1>3, CallFacts DEF Local, Persist, RecordTransaction, UpdateBalance, TypeOK
  <1>4. ASSUME NEW q \in Readers, Owner[q] = b, BeginRead(q) \/ ReadStep(q) PROVE Local(b)
    <2>1. UNCHANGED <<db, job>> /\ \E s : Goto(q, s)
      BY <1>4 DEF BeginRead, ReadStep, ReadCache, ReadStore, PrimeCache, ReadError
    <2>2. \A q2 \in Readers : q2 # q => seen'[q2] = seen[q2]
      BY <1>4 DEF BeginRead, ReadStep, ReadCache, ReadStore, PrimeCache, ReadError, TypeOK
    <2>3. ASSUME NEW a \in Accounts \ {b} PROVE cache'[a] = cache[a] /\ ttl'[a] = ttl[a]
      BY <1>4, <2>3, FillLocal, ReaderFacts, ProcessFacts
         DEF BeginRead, ReadStep, ReadCache, ReadStore, PrimeCache, ReadError
    <2>4. \A p \in Processes : AccountFor(p) # b => pc'[p] = pc[p]
      BY <1>4, <2>1, ReaderFacts, ProcessFacts DEF Goto, TypeOK
    <2> QED
      BY <1>4, <2>1, <2>2, <2>3, <2>4 DEF Local
  <1>5. ASSUME NEW p \in Processes, AccountFor(p) = b, Resend(p) PROVE Local(b)
    BY <1>5, CommandLocal DEF Local, Resend
  <1>6. CASE Evict(b) \/ Expire(b)
    BY <1>6 DEF Local, Evict, Expire, TypeOK
  <1> QED
    BY <1>2, <1>3, <1>4, <1>5, <1>6 DEF ActsOn

LEMMA SpoiledStays ==
    ASSUME [Next]_vars
    PROVE  spoiled \subseteq spoiled'
  <1> USE DEF stores, jobs, aside, Spoiler
  <1>1. ASSUME NEW c \in Calls, Begin(c) \/ CallStep(c) \/ Persist(c)
        PROVE  spoiled \subseteq spoiled'
    BY <1>1 DEF Begin, CallStep, Mutate, HydrateLoad, HydrateStore, Retry, RedisError, LostReply,
                LoadError, Unnoticed, Persist, RecordTransaction, UpdateBalance
  <1>2. ASSUME NEW q \in Readers, BeginRead(q) \/ ReadStep(q) PROVE spoiled \subseteq spoiled'
    BY <1>2 DEF BeginRead, ReadStep, ReadCache, ReadStore, PrimeCache, ReadError
  <1>3. ASSUME NEW p \in Processes, Resend(p) PROVE spoiled \subseteq spoiled'
    BY <1>3 DEF Resend, Unnoticed
  <1>4. ASSUME NEW a \in Accounts, Evict(a) \/ Expire(a) PROVE spoiled \subseteq spoiled'
    BY <1>4 DEF Evict, Expire
  <1>5. ASSUME NEW served \in SUBSET Unfinished, Crash(served) PROVE spoiled \subseteq spoiled'
    BY <1>5 DEF Crash
  <1> QED
    BY <1>1, <1>2, <1>3, <1>4, <1>5 DEF Next, vars

\* What a command does to the account whose reply it loses, if it does not spoil it.
LEMMA UnnoticedOutcome ==
    ASSUME TypeOK, NEW p \in Processes, pc[p] \in {"mutate", "store", "retry"},
           Command(p), Unnoticed(p), AccountFor(p) \notin spoiled'
    PROVE  \/ UNCHANGED <<cache, ttl>>
           \/ pc[p] = "store" /\ Fill(p) /\ ~Outdated(p)
  <1>1. CASE pc[p] = "store"
    BY <1>1 DEF Command, Unnoticed, Spoiler
  <1>2. CASE pc[p] # "store"
    BY <1>2 DEF Command, Unnoticed, Spoiler, RunScript
  <1> QED
    BY <1>1, <1>2

LEMMA ColdKept ==
    ASSUME NEW a \in Accounts, ColdAt(a),
           cache'[a] = cache[a], ttl'[a] = ttl[a], db'[a] = db[a],
           \A c \in Calls : AccountOf(c) = a /\ Persisting(c)' => Persisting(c)
    PROVE  ColdAt(a)'
  BY DEF ColdAt, Hot, AccountOf

LEMMA ColdFilled ==
    ASSUME TypeOK, NEW p \in Processes, ColdAt(AccountFor(p)), Fill(p), ~Outdated(p),
           UNCHANGED <<db, job>>
    PROVE  ColdAt(AccountFor(p))'
  BY ProcessFacts DEF ColdAt, Hot, Fill, Outdated, AccountOf, AccountFor, Persisting, TypeOK

LEMMA NextColdAgrees ==
    ASSUME WalletInv, [Next]_vars
    PROVE  ColdAgrees'
  <1> USE DEF stores, jobs, aside
  <1> SUFFICES ASSUME NEW a \in Accounts, a \notin spoiled'
               PROVE  ColdAt(a)'
    BY DEF ColdAgrees
  <1>a. TypeOK /\ ColdAt(a)
    BY SpoiledStays DEF WalletInv, NonNegativeInductive, ColdAgrees
  <1>1. ASSUME UNCHANGED <<cache, ttl, db>>,
               \A c \in Calls : AccountOf(c) = a /\ Persisting(c)' => Persisting(c)
        PROVE  ColdAt(a)'
    BY <1>a, <1>1, ColdKept
  <1>2. ASSUME NEW p \in Processes, AccountFor(p) = a, pc[p] = "store", Fill(p), ~Outdated(p),
               UNCHANGED <<db, job>>
        PROVE  ColdAt(a)'
    BY <1>a, <1>2, ColdFilled
  <1>3. ASSUME NEW b \in Accounts, ActsOn(b), b # a PROVE ColdAt(a)'
    <2>1. Local(b)
      BY <1>a, <1>3, ActsLocally
    <2> QED
      BY <1>a, <1>3, <2>1, ColdKept DEF Local, Persisting
  <1>4. ASSUME NEW c \in Calls, AccountOf(c) = a, Mutate(c) \/ Retry(c) PROVE ColdAt(a)'
    <2>1. UNCHANGED db
      BY <1>4 DEF Mutate, Retry
    <2>2. \/ UNCHANGED <<cache, ttl, jobs>>
          \/ /\ Reply(c) \in Int
             /\ cache' = [cache EXCEPT ![a] = Reply(c)]
             /\ ttl' = [ttl EXCEPT ![a] = FALSE]
      BY <1>4, ScriptOutcome
    <2>3. CASE UNCHANGED <<cache, ttl, jobs>>
      BY <1>1, <2>1, <2>3 DEF Persisting
    <2>4. CASE /\ Reply(c) \in Int
               /\ cache' = [cache EXCEPT ![a] = Reply(c)]
               /\ ttl' = [ttl EXCEPT ![a] = FALSE]
      BY <1>a, <2>4, ConstantsAssumption DEF ColdAt, Hot, TypeOK
    <2> QED
      BY <2>2, <2>3, <2>4
  <1>5. ASSUME NEW c \in Calls, AccountOf(c) = a,
               Begin(c) \/ HydrateLoad(c) \/ RedisError(c) \/ LoadError(c)
        PROVE  ColdAt(a)'
    BY <1>1, <1>5 DEF Begin, HydrateLoad, RedisError, LoadError, Persisting
  <1>6. ASSUME NEW c \in Calls, AccountOf(c) = a, HydrateStore(c) PROVE ColdAt(a)'
    BY <1>2, <1>6, CallFacts, ProcessFacts DEF HydrateStore, Spoiler
  <1>7. ASSUME NEW p \in Processes, AccountFor(p) = a, pc[p] \in {"mutate", "store", "retry"},
               Command(p), Unnoticed(p), UNCHANGED <<db, job>>
        PROVE  ColdAt(a)'
    BY <1>a, <1>1, <1>2, <1>7, UnnoticedOutcome DEF Persisting
  <1>8. ASSUME NEW c \in Calls, AccountOf(c) = a, LostReply(c) PROVE ColdAt(a)'
    BY <1>7, <1>8, CallFacts, ProcessFacts DEF LostReply
  <1>9. ASSUME NEW p \in Processes, AccountFor(p) = a, Resend(p) PROVE ColdAt(a)'
    BY <1>7, <1>9 DEF Resend
  <1>10. ASSUME NEW c \in Calls, AccountOf(c) = a, Persist(c) PROVE ColdAt(a)'
    <2>1. Hot(a) /\ UNCHANGED <<cache, ttl>>
      BY <1>a, <1>10 DEF Persist, RecordTransaction, UpdateBalance, Persisting, ColdAt
    <2> QED
      BY <2>1 DEF ColdAt, Hot
  <1>11. ASSUME NEW q \in Readers, Owner[q] = a, BeginRead(q) \/ ReadCache(q) \/ ReadStore(q)
                                                \/ ReadError(q)
         PROVE  ColdAt(a)'
    BY <1>1, <1>11 DEF BeginRead, ReadCache, ReadStore, ReadError, Persisting
  <1>12. ASSUME NEW q \in Readers, Owner[q] = a, PrimeCache(q) PROVE ColdAt(a)'
    <2>1. CASE UNCHANGED <<cache, ttl>>
      BY <1>1, <1>12, <2>1 DEF PrimeCache, Persisting
    <2>2. CASE Fill(q)
      BY <1>2, <1>12, <2>2, ReaderFacts, ProcessFacts DEF PrimeCache, Spoiler
    <2> QED
      BY <1>12, <2>1, <2>2 DEF PrimeCache
  <1>13. CASE Evict(a)
    <2>1. ~NotInMongo(a) /\ UNCHANGED <<db, job>> /\ cache' = [cache EXCEPT ![a] = Absent]
      BY <1>13 DEF Evict, Spoiler
    <2>2. \A c \in Calls : AccountOf(c) = a => ~Persisting(c)
      BY <1>a, <2>1 DEF NotInMongo, ColdAt
    <2> QED
      BY <1>a, <2>1, <2>2 DEF ColdAt, Persisting, AccountOf, TypeOK
  <1>14. CASE Expire(a)
    <2>1. ~Hot(a) /\ UNCHANGED <<db, job>> /\ cache' = [cache EXCEPT ![a] = Absent]
      BY <1>14 DEF Expire, Hot
    <2> QED
      BY <1>a, <2>1 DEF ColdAt, Persisting, AccountOf, TypeOK
  <1>15. CASE ActsOn(a)
    BY <1>4, <1>5, <1>6, <1>8, <1>9, <1>10, <1>11, <1>12, <1>13, <1>14, <1>15
       DEF ActsOn, CallStep, ReadStep
  <1>16. ASSUME NEW served \in SUBSET Unfinished, Crash(served) PROVE ColdAt(a)'
    BY <1>1, <1>16 DEF Crash, Persisting
  <1>17. CASE UNCHANGED vars
    BY <1>1, <1>17 DEF vars, Persisting
  <1> QED
    BY <1>3, <1>15, <1>16, <1>17, WhoActs

\* A call that moves: only a refund of a purchase that was charged gets under way,
\* and a debit that succeeded moves no more.
LEMMA MoveKeepsRefunds ==
    ASSUME TypeOK, RefundsFollowDebits, NEW c \in Calls, NEW s \in CallStates, Goto(c, s),
           pc[c] # "ok",
           c[2] = "refund" /\ s \in Active \cup {"ok"} => pc[Debit(c[1])] = "ok"
    PROVE  RefundsFollowDebits'
  <1> SUFFICES ASSUME NEW r \in Refs, pc'[RefundOf(r)] \in Active \cup {"ok"}
               PROVE  pc'[Debit(r)] = "ok"
    BY DEF RefundsFollowDebits
  <1>1. Debit(r) \in Processes /\ RefundOf(r) \in Processes /\ c \in Processes
    BY CallFacts DEF Calls, Processes
  <1>2. pc[Debit(r)] = "ok"
    BY <1>1 DEF Goto, TypeOK, RefundsFollowDebits
  <1> QED
    BY <1>1, <1>2 DEF Goto, TypeOK

LEMMA NextRefundsFollowDebits ==
    ASSUME WalletInv, [Next]_vars
    PROVE  RefundsFollowDebits'
  <1> USE DEF stores, jobs, aside
  <1>a. TypeOK /\ RefundsFollowDebits
    BY DEF WalletInv, NonNegativeInductive
  <1>b. \A r \in Refs : Debit(r) \in Calls /\ RefundOf(r) \in Calls
    BY DEF Calls
  <1>1. ASSUME NEW c \in Calls, Begin(c) PROVE RefundsFollowDebits'
    BY <1>a, <1>1, MoveKeepsRefunds DEF Begin, CallStates, Active
  <1>2. ASSUME NEW c \in Calls, CallStep(c) PROVE RefundsFollowDebits'
    <2>1. pc[c] \in Active /\ \E s \in CallStates : Goto(c, s)
      BY <1>2 DEF CallStep, Mutate, HydrateLoad, HydrateStore, Retry, RedisError, LostReply,
                  LoadError, Succeed, Active, CallStates
    <2>2. c[2] = "refund" => pc[Debit(c[1])] = "ok"
      BY <1>a, <2>1, CallFacts DEF RefundsFollowDebits
    <2> QED
      BY <1>a, <2>1, <2>2, MoveKeepsRefunds DEF Active
  <1>3. ASSUME NEW q \in Readers, BeginRead(q) \/ ReadStep(q) PROVE RefundsFollowDebits'
    <2>1. \A c \in Calls : pc'[c] = pc[c]
      BY <1>a, <1>3, CallFacts, ReaderFacts
         DEF BeginRead, ReadStep, ReadCache, ReadStore, PrimeCache, ReadError, Goto, TypeOK
    <2> QED
      BY <1>a, <1>b, <2>1 DEF RefundsFollowDebits
  <1>4. ASSUME NEW served \in SUBSET Unfinished, Crash(served) PROVE RefundsFollowDebits'
    <2>1. \A c \in Calls : pc'[c] \in {"dead", pc[c]}
      BY <1>4, CallFacts DEF Crash
    <2>2. ASSUME NEW r \in Refs, pc[Debit(r)] = "ok" PROVE pc'[Debit(r)] = "ok"
      <3>1. ~Orphaned(Debit(r))
        BY <2>2 DEF Orphaned, Running, Active
      <3> QED
        BY <1>4, <1>b, <2>2, <3>1, CallFacts DEF Crash
    <2> QED
      BY <1>a, <1>b, <2>1, <2>2 DEF RefundsFollowDebits, Active
  <1>5. CASE UNCHANGED pc
    BY <1>a, <1>5 DEF RefundsFollowDebits
  <1> QED
    BY <1>1, <1>2, <1>3, <1>4, <1>5
       DEF Next, Persist, RecordTransaction, UpdateBalance, Resend, Evict, Expire, vars

LEMMA NextUnansweredReads ==
    ASSUME WalletInv, [Next]_vars
    PROVE  UnansweredReads'
  <1> USE DEF stores, jobs, aside
  <1>a. TypeOK /\ UnansweredReads
    BY DEF WalletInv, NonNegativeInductive
  <1>1. ASSUME NEW c \in Calls, Begin(c) \/ CallStep(c) PROVE UnansweredReads'
    <2>1. UNCHANGED seen /\ \E s : Goto(c, s)
      BY <1>1 DEF Begin, CallStep, Mutate, HydrateLoad, HydrateStore, Retry, RedisError,
                  LostReply, LoadError, Succeed
    <2> QED
      BY <1>a, <2>1, CallFacts, ReaderFacts DEF UnansweredReads, Goto, TypeOK
  <1>2. ASSUME NEW q \in Readers, BeginRead(q) \/ ReadStep(q) PROVE UnansweredReads'
    <2>1. pc[q] \in {"idle", "get", "load", "store"} /\ \E s : Goto(q, s)
      BY <1>2 DEF BeginRead, ReadStep, ReadCache, ReadStore, PrimeCache, ReadError
    <2>2. pc'[q] = "ok" \/ UNCHANGED seen
      BY <1>a, <1>2, ReaderFacts
         DEF BeginRead, ReadStep, ReadCache, ReadStore, PrimeCache, ReadError, Goto, TypeOK
    <2>3. \A q2 \in Readers : q2 # q => pc'[q2] = pc[q2] /\ seen'[q2] = seen[q2]
      BY <1>a, <1>2, ReaderFacts
         DEF BeginRead, ReadStep, ReadCache, ReadStore, PrimeCache, ReadError, Goto, TypeOK
    <2> QED
      BY <1>a, <2>1, <2>2, <2>3 DEF UnansweredReads
  <1>3. ASSUME NEW served \in SUBSET Unfinished, Crash(served) PROVE UnansweredReads'
    BY <1>a, <1>3, ReaderFacts DEF Crash, UnansweredReads
  <1>4. CASE UNCHANGED <<pc, seen>>
    BY <1>a, <1>4 DEF UnansweredReads
  <1> QED
    BY <1>1, <1>2, <1>3, <1>4
       DEF Next, Persist, RecordTransaction, UpdateBalance, Resend, Evict, Expire, vars

LEMMA NextWalletInv ==
    ASSUME WalletInv, [Next]_vars
    PROVE  WalletInv'
  BY NextNonNegative, NextColdAgrees, NextRefundsFollowDebits, NextUnansweredReads DEF WalletInv

LEMMA InitWalletInv ==
    ASSUME Init
    PROVE  WalletInv
  <1>1. NonNegativeInductive
    BY InitNonNegative
  <1>2. \A a \in Accounts : cache[a] = Absent \/ cache[a] = db[a]
    BY DEF Init
  <1>3. \A p \in Processes : pc[p] = "idle"
    BY DEF Init
  <1>4. \A c \in Calls : ~Persisting(c)
    BY DEF Init, Persisting
  <1>5. RefundsFollowDebits /\ UnansweredReads
    BY <1>3, ReaderFacts DEF RefundsFollowDebits, UnansweredReads, Init, Calls, Processes, Active
  <1> QED
    BY <1>1, <1>2, <1>4, <1>5 DEF WalletInv, ColdAgrees, ColdAt

-----------------------------------------------------------------------------
(* What a step is to the wallet: of an account it does not spoil, a step   *)
(* of Wallet or none.                                                      *)

\* The balances shown are the same after a step that touches neither store, after a
\* goroutine's write to Mongo, a fill, an eviction and an expiry.
LEMMA BalanceKept ==
    ASSUME WalletInv, [Next]_vars,
           \/ UNCHANGED <<cache, db>>
           \/ \E c \in Calls : Persist(c) /\ AccountOf(c) \notin spoiled'
           \/ \E p \in Processes : /\ Fill(p) /\ ~Outdated(p) /\ UNCHANGED db
                                   /\ AccountFor(p) \notin spoiled'
           \/ \E a \in Accounts : (Evict(a) \/ Expire(a)) /\ a \notin spoiled'
    PROVE  UNCHANGED VisibleBalance
  <1> USE DEF stores, jobs
  <1>a. TypeOK /\ \A a \in Accounts \ spoiled' : ColdAt(a)
    BY SpoiledStays DEF WalletInv, NonNegativeInductive, ColdAgrees
  <1>1. CASE UNCHANGED <<cache, db>>
    BY <1>1 DEF VisibleBalance
  <1>2. ASSUME NEW c \in Calls, Persist(c), AccountOf(c) \notin spoiled'
        PROVE  UNCHANGED VisibleBalance
    <2>1. UNCHANGED cache /\ \A a \in Accounts : a # AccountOf(c) => db'[a] = db[a]
      BY <1>a, <1>2 DEF Persist, RecordTransaction, UpdateBalance, TypeOK
    <2>2. cache[AccountOf(c)] # Absent
      BY <1>a, <1>2, CallFacts
         DEF Persist, RecordTransaction, UpdateBalance, Persisting, ColdAt, Hot
    <2> QED
      BY <2>1, <2>2 DEF VisibleBalance
  <1>3. ASSUME NEW p \in Processes, Fill(p), ~Outdated(p), UNCHANGED db,
               AccountFor(p) \notin spoiled'
        PROVE  UNCHANGED VisibleBalance
    <2>1. /\ cache[AccountFor(p)] = Absent \/ cache[AccountFor(p)] = db[AccountFor(p)]
          /\ loaded[p] = db[AccountFor(p)] /\ loaded[p] \in Int
      BY <1>a, <1>3, ProcessFacts DEF ColdAt, Outdated, TypeOK
    <2> QED
      BY <1>a, <1>3, <2>1, ProcessFacts DEF Fill, VisibleBalance, TypeOK
  <1>4. ASSUME NEW a \in Accounts, Evict(a) \/ Expire(a), a \notin spoiled'
        PROVE  UNCHANGED VisibleBalance
    <2>1. UNCHANGED db /\ cache' = [cache EXCEPT ![a] = Absent]
      BY <1>4 DEF Evict, Expire
    <2>2. cache[a] = Absent \/ cache[a] = db[a]
      BY <1>a, <1>4 DEF Evict, Expire, Spoiler, NotInMongo, ColdAt, Hot
    <2> QED
      BY <1>a, <2>1, <2>2 DEF VisibleBalance, TypeOK
  <1> QED
    BY <1>1, <1>2, <1>3, <1>4

\* A call moves the status of its own purchase only.
LEMMA StatusOfGoto ==
    ASSUME TypeOK, NEW c \in Calls, NEW s \in CallStates, Goto(c, s)
    PROVE  /\ pc'[c] = s
           /\ c = Debit(c[1]) => pc'[RefundOf(c[1])] = pc[RefundOf(c[1])]
           /\ c = RefundOf(c[1]) => pc'[Debit(c[1])] = pc[Debit(c[1])]
           /\ \A r \in Refs \ {c[1]} : StatusOf(r)' = StatusOf(r)
           /\ [r \in Refs |-> StatusOf(r)]' =
                  [[r \in Refs |-> StatusOf(r)] EXCEPT ![c[1]] = StatusOf(c[1])']
  <1>1. c \in Processes /\ c[1] \in Refs
    BY CallFacts
  <1>2. \A r \in Refs : Debit(r) \in Processes /\ RefundOf(r) \in Processes
    BY DEF Calls, Processes
  <1>3. \A p \in Processes : pc'[p] = IF p = c THEN s ELSE pc[p]
    BY <1>1 DEF Goto, TypeOK
  <1>4. \A r \in Refs \ {c[1]} : c # Debit(r) /\ c # RefundOf(r)
    OBVIOUS
  <1>5. \A r \in Refs \ {c[1]} : StatusOf(r)' = StatusOf(r)
    BY <1>2, <1>3, <1>4 DEF StatusOf
  <1>6. [r \in Refs |-> StatusOf(r)]' = [[r \in Refs |-> StatusOf(r)] EXCEPT ![c[1]] = StatusOf(c[1])']
    BY <1>1, <1>5
  <1>7. c = Debit(c[1]) => c # RefundOf(c[1])
    BY DEF Calls
  <1> QED
    BY <1>1, <1>2, <1>3, <1>5, <1>6, <1>7

\* Where a purchase stands, for a call of it that is under way.
LEMMA StatusUnderWay ==
    ASSUME WalletInv, NEW c \in Calls, pc[c] \in Active
    PROVE  /\ c[2] = "debit" => /\ c = Debit(c[1]) /\ pc[RefundOf(c[1])] \notin Active \cup {"ok"}
                                /\ StatusOf(c[1]) = "new"
           /\ c[2] = "refund" => /\ c = RefundOf(c[1]) /\ pc[Debit(c[1])] = "ok"
                                 /\ StatusOf(c[1]) = "charged"
  <1>1. c[1] \in Refs /\ c = <<c[1], c[2]>>
    BY CallFacts
  <1>2. CASE c[2] = "debit"
    <2>1. pc[Debit(c[1])] \in Active
      BY <1>1, <1>2
    <2>2. pc[RefundOf(c[1])] \notin Active \cup {"ok"}
      BY <1>1, <2>1 DEF WalletInv, RefundsFollowDebits, Active
    <2> QED
      BY <1>1, <1>2, <2>1, <2>2 DEF StatusOf, Active
  <1>3. CASE c[2] = "refund"
    <2>1. pc[RefundOf(c[1])] \in Active
      BY <1>1, <1>3
    <2>2. pc[Debit(c[1])] = "ok"
      BY <1>1, <2>1 DEF WalletInv, RefundsFollowDebits
    <2> QED
      BY <1>1, <1>3, <2>1, <2>2 DEF StatusOf, Active
  <1> QED
    BY <1>2, <1>3

\* A call that goes from one Redis or Mongo operation to the next changes no status,
\* and one that fails before its script took effect makes its purchase fail, or
\* leaves it charged.
LEMMA MoveStatus ==
    ASSUME WalletInv, NEW c \in Calls, NEW s \in CallStates, Goto(c, s), pc[c] \in Active
    PROVE  /\ s \in Active => UNCHANGED [r \in Refs |-> StatusOf(r)]
           /\ c[2] = "refund" /\ s = "failed" => UNCHANGED [r \in Refs |-> StatusOf(r)]
           /\ c[2] = "debit" /\ s \in {"denied", "failed"} =>
                 [r \in Refs |-> StatusOf(r)]' = [[r \in Refs |-> StatusOf(r)] EXCEPT ![c[1]] = s]
           /\ c[2] = "debit" /\ s = "ok" =>
                 [r \in Refs |-> StatusOf(r)]' =
                     [[r \in Refs |-> StatusOf(r)] EXCEPT ![c[1]] = "charged"]
           /\ c[2] = "refund" /\ s = "ok" =>
                 [r \in Refs |-> StatusOf(r)]' =
                     [[r \in Refs |-> StatusOf(r)] EXCEPT ![c[1]] = "refunded"]
  <1> DEFINE st == [r \in Refs |-> StatusOf(r)]
  <1>1. TypeOK /\ c[1] \in Refs /\ c[2] \in {"debit", "refund"}
    BY CallFacts DEF WalletInv, NonNegativeInductive
  <1>2. st' = [st EXCEPT ![c[1]] = StatusOf(c[1])']
    BY <1>1, StatusOfGoto
  <1>3. CASE c[2] = "debit"
    <2>0. /\ c = Debit(c[1]) /\ pc[RefundOf(c[1])] # "ok" /\ StatusOf(c[1]) = "new"
      BY <1>3, StatusUnderWay
    <2>a. pc'[c] = s /\ pc'[RefundOf(c[1])] # "ok"
      BY <1>1, <2>0, StatusOfGoto
    <2>1. /\ pc'[Debit(c[1])] = s /\ pc'[RefundOf(c[1])] # "ok" /\ StatusOf(c[1]) = "new"
      BY <2>0, <2>a
    <2>2. /\ s \in Active => StatusOf(c[1])' = "new"
          /\ s \in {"denied", "failed"} => StatusOf(c[1])' = s
          /\ s = "ok" => StatusOf(c[1])' = "charged"
      BY <2>1 DEF StatusOf, Active
    <2>3. s \in Active => st' = st
      BY <1>1, <1>2, <2>1, <2>2
    <2> QED
      BY <1>2, <1>3, <2>2, <2>3
  <1>4. CASE c[2] = "refund"
    <2>0. /\ c = RefundOf(c[1]) /\ pc[Debit(c[1])] = "ok" /\ StatusOf(c[1]) = "charged"
      BY <1>4, StatusUnderWay
    <2>a. pc'[c] = s /\ pc'[Debit(c[1])] = "ok"
      BY <1>1, <2>0, StatusOfGoto
    <2>1. /\ pc'[RefundOf(c[1])] = s /\ pc'[Debit(c[1])] = "ok" /\ StatusOf(c[1]) = "charged"
      BY <2>0, <2>a
    <2>2. /\ s # "ok" => StatusOf(c[1])' = "charged"
          /\ s = "ok" => StatusOf(c[1])' = "refunded"
      BY <2>1 DEF StatusOf
    <2>3. s # "ok" => st' = st
      BY <1>1, <1>2, <2>1, <2>2
    <2> QED
      BY <1>2, <1>4, <2>2, <2>3 DEF Active
  <1> QED
    BY <1>1, <1>3, <1>4

LEMMA BeginIsWallet ==
    ASSUME WalletInv, [Next]_vars, NEW c \in Calls, Begin(c)
    PROVE  [W!Next]_(W!walletVars)
  <1> DEFINE st == [r \in Refs |-> StatusOf(r)]
  <1>1. TypeOK /\ c[1] \in Refs
    BY CallFacts DEF WalletInv, NonNegativeInductive
  <1>2. PICK s \in {"mutate", "failed"} : Goto(c, s)
    BY <1>1 DEF Begin
  <1>3. st' = [st EXCEPT ![c[1]] = StatusOf(c[1])']
    BY <1>1, <1>2, StatusOfGoto DEF CallStates, Active
  <1>4. UNCHANGED <<VisibleBalance, seen>>
    BY BalanceKept DEF Begin, stores
  <1>5. CASE StatusOf(c[1])' = StatusOf(c[1])
    <2>1. st' = st
      BY <1>1, <1>3, <1>5
    <2> QED
      BY <1>4, <2>1 DEF W!walletVars
  <1>6. CASE StatusOf(c[1])' # StatusOf(c[1])
    <2>1. StatusOf(c[1]) = "new" /\ StatusOf(c[1])' = "failed"
      <3>1. pc[c] = "idle" /\ pc'[c] = s
        BY <1>1, <1>2, StatusOfGoto DEF Begin, CallStates, Active
      <3>2. CASE c = Debit(c[1])
        BY <1>1, <1>2, <1>6, <3>1, <3>2, StatusOfGoto
           DEF StatusOf, WalletInv, RefundsFollowDebits, CallStates, Active
      <3>3. CASE c = RefundOf(c[1])
        <4>1. c[2] = "refund" /\ pc[Debit(c[1])] = "ok"
          BY <3>3, CallFacts DEF Begin
        <4>2. pc'[Debit(c[1])] = "ok"
          BY <1>1, <1>2, <3>3, <4>1, StatusOfGoto DEF CallStates, Active
        <4>3. StatusOf(c[1]) = "charged" /\ StatusOf(c[1])' = "charged"
          BY <3>1, <3>3, <4>1, <4>2 DEF StatusOf
        <4> QED
          BY <1>6, <4>3
      <3> QED
        BY <3>2, <3>3, CallFacts
    <2>2. W!Fail(c[1])
      BY <1>1, <1>3, <1>4, <2>1 DEF W!Fail
    <2> QED
      BY <1>1, <2>2 DEF W!Next
  <1> QED
    BY <1>5, <1>6

LEMMA ScriptIsWallet ==
    ASSUME WalletInv, [Next]_vars, NEW c \in Calls, Mutate(c) \/ Retry(c),
           AccountOf(c) \notin spoiled'
    PROVE  [W!Next]_(W!walletVars)
  <1> DEFINE r == c[1]
             st == [p \in Refs |-> StatusOf(p)]
  <1>1. /\ TypeOK /\ NonNegativeInductive
        /\ r \in Refs /\ AccountOf(c) \in Accounts /\ c[2] \in {"debit", "refund"}
    BY CallFacts DEF WalletInv, NonNegativeInductive
  <1>2. pc[c] \in {"mutate", "retry"} /\ pc[c] \in Active /\ UNCHANGED <<seen, db>>
    BY DEF Mutate, Retry, Active
  <1>3. CASE Goto(c, "load") /\ UNCHANGED cache
    <2>1. UNCHANGED st
      BY <1>2, <1>3, MoveStatus DEF CallStates, Active
    <2> QED
      BY <1>2, <1>3, <2>1, BalanceKept DEF W!walletVars
  <1>4. CASE /\ cache[AccountOf(c)] # Absent /\ Refused(c) /\ c[2] = "debit"
             /\ Goto(c, "denied") /\ UNCHANGED cache
    <2>1. StatusOf(r) = "new" /\ st' = [st EXCEPT ![r] = "denied"]
      BY <1>2, <1>4, StatusUnderWay, MoveStatus DEF CallStates
    <2>2. VisibleBalance[Owner[r]] < Cost[r]
      BY <1>1, <1>2, <1>4, HitReply DEF AccountOf, AmountOf, VisibleBalance
    <2>3. W!Deny(r)
      BY <1>1, <1>2, <1>4, <2>1, <2>2, BalanceKept DEF W!Deny
    <2> QED
      BY <1>1, <2>3 DEF W!Next
  <1>5. CASE /\ cache[AccountOf(c)] # Absent /\ ~Refused(c)
             /\ Reply(c) \in Int /\ Succeed(c)
             /\ cache' = [cache EXCEPT ![AccountOf(c)] = Reply(c)]
    <2>1. /\ cache[AccountOf(c)] \in Int /\ Goto(c, "ok")
          /\ VisibleBalance[Owner[r]] = cache[AccountOf(c)]
          /\ AmountOf(c) = Cost[r] /\ AmountOf(c) > 0
      BY <1>1, <1>2, <1>5, HitReply DEF AccountOf, AmountOf, VisibleBalance, Succeed
    <2>2. VisibleBalance' = [VisibleBalance EXCEPT ![Owner[r]] = Reply(c)]
      BY <1>1, <1>2, <1>5, ConstantsAssumption DEF AccountOf, VisibleBalance, TypeOK
    <2>3. CASE c[2] = "debit"
      <3>1. StatusOf(r) = "new" /\ st' = [st EXCEPT ![r] = "charged"]
        BY <1>2, <2>1, <2>3, StatusUnderWay, MoveStatus DEF CallStates
      <3>2. Cost[r] <= cache[AccountOf(c)] /\ Reply(c) = cache[AccountOf(c)] - Cost[r]
        BY <1>1, <1>2, <1>5, <2>1, <2>3, HitReply
      <3>3. W!Charge(r)
        BY <1>1, <1>2, <2>1, <2>2, <3>1, <3>2 DEF W!Charge
      <3> QED
        BY <1>1, <3>3 DEF W!Next
    <2>4. CASE c[2] = "refund"
      <3>1. StatusOf(r) = "charged" /\ st' = [st EXCEPT ![r] = "refunded"]
        BY <1>2, <2>1, <2>4, StatusUnderWay, MoveStatus DEF CallStates
      <3>2. Reply(c) = cache[AccountOf(c)] + Cost[r]
        BY <1>1, <1>2, <1>5, <2>1, <2>4, HitReply
      <3>3. W!Refund(r)
        BY <1>1, <1>2, <2>1, <2>2, <3>1, <3>2 DEF W!Refund
      <3> QED
        BY <1>1, <3>3 DEF W!Next
    <2> QED
      BY <1>1, <2>3, <2>4
  <1> QED
    BY <1>3, <1>4, <1>5, ScriptOutcome

LEMMA HydrationIsWallet ==
    ASSUME WalletInv, [Next]_vars, NEW c \in Calls, HydrateLoad(c) \/ HydrateStore(c),
           AccountOf(c) \notin spoiled'
    PROVE  UNCHANGED W!walletVars
  <1>1. /\ pc[c] \in Active /\ UNCHANGED <<seen, db>>
        /\ \E s \in Active : Goto(c, s)
    BY DEF HydrateLoad, HydrateStore, Active, stores
  <1>2. UNCHANGED [r \in Refs |-> StatusOf(r)]
    BY <1>1, MoveStatus DEF CallStates
  <1>3. UNCHANGED VisibleBalance
    BY <1>1, BalanceKept, CallFacts, ProcessFacts DEF HydrateLoad, HydrateStore, Spoiler, stores
  <1> QED
    BY <1>1, <1>2, <1>3 DEF W!walletVars

LEMMA FailureIsWallet ==
    ASSUME WalletInv, [Next]_vars, NEW c \in Calls,
           RedisError(c) \/ LoadError(c) \/ LostReply(c), AccountOf(c) \notin spoiled'
    PROVE  [W!Next]_(W!walletVars)
  <1>1. pc[c] \in Active /\ Goto(c, "failed") /\ UNCHANGED <<db, seen>>
    BY DEF RedisError, LoadError, LostReply, Active, stores
  <1>2. c[1] \in Refs /\ c[2] \in {"debit", "refund"}
    BY CallFacts
  <1>3. UNCHANGED VisibleBalance
    <2>1. CASE RedisError(c) \/ LoadError(c)
      BY <2>1, BalanceKept DEF RedisError, LoadError, stores
    <2>2. CASE LostReply(c)
      <3>1. UNCHANGED cache \/ (Fill(c) /\ ~Outdated(c))
        BY <2>2, UnnoticedOutcome, CallFacts, ProcessFacts
           DEF LostReply, WalletInv, NonNegativeInductive
      <3> QED
        BY <1>1, <3>1, BalanceKept, CallFacts, ProcessFacts
    <2> QED
      BY <2>1, <2>2
  <1>4. CASE c[2] = "debit"
    <2>1. /\ StatusOf(c[1]) = "new"
          /\ [r \in Refs |-> StatusOf(r)]' = [[r \in Refs |-> StatusOf(r)] EXCEPT ![c[1]] = "failed"]
      BY <1>1, <1>4, StatusUnderWay, MoveStatus DEF CallStates
    <2>2. W!Fail(c[1])
      BY <1>1, <1>2, <1>3, <2>1 DEF W!Fail
    <2> QED
      BY <1>2, <2>2 DEF W!Next
  <1>5. CASE c[2] = "refund"
    <2>1. UNCHANGED [r \in Refs |-> StatusOf(r)]
      BY <1>1, <1>5, MoveStatus DEF CallStates
    <2> QED
      BY <1>1, <1>3, <2>1 DEF W!walletVars
  <1> QED
    BY <1>2, <1>4, <1>5

LEMMA CrashIsWallet ==
    ASSUME WalletInv, [Next]_vars, NEW served \in SUBSET Unfinished, Crash(served)
    PROVE  UNCHANGED W!walletVars
  <1>1. UNCHANGED <<VisibleBalance, seen>>
    BY BalanceKept DEF Crash, stores
  <1>2. ASSUME NEW r \in Refs PROVE StatusOf(r)' = StatusOf(r)
    <2>1. Debit(r) \in Processes /\ RefundOf(r) \in Processes
      BY DEF Calls, Processes
    <2>2. ~Orphaned(Debit(r)) \/ pc[Debit(r)] \in Active \cup {"get"}
      BY DEF Orphaned, Running
    <2>3. pc'[Debit(r)] = pc[Debit(r)] \/ (pc[Debit(r)] \in Active \cup {"get"} /\ pc'[Debit(r)] = "dead")
      BY <2>1, <2>2 DEF Crash
    <2>4. pc'[RefundOf(r)] = pc[RefundOf(r)] \/ (pc[RefundOf(r)] # "ok" /\ pc'[RefundOf(r)] = "dead")
      BY <2>1 DEF Crash, Orphaned, Running, Active
    <2> QED
      BY <2>3, <2>4 DEF StatusOf, Active
  <1> QED
    BY <1>1, <1>2 DEF W!walletVars

LEMMA ReadIsWallet ==
    ASSUME WalletInv, [Next]_vars, NEW q \in Readers, BeginRead(q) \/ ReadStep(q),
           Owner[q] \notin spoiled'
    PROVE  [W!Next]_(W!walletVars)
  <1> USE DEF stores, aside
  <1>1. UNCHANGED VisibleBalance
    BY BalanceKept, ReaderFacts, ProcessFacts
       DEF BeginRead, ReadStep, ReadCache, ReadStore, PrimeCache, ReadError, Spoiler
  <1>2. \A r \in Refs : StatusOf(r)' = StatusOf(r)
    <2>1. \A c \in Calls : pc'[c] = pc[c]
      BY CallFacts, ReaderFacts
         DEF BeginRead, ReadStep, ReadCache, ReadStore, PrimeCache, ReadError, Goto, WalletInv,
             NonNegativeInductive, TypeOK
    <2> QED
      BY <2>1 DEF StatusOf, Calls
  <1>3. CASE UNCHANGED seen
    BY <1>1, <1>2, <1>3 DEF W!walletVars
  <1>4. ASSUME pc[q] \in {"get", "store"},
               seen' = [seen EXCEPT ![q] = VisibleBalance[Owner[q]]]
        PROVE  W!Next
    <2>1. seen[q] = Absent
      BY <1>4 DEF WalletInv, UnansweredReads
    <2>2. W!Observe(q)
      BY <1>1, <1>2, <1>4, <2>1 DEF W!Observe
    <2> QED
      BY <2>2 DEF W!Next
  <1>5. CASE ReadCache(q)
    <2>1. cache[Owner[q]] # Absent => VisibleBalance[Owner[q]] = cache[Owner[q]]
      BY ReaderFacts DEF VisibleBalance
    <2> QED
      BY <1>3, <1>4, <1>5, <2>1 DEF ReadCache
  <1>6. CASE PrimeCache(q)
    <2>1. ~Hot(Owner[q]) /\ loaded[q] = db[Owner[q]]
      BY <1>6, ReaderFacts, ProcessFacts DEF PrimeCache, Spoiler, Outdated
    <2>2. VisibleBalance[Owner[q]] = loaded[q]
      BY <2>1, ReaderFacts, SpoiledStays DEF VisibleBalance, WalletInv, ColdAgrees, ColdAt
    <2> QED
      BY <1>4, <1>6, <2>2 DEF PrimeCache
  <1> QED
    BY <1>3, <1>5, <1>6 DEF BeginRead, ReadStep, ReadStore, ReadError

\* A step of one account shows nothing of the others.
LEMMA ElsewhereKept ==
    ASSUME TypeOK, TypeOK', NEW b \in Accounts, Local(b), UNCHANGED WalletOf(b)
    PROVE  UNCHANGED W!walletVars
  <1>1. ASSUME NEW a \in Accounts PROVE VisibleBalance'[a] = VisibleBalance[a]
    BY DEF Local, VisibleBalance, WalletOf
  <1>2. ASSUME NEW r \in Refs PROVE StatusOf(r)' = StatusOf(r)
    <2>1. /\ Debit(r) \in Calls /\ RefundOf(r) \in Calls
          /\ AccountFor(Debit(r)) = Owner[r] /\ AccountFor(RefundOf(r)) = Owner[r]
      BY DEF Calls, AccountFor, AccountOf
    <2>2. CASE Owner[r] # b
      BY <2>1, <2>2, CallFacts DEF Local, StatusOf
    <2>3. CASE Owner[r] = b
      <3> DEFINE st == [x \in {x \in Refs : Owner[x] = b} |-> StatusOf(x)]
      <3>1. st' = st
        BY DEF WalletOf
      <3>2. st[r] = StatusOf(r) /\ st'[r] = StatusOf(r)'
        BY <2>3
      <3> QED
        BY <3>1, <3>2
    <2> QED
      BY <2>2, <2>3
  <1>3. ASSUME NEW q \in Readers PROVE seen'[q] = seen[q]
    <2>1. CASE Owner[q] = b
      <3> DEFINE sn == [x \in {x \in Readers : Owner[x] = b} |-> seen[x]]
      <3>1. sn' = sn
        BY DEF WalletOf
      <3>2. sn[q] = seen[q] /\ sn'[q] = seen'[q]
        BY <2>1
      <3> QED
        BY <3>1, <3>2
    <2> QED
      BY <2>1 DEF Local
  <1>4. UNCHANGED VisibleBalance
    BY <1>1 DEF VisibleBalance
  <1>5. seen' = seen
    BY <1>3 DEF TypeOK
  <1> QED
    BY <1>2, <1>4, <1>5 DEF W!walletVars

LEMMA ActIsWallet ==
    ASSUME WalletInv, [Next]_vars, NEW b \in Accounts, ActsOn(b), b \notin spoiled'
    PROVE  [W!Next]_(W!walletVars)
  <1>1. ASSUME NEW c \in Calls, AccountOf(c) = b, Persist(c) PROVE UNCHANGED W!walletVars
    <2>1. UNCHANGED <<pc, seen>>
      BY <1>1 DEF Persist, RecordTransaction, UpdateBalance
    <2> QED
      BY <1>1, <2>1, BalanceKept DEF W!walletVars, StatusOf
  <1>2. ASSUME NEW p \in Processes, AccountFor(p) = b, Resend(p) PROVE UNCHANGED W!walletVars
    <2>1. UNCHANGED <<pc, seen, db>>
      BY <1>2 DEF Resend
    <2>2. UNCHANGED cache \/ (Fill(p) /\ ~Outdated(p))
      BY <1>2, UnnoticedOutcome DEF Resend, WalletInv, NonNegativeInductive
    <2> QED
      BY <1>2, <2>1, <2>2, BalanceKept DEF W!walletVars, StatusOf
  <1>3. CASE Evict(b) \/ Expire(b)
    <2>1. UNCHANGED <<pc, seen>>
      BY <1>3 DEF Evict, Expire
    <2> QED
      BY <1>3, <2>1, BalanceKept DEF W!walletVars, StatusOf
  <1> QED
    BY <1>1, <1>2, <1>3, BeginIsWallet, ScriptIsWallet, HydrationIsWallet, FailureIsWallet,
       ReadIsWallet
       DEF ActsOn, CallStep

LEMMA NextIsWallet ==
    ASSUME WalletInv, [Next]_vars
    PROVE  [(\A a \in spoiled' : UNCHANGED WalletOf(a)) => W!Next]_(W!walletVars)
  <1>1. ASSUME NEW b \in Accounts, ActsOn(b), \A a \in spoiled' : UNCHANGED WalletOf(a)
        PROVE  [W!Next]_(W!walletVars)
    <2>1. CASE b \notin spoiled'
      BY <1>1, <2>1, ActIsWallet
    <2>2. CASE b \in spoiled'
      <3>1. TypeOK /\ TypeOK' /\ Local(b)
        BY <1>1, ActsLocally, NextTypes DEF WalletInv, NonNegativeInductive
      <3> QED
        BY <1>1, <2>2, <3>1, ElsewhereKept
    <2> QED
      BY <2>1, <2>2
  <1>2. CASE UNCHANGED vars
    BY <1>2, BalanceKept DEF vars, W!walletVars, StatusOf
  <1> QED
    BY <1>1, <1>2, WhoActs, CrashIsWallet

LEMMA InitIsWallet ==
    ASSUME Init
    PROVE  W!Init
  <1>1. VisibleBalance = Opening
    BY OpeningAssumption, ConstantsAssumption DEF Init, VisibleBalance
  <1>2. ASSUME NEW r \in Refs PROVE StatusOf(r) = "new"
    BY DEF Init, StatusOf, Calls, Processes
  <1> QED
    BY <1>1, <1>2 DEF Init, W!Init

\* Every account is a wallet up to its first Spoiler, with no condition on what may
\* fail or overlap: for any number of accounts, purchases and reads, from a cold
\* cache, a warm one or any mixture, through hydration, expiry, eviction, errors,
\* commands sent again and stops of a process.  The Spoilers are all that the
\* code lets come between an account and its wallet.
THEOREM EngineImplementsWallet == Spec => ImplementsWallet
  <1>1. Init => WalletInv /\ W!Init
    BY InitWalletInv, InitIsWallet
  <1>2. WalletInv /\ [Next]_vars => WalletInv'
    BY NextWalletInv
  <1>3. WalletInv /\ [Next]_vars
        => [(\A a \in spoiled' : UNCHANGED WalletOf(a)) => W!Next]_(W!walletVars)
    BY NextIsWallet
  <1> QED
    BY <1>1, <1>2, <1>3, PTL DEF Spec, ImplementsWallet

-----------------------------------------------------------------------------
(* The books: until its first Spoiler the balance shown of an account is   *)
(* at all times the opening balance less the debits reported as successes  *)
(* plus such refunds.  It follows that nobody pays for more than the       *)
(* account had and that the transactions in Mongo account for the balance. *)

\* The cost of a set of calls, one call added.
LEMMA CostOfNone == IsFiniteSet(Units({})) /\ CostOf({}) = 0
  <1>1. Units({}) = {}
    BY DEF Units
  <1> QED
    BY <1>1, FS_EmptySet DEF CostOf

LEMMA DisjointUnion ==
    ASSUME NEW U, NEW V, IsFiniteSet(U), IsFiniteSet(V), U \cap V = {}
    PROVE  /\ IsFiniteSet(U \cup V)
           /\ Cardinality(U) \in Nat
           /\ Cardinality(U \cup V) = Cardinality(U) + Cardinality(V)
  <1>1. Cardinality(U) \in Nat /\ Cardinality(V) \in Nat
    BY FS_CardinalityType
  <1>2. Cardinality(U \cap V) = 0
    BY FS_EmptySet
  <1>3. /\ IsFiniteSet(U \cup V)
        /\ Cardinality(U \cup V) = Cardinality(U) + Cardinality(V) - Cardinality(U \cap V)
    BY FS_Union
  <1> QED
    BY <1>1, <1>2, <1>3

LEMMA Column ==
    ASSUME NEW c, NEW n \in Nat
    PROVE  IsFiniteSet({c} \X (1..n)) /\ Cardinality({c} \X (1..n)) = n
  <1> DEFINE one == {c}
             units == 1..n
  <1>1. IsFiniteSet(one) /\ Cardinality(one) = 1
    BY FS_Singleton
  <1>2. IsFiniteSet(units) /\ Cardinality(units) = n
    BY FS_Interval
  <1>3. one \X units = {c} \X (1..n)
    OBVIOUS
  <1> HIDE DEF one, units
  <1>4. IsFiniteSet(one \X units) /\ Cardinality(one \X units) = Cardinality(one) * Cardinality(units)
    BY <1>1, <1>2, FS_Product
  <1>5. Cardinality(one \X units) = n
    BY <1>1, <1>2, <1>4
  <1> QED
    BY <1>3, <1>4, <1>5

LEMMA CostOfOneMore ==
    ASSUME NEW S, IsFiniteSet(Units(S)), NEW c, c \notin S, AmountOf(c) \in Nat
    PROVE  /\ IsFiniteSet(Units(S \cup {c}))
           /\ CostOf(S) \in Nat
           /\ CostOf(S \cup {c}) = CostOf(S) + AmountOf(c)
  <1> DEFINE new == {c} \X (1..AmountOf(c))
  <1>1. Units(S \cup {c}) = Units(S) \cup new
    BY DEF Units
  <1>2. Units(S) \cap new = {}
    BY DEF Units
  <1>3. IsFiniteSet(new) /\ Cardinality(new) = AmountOf(c)
    BY Column
  <1> HIDE DEF new
  <1>4. /\ IsFiniteSet(Units(S) \cup new)
        /\ Cardinality(Units(S)) \in Nat
        /\ Cardinality(Units(S) \cup new) = Cardinality(Units(S)) + Cardinality(new)
    BY <1>2, <1>3, DisjointUnion
  <1>5. IsFiniteSet(Units(S \cup {c}))
    BY <1>1, <1>4
  <1>6. Cardinality(Units(S \cup {c})) = Cardinality(Units(S)) + AmountOf(c)
    BY <1>1, <1>3, <1>4
  <1> QED
    BY <1>4, <1>5, <1>6 DEF CostOf

\* What a step does to an account it does not spoil: nothing to its balance and to the
\* calls reported as successes, or it takes the amount of one debit, or returns that of
\* one refund.
LEMMA MoneyMoves ==
    ASSUME WalletInv, [Next]_vars, NEW a \in Accounts, a \notin spoiled'
    PROVE  \/ /\ VisibleBalance'[a] = VisibleBalance[a]
              /\ \A d \in Calls : AccountOf(d) = a => (pc'[d] = "ok" <=> pc[d] = "ok")
           \/ \E c \in Calls :
                 /\ AccountOf(c) = a /\ pc[c] # "ok" /\ AmountOf(c) \in Nat
                 /\ \A d \in Calls : AccountOf(d) = a => (pc'[d] = "ok" <=> pc[d] = "ok" \/ d = c)
                 /\ VisibleBalance'[a] = IF c[2] = "debit" THEN VisibleBalance[a] - AmountOf(c)
                                                         ELSE VisibleBalance[a] + AmountOf(c)
  <1> DEFINE Still == /\ VisibleBalance'[a] = VisibleBalance[a]
                      /\ \A d \in Calls : AccountOf(d) = a => (pc'[d] = "ok" <=> pc[d] = "ok")
             Moved(c) ==
                 /\ AccountOf(c) = a /\ pc[c] # "ok" /\ AmountOf(c) \in Nat
                 /\ \A d \in Calls : AccountOf(d) = a => (pc'[d] = "ok" <=> pc[d] = "ok" \/ d = c)
                 /\ VisibleBalance'[a] = IF c[2] = "debit" THEN VisibleBalance[a] - AmountOf(c)
                                                         ELSE VisibleBalance[a] + AmountOf(c)
             Goal == Still \/ \E c \in Calls : Moved(c)
  <1> USE DEF stores, jobs, aside
  <1>a. TypeOK /\ NonNegativeInductive
    BY DEF WalletInv, NonNegativeInductive
  <1>1. ASSUME NEW c \in Calls, NEW s \in CallStates \ {"ok"}, pc[c] # "ok", Goto(c, s),
               UNCHANGED VisibleBalance
        PROVE  Still
    BY <1>a, <1>1, CallFacts DEF Goto, TypeOK
  <1>2. ASSUME NEW b \in Accounts, ActsOn(b), b # a PROVE Still
    <2>1. Local(b)
      BY <1>a, <1>2, ActsLocally
    <2>2. VisibleBalance'[a] = VisibleBalance[a]
      BY <1>2, <2>1 DEF Local, VisibleBalance
    <2>3. \A d \in Calls : AccountOf(d) = a => pc'[d] = pc[d]
      BY <1>2, <2>1, CallFacts, ProcessFacts DEF Local
    <2> QED
      BY <2>2, <2>3
  <1>3. ASSUME NEW c \in Calls, AccountOf(c) = a,
               \/ Begin(c) \/ HydrateLoad(c) \/ HydrateStore(c)
               \/ RedisError(c) \/ LoadError(c) \/ LostReply(c)
        PROVE  Still
    <2>1. UNCHANGED VisibleBalance
      <3>1. CASE HydrateStore(c)
        BY <1>3, <3>1, BalanceKept, CallFacts, ProcessFacts DEF HydrateStore, Spoiler
      <3>2. CASE LostReply(c)
        <4>1. UNCHANGED cache \/ (Fill(c) /\ ~Outdated(c))
          BY <1>a, <1>3, <3>2, UnnoticedOutcome, CallFacts, ProcessFacts DEF LostReply
        <4> QED
          BY <1>3, <3>2, <4>1, BalanceKept, CallFacts, ProcessFacts DEF LostReply
      <3> QED
        BY <1>3, <3>1, <3>2, BalanceKept DEF Begin, HydrateLoad, RedisError, LoadError
    <2>2. pc[c] # "ok" /\ \E s \in CallStates \ {"ok"} : Goto(c, s)
      BY <1>3 DEF Begin, HydrateLoad, HydrateStore, RedisError, LoadError, LostReply, CallStates,
                  Active
    <2> QED
      BY <1>1, <2>1, <2>2
  <1>4. ASSUME NEW c \in Calls, AccountOf(c) = a, Mutate(c) \/ Retry(c) PROVE Goal
    <2>1. pc[c] \in {"mutate", "retry"} /\ UNCHANGED db
      BY <1>4 DEF Mutate, Retry
    <2>2. CASE UNCHANGED cache /\ (Goto(c, "load") \/ Goto(c, "denied"))
      BY <1>1, <2>1, <2>2, BalanceKept DEF CallStates, Active
    <2>3. CASE /\ cache[AccountOf(c)] # Absent /\ ~Refused(c)
               /\ Reply(c) \in Int /\ Succeed(c)
               /\ cache' = [cache EXCEPT ![AccountOf(c)] = Reply(c)]
      <3>1. AmountOf(c) \in Nat /\ pc[c] # "ok"
        BY <1>a, <2>1, <2>3, HitReply, CallFacts
      <3>2. \A d \in Calls : pc'[d] = "ok" <=> pc[d] = "ok" \/ d = c
        BY <1>a, <2>3, CallFacts DEF Succeed, Goto, TypeOK
      <3>3. Reply(c) = IF c[2] = "debit" THEN cache[a] - AmountOf(c) ELSE cache[a] + AmountOf(c)
        BY <1>a, <1>4, <2>1, <2>3, HitReply, CallFacts
      <3>4. VisibleBalance[a] = cache[a]
        BY <1>4, <2>3 DEF VisibleBalance
      <3>5. VisibleBalance'[a] = Reply(c)
        BY <1>a, <1>4, <2>3, ConstantsAssumption DEF VisibleBalance, TypeOK
      <3> QED
        BY <1>4, <3>1, <3>2, <3>3, <3>4, <3>5
    <2> QED
      BY <1>4, <2>2, <2>3, ScriptOutcome
  <1>5. ASSUME NEW q \in Readers, Owner[q] = a, BeginRead(q) \/ ReadStep(q) PROVE Still
    <2>1. UNCHANGED VisibleBalance
      BY <1>5, BalanceKept, ReaderFacts, ProcessFacts
         DEF BeginRead, ReadStep, ReadCache, ReadStore, PrimeCache, ReadError, Spoiler
    <2>2. \A c \in Calls : pc'[c] = pc[c]
      BY <1>a, <1>5, CallFacts, ReaderFacts
         DEF BeginRead, ReadStep, ReadCache, ReadStore, PrimeCache, ReadError, Goto, TypeOK
    <2> QED
      BY <2>1, <2>2
  <1>6. ASSUME NEW c \in Calls, AccountOf(c) = a, Persist(c) PROVE Still
    <2>1. UNCHANGED pc
      BY <1>6 DEF Persist, RecordTransaction, UpdateBalance
    <2> QED
      BY <1>6, <2>1, BalanceKept
  <1>7. ASSUME NEW p \in Processes, AccountFor(p) = a, Resend(p) PROVE Still
    <2>1. UNCHANGED <<pc, db>>
      BY <1>7 DEF Resend
    <2>2. UNCHANGED cache \/ (Fill(p) /\ ~Outdated(p))
      BY <1>a, <1>7, UnnoticedOutcome DEF Resend
    <2> QED
      BY <1>7, <2>1, <2>2, BalanceKept
  <1>8. CASE Evict(a) \/ Expire(a)
    <2>1. UNCHANGED pc
      BY <1>8 DEF Evict, Expire
    <2> QED
      BY <1>8, <2>1, BalanceKept
  <1>9. ASSUME NEW served \in SUBSET Unfinished, Crash(served) PROVE Still
    <2>1. UNCHANGED VisibleBalance
      BY <1>9, BalanceKept DEF Crash
    <2>2. \A c \in Calls : pc'[c] = "ok" <=> pc[c] = "ok"
      BY <1>9, CallFacts DEF Crash, Orphaned, Running, Active
    <2> QED
      BY <2>1, <2>2
  <1>10. CASE UNCHANGED vars
    BY <1>10, BalanceKept DEF vars
  <1>11. CASE ActsOn(a)
    BY <1>3, <1>4, <1>5, <1>6, <1>7, <1>8, <1>11 DEF ActsOn, CallStep
  <1> QED
    BY <1>2, <1>9, <1>10, <1>11, WhoActs

\* The balance shown, the calls that succeeded and the records of them.
Books ==
    /\ \A a \in Accounts \ spoiled :
          /\ IsFiniteSet(Units(Ok(DebitsOf(a))))
          /\ IsFiniteSet(Units(Ok(RefundsOf(a))))
          /\ CostOf(Ok(DebitsOf(a))) \in Nat
          /\ CostOf(Ok(RefundsOf(a))) \in Nat
          /\ VisibleBalance[a] = Opening[a] - CostOf(Ok(DebitsOf(a))) + CostOf(Ok(RefundsOf(a)))
    /\ ledger \subseteq Ok(Calls)
    /\ \A c \in Calls : pc[c] = "ok" => job[c] # "none"
    /\ \A c \in Calls : job[c] # "none" => pc[c] = "ok"

\* The calls that succeeded and their goroutines: a goroutine starts with the
\* success and records that one call.
LEMMA NextRecords ==
    ASSUME TypeOK, NEW c \in Calls, [Next]_vars,
           ledger \subseteq Ok(Calls),
           \A d \in Calls : pc[d] = "ok" <=> job[d] # "none"
    PROVE  /\ pc'[c] = "ok" <=> job'[c] # "none"
           /\ c \in ledger' => pc'[c] = "ok"
  <1> DEFINE Goal == /\ pc'[c] = "ok" <=> job'[c] # "none"
                     /\ c \in ledger' => pc'[c] = "ok"
  <1> USE DEF stores, jobs, aside
  <1>a. pc[c] = "ok" <=> job[c] # "none"
    OBVIOUS
  <1>b. c \in ledger => pc[c] = "ok"
    BY DEF Ok
  <1>1. ASSUME pc'[c] = "ok" <=> pc[c] = "ok", job'[c] # "none" <=> job[c] # "none",
               UNCHANGED ledger
        PROVE  Goal
    BY <1>a, <1>b, <1>1
  <1>2. ASSUME NEW d \in Calls, Mutate(d) \/ Retry(d) PROVE Goal
    <2>1. pc[d] # "ok" /\ UNCHANGED ledger
      BY <1>2 DEF Mutate, Retry
    <2>2. \/ UNCHANGED jobs /\ \E s \in {"load", "denied"} : Goto(d, s)
          \/ Succeed(d)
      BY <1>2 DEF Mutate, Retry
    <2>3. \/ pc'[c] = "ok" /\ job'[c] = "record"
          \/ (pc'[c] = "ok" <=> pc[c] = "ok") /\ job'[c] = job[c]
      BY <2>1, <2>2, CallFacts DEF Succeed, Goto, TypeOK
    <2> QED
      BY <1>a, <1>b, <2>1, <2>3
  <1>3. ASSUME NEW d \in Calls, Begin(d) \/ HydrateLoad(d) \/ HydrateStore(d) \/ RedisError(d)
                                \/ LoadError(d) \/ LostReply(d)
        PROVE  Goal
    <2>1. pc[d] # "ok" /\ UNCHANGED <<ledger, job>> /\ \E s \in CallStates \ {"ok"} : Goto(d, s)
      BY <1>3 DEF Begin, HydrateLoad, HydrateStore, RedisError, LoadError, LostReply, CallStates, Active
    <2> QED
      BY <1>1, <2>1, CallFacts DEF Goto, TypeOK
  <1>4. ASSUME NEW d \in Calls, Persist(d) PROVE Goal
    <2>1. UNCHANGED pc /\ pc[d] = "ok" /\ ledger' \subseteq ledger \cup {d}
      BY <1>4 DEF Persist, RecordTransaction, UpdateBalance
    <2>2. job'[c] # "none" <=> job[c] # "none"
      BY <1>4 DEF Persist, RecordTransaction, UpdateBalance, TypeOK
    <2> QED
      BY <1>a, <1>b, <2>1, <2>2
  <1>5. ASSUME NEW q \in Readers, BeginRead(q) \/ ReadStep(q) PROVE Goal
    <2>1. UNCHANGED <<ledger, job>> /\ pc'[c] = pc[c]
      BY <1>5, CallFacts, ReaderFacts
         DEF BeginRead, ReadStep, ReadCache, ReadStore, PrimeCache, ReadError, Goto, TypeOK
    <2> QED
      BY <1>1, <2>1
  <1>6. ASSUME NEW served \in SUBSET Unfinished, Crash(served) PROVE Goal
    <2>1. UNCHANGED ledger /\ (job'[c] # "none" <=> job[c] # "none")
      BY <1>6 DEF Crash, Persisting
    <2>2. pc'[c] = "ok" <=> pc[c] = "ok"
      BY <1>6, CallFacts DEF Crash, Orphaned, Running, Active
    <2> QED
      BY <1>1, <2>1, <2>2
  <1>7. CASE UNCHANGED <<ledger, job, pc>>
    BY <1>1, <1>7
  <1> QED
    BY <1>2, <1>3, <1>4, <1>5, <1>6, <1>7 DEF Next, CallStep, Resend, Evict, Expire, vars

LEMMA NextBooks ==
    ASSUME WalletInv, Books, [Next]_vars
    PROVE  Books'
  <1> DEFINE Debits(a) == Ok(DebitsOf(a))
             Refunds(a) == Ok(RefundsOf(a))
             Balanced(a) == /\ IsFiniteSet(Units(Debits(a)))
                            /\ IsFiniteSet(Units(Refunds(a)))
                            /\ CostOf(Debits(a)) \in Nat
                            /\ CostOf(Refunds(a)) \in Nat
                            /\ VisibleBalance[a] = Opening[a] - CostOf(Debits(a)) + CostOf(Refunds(a))
  <1>a. TypeOK
    BY DEF WalletInv, NonNegativeInductive
  <1>b. \A a \in Accounts \ spoiled' : Balanced(a) /\ Opening[a] \in Int
    BY OpeningAssumption, SpoiledStays DEF Books
  <1>1. \A c \in Calls : /\ pc'[c] = "ok" <=> job'[c] # "none"
                         /\ c \in ledger' => pc'[c] = "ok"
    BY <1>a, NextRecords DEF Books
  <1>2. ledger' \subseteq Ok(Calls)'
    <2>1. ledger' \subseteq Calls
      BY <1>a, NextTypes DEF TypeOK
    <2> QED
      BY <1>1, <2>1 DEF Ok
  <1>3. ASSUME NEW a \in Accounts \ spoiled' PROVE Balanced(a)'
    <2>1. CASE /\ VisibleBalance'[a] = VisibleBalance[a]
               /\ \A d \in Calls : AccountOf(d) = a => (pc'[d] = "ok" <=> pc[d] = "ok")
      <3>1. Debits(a)' = Debits(a) /\ Refunds(a)' = Refunds(a)
        BY <2>1 DEF Ok, DebitsOf, RefundsOf, AccountOf
      <3>2. Units(Debits(a))' = Units(Debits(a)) /\ Units(Refunds(a))' = Units(Refunds(a))
        BY <3>1 DEF Units, AmountOf
      <3> QED
        BY <1>b, <2>1, <3>2 DEF CostOf
    <2>2. ASSUME NEW c \in Calls, AccountOf(c) = a, pc[c] # "ok", AmountOf(c) \in Nat,
                 \A d \in Calls : AccountOf(d) = a => (pc'[d] = "ok" <=> pc[d] = "ok" \/ d = c),
                 VisibleBalance'[a] = IF c[2] = "debit" THEN VisibleBalance[a] - AmountOf(c)
                                                       ELSE VisibleBalance[a] + AmountOf(c)
          PROVE  Balanced(a)'
      <3>0. /\ c[2] \in {"debit", "refund"}
            /\ c \notin Debits(a) /\ c \notin Refunds(a)
        BY <2>2, CallFacts DEF Ok
      <3>1. CASE c[2] = "debit"
        <4>1. Debits(a)' = Debits(a) \cup {c} /\ Refunds(a)' = Refunds(a)
          BY <2>2, <3>1 DEF Ok, DebitsOf, RefundsOf, AccountOf
        <4>2. /\ Units(Debits(a))' = Units(Debits(a) \cup {c})
              /\ Units(Refunds(a))' = Units(Refunds(a))
          BY <4>1 DEF Units, AmountOf
        <4>3. /\ IsFiniteSet(Units(Debits(a) \cup {c}))
              /\ CostOf(Debits(a) \cup {c}) = CostOf(Debits(a)) + AmountOf(c)
          BY <1>b, <2>2, <3>0, CostOfOneMore
        <4>4. /\ CostOf(Debits(a))' = CostOf(Debits(a)) + AmountOf(c)
              /\ CostOf(Refunds(a))' = CostOf(Refunds(a))
          BY <4>2, <4>3 DEF CostOf
        <4>5. VisibleBalance'[a] = VisibleBalance[a] - AmountOf(c)
          BY <2>2, <3>1
        <4>6. IsFiniteSet(Units(Debits(a)))' /\ IsFiniteSet(Units(Refunds(a)))'
          BY <1>b, <4>2, <4>3
        <4> HIDE DEF Debits, Refunds
        <4> QED
          BY <1>b, <2>2, <4>4, <4>5, <4>6
      <3>2. CASE c[2] = "refund"
        <4>1. Refunds(a)' = Refunds(a) \cup {c} /\ Debits(a)' = Debits(a)
          BY <2>2, <3>2 DEF Ok, DebitsOf, RefundsOf, AccountOf
        <4>2. /\ Units(Refunds(a))' = Units(Refunds(a) \cup {c})
              /\ Units(Debits(a))' = Units(Debits(a))
          BY <4>1 DEF Units, AmountOf
        <4>3. /\ IsFiniteSet(Units(Refunds(a) \cup {c}))
              /\ CostOf(Refunds(a) \cup {c}) = CostOf(Refunds(a)) + AmountOf(c)
          BY <1>b, <2>2, <3>0, CostOfOneMore
        <4>4. /\ CostOf(Refunds(a))' = CostOf(Refunds(a)) + AmountOf(c)
              /\ CostOf(Debits(a))' = CostOf(Debits(a))
          BY <4>2, <4>3 DEF CostOf
        <4>5. VisibleBalance'[a] = VisibleBalance[a] + AmountOf(c)
          BY <2>2, <3>2
        <4>6. IsFiniteSet(Units(Debits(a)))' /\ IsFiniteSet(Units(Refunds(a)))'
          BY <1>b, <4>2, <4>3
        <4> HIDE DEF Debits, Refunds
        <4> QED
          BY <1>b, <2>2, <4>4, <4>5, <4>6
      <3> QED
        BY <3>0, <3>1, <3>2
    <2> QED
      BY <2>1, <2>2, MoneyMoves
  <1> QED
    BY <1>1, <1>2, <1>3 DEF Books

LEMMA InitBooks ==
    ASSUME Init
    PROVE  Books
  <1>1. \A c \in Calls : pc[c] = "idle" /\ job[c] = "none"
    BY CallFacts DEF Init
  <1>2. ASSUME NEW a \in Accounts PROVE Ok(DebitsOf(a)) = {} /\ Ok(RefundsOf(a)) = {}
    BY <1>1 DEF Ok, DebitsOf, RefundsOf
  <1>3. ASSUME NEW a \in Accounts
        PROVE  /\ IsFiniteSet(Units(Ok(DebitsOf(a)))) /\ CostOf(Ok(DebitsOf(a))) = 0
               /\ IsFiniteSet(Units(Ok(RefundsOf(a)))) /\ CostOf(Ok(RefundsOf(a))) = 0
    BY <1>2, CostOfNone
  <1>4. \A a \in Accounts : VisibleBalance[a] = Opening[a] /\ Opening[a] \in Int
    BY OpeningAssumption, ConstantsAssumption DEF Init, VisibleBalance
  <1>5. ledger = {}
    BY DEF Init
  <1> QED
    BY <1>1, <1>3, <1>4, <1>5 DEF Books

\* What the books say of a balance shown that is never negative, and of an account
\* that has come to rest.
LEMMA BooksSolvent ==
    ASSUME WalletInv, Books
    PROVE  OverspendIsExplained
  <1> SUFFICES ASSUME NEW a \in Accounts \ spoiled
               PROVE  CostOf(Ok(DebitsOf(a))) - CostOf(Ok(RefundsOf(a))) <= Opening[a]
    BY DEF OverspendIsExplained, Spent
  <1>1. VisibleBalance[a] \in Int /\ VisibleBalance[a] >= 0
    BY DEF WalletInv, NonNegativeInductive, NonNegative, TypeOK, VisibleBalance
  <1>2. /\ CostOf(Ok(DebitsOf(a))) \in Nat /\ CostOf(Ok(RefundsOf(a))) \in Nat /\ Opening[a] \in Nat
        /\ VisibleBalance[a] = Opening[a] - CostOf(Ok(DebitsOf(a))) + CostOf(Ok(RefundsOf(a)))
    BY OpeningAssumption DEF Books
  <1> QED
    BY <1>1, <1>2

LEMMA BooksReconcile ==
    ASSUME TypeOK, Books
    PROVE  LedgerReconciles
  <1> SUFFICES ASSUME NEW a \in Accounts \ spoiled, Quiet(a),
                      \A c \in Calls : AccountOf(c) = a /\ job[c] = "done" => c \in ledger
               PROVE  VisibleBalance[a] = Opening[a] - CostOf(DebitsOf(a) \cap ledger)
                                                     + CostOf(RefundsOf(a) \cap ledger)
    BY DEF LedgerReconciles
  <1>1. \A c \in Calls : AccountOf(c) = a => (pc[c] = "ok" <=> c \in ledger)
    <2> SUFFICES ASSUME NEW c \in Calls, AccountOf(c) = a PROVE pc[c] = "ok" <=> c \in ledger
      OBVIOUS
    <2>1. pc[c] = "ok" => job[c] = "done"
      BY DEF Books, Quiet, Persisting, TypeOK
    <2>2. c \in ledger => pc[c] = "ok"
      BY DEF Books, Ok
    <2> QED
      BY <2>1, <2>2
  <1>2. DebitsOf(a) \cap ledger = Ok(DebitsOf(a)) /\ RefundsOf(a) \cap ledger = Ok(RefundsOf(a))
    BY <1>1 DEF Ok, DebitsOf, RefundsOf
  <1> QED
    BY <1>2 DEF Books

LEMMA BooksAlways == Spec => [](WalletInv /\ Books)
  <1>1. Init => WalletInv /\ Books
    BY InitWalletInv, InitBooks
  <1>2. WalletInv /\ Books /\ [Next]_vars => (WalletInv /\ Books)'
    BY NextWalletInv, NextBooks
  <1> QED
    BY <1>1, <1>2, PTL DEF Spec

\* Nobody pays for more than the account had, plus what is refunded meanwhile, unless
\* one of the five Spoilers came first: the list of what the code lets go wrong
\* with a balance is complete.
THEOREM EngineNeverOverspends == Spec => []OverspendIsExplained
  <1>1. WalletInv /\ Books => OverspendIsExplained
    BY BooksSolvent
  <1> QED
    BY <1>1, BooksAlways, PTL

\* Once nothing is under way and no record was lost, the transactions in Mongo
\* account for the balance shown of every account that met no Spoiler, for any number
\* of purchases whose goroutines record them in any order.
THEOREM LedgerAlwaysReconciles == Spec => []LedgerReconciles
  <1>1. WalletInv /\ Books => LedgerReconciles
    BY BooksReconcile DEF WalletInv, NonNegativeInductive
  <1> QED
    BY <1>1, BooksAlways, PTL
=============================================================================
