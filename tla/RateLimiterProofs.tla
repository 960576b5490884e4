-------------------------- MODULE RateLimiterProofs --------------------------
(***************************************************************************)
(* Proofs about RateLimiter.                                               *)
(***************************************************************************)
EXTENDS RateLimiter, Integers, FiniteSetTheorems, TLAPS

LEMMA DivFacts ==
    ASSUME NEW a \in Nat, NEW M \in Nat \ {0}
    PROVE  /\ a \div M \in Nat
           /\ (a \div M) * M <= a
           /\ a < (a \div M) * M + M
  <1>1. a \div M \in Int /\ a % M \in 0 .. M-1 /\ a = M * (a \div M) + (a % M)
    BY SMT
  <1> QED
    BY <1>1

LEMMA TimesIsMonotone ==
    ASSUME NEW x \in Int, NEW y \in Int, NEW M \in Nat \ {0}, x <= y
    PROVE  x * M <= y * M
  BY SMT

LEMMA DivIsMonotone ==
    ASSUME NEW a \in Nat, NEW b \in Nat, NEW M \in Nat \ {0}, a <= b
    PROVE  a \div M <= b \div M
  <1>1. SUFFICES ASSUME a \div M >= b \div M + 1 PROVE FALSE
    BY DivFacts
  <1>2. (a \div M) * M >= (b \div M + 1) * M
    BY <1>1, DivFacts, TimesIsMonotone
  <1>3. (b \div M + 1) * M = (b \div M) * M + M
    BY DivFacts
  <1> QED
    BY <1>2, <1>3, DivFacts

-----------------------------------------------------------------------------
(* Types.                                                                  *)

\* The requests that may still be counted in a minute that has its limit.
Pending(m) == {r \in Requests : pc[r] = "idle" \/ (pc[r] = "incr" /\ KeyOf(r) = m)}

\* What TypeOK says, but for the bounds of the counters.
Types ==
    /\ now \in 0 .. Horizon
    /\ count \in [Minutes -> Nat]
    /\ expiry \in [Minutes -> 0 .. Horizon + Life]
    /\ pc \in [Requests -> Decided \cup {"idle", "incr", "expire"}]
    /\ arrived \in [Requests -> 0 .. Horizon]
    /\ reply \in [Requests -> Nat]
    /\ resent \subseteq Requests

\* A count goes past the limit at most once for every request.
CountsBounded ==
    /\ \A m \in Minutes :
          \/ count[m] <= Limit
          \/ count[m] + Cardinality(Pending(m)) <= Limit + Cardinality(Requests)
    /\ \A r \in Requests : reply[r] <= Limit + Cardinality(Requests)

LEMMA KeyFacts ==
    ASSUME Types, NEW r \in Requests
    PROVE  /\ KeyOf(r) \in Minutes
           /\ KeyOf(r) * Minute <= arrived[r]
           /\ arrived[r] < KeyOf(r) * Minute + Minute
  <1>1. arrived[r] \in Nat /\ arrived[r] <= Horizon /\ Horizon \in Nat /\ Minute \in Nat \ {0}
    BY RateAssumption DEF Types
  <1>2. arrived[r] \div Minute <= Horizon \div Minute
    BY <1>1, DivIsMonotone
  <1> QED
    BY <1>1, <1>2, DivFacts DEF KeyOf, Minutes

LEMMA PendingFacts ==
    ASSUME NEW m
    PROVE  /\ IsFiniteSet(Pending(m))
           /\ Cardinality(Pending(m)) \in Nat
           /\ Cardinality(Requests) \in Nat
           /\ Cardinality(Pending(m)) <= Cardinality(Requests)
  BY RateAssumption, FS_Subset, FS_CardinalityType DEF Pending

LEMMA InitTypes ==
    ASSUME Init
    PROVE  Types /\ CountsBounded
  <1>1. Types
    BY RateAssumption DEF Init, Types
  <1>2. CountsBounded
    BY RateAssumption, PendingFacts DEF Init, CountsBounded
  <1> QED
    BY <1>1, <1>2

LEMMA NextTypes ==
    ASSUME Types, [Next]_vars
    PROVE  Types'
  <1> USE RateAssumption
  <1>1. ASSUME NEW r \in Requests, Arrive(r) PROVE Types'
    BY <1>1 DEF Arrive, Goto, Types
  <1>2. ASSUME NEW r \in Requests, Incr(r) PROVE Types'
    BY <1>2, KeyFacts DEF Incr, Goto, Types
  <1>3. ASSUME NEW r \in Requests, SetExpiry(r) PROVE Types'
    <2>1. Verdict(reply[r]) \in Decided
      BY DEF Verdict, Decided
    <2>2. now + Life \in 0 .. Horizon + Life
      BY DEF Types
    <2>3. expiry' \in [Minutes -> 0 .. Horizon + Life]
      <3>1. 0 \in 0 .. Horizon + Life
        OBVIOUS
      <3>2. PICK e \in 0 .. Horizon + Life : expiry' = [expiry EXCEPT ![KeyOf(r)] = e]
        BY <1>3, <2>2, <3>1 DEF SetExpiry
      <3> QED
        BY <3>2 DEF Types
    <2> QED
      BY <1>3, <2>1, <2>3 DEF SetExpiry, Goto, Types
  <1>4. ASSUME NEW r \in Requests, RedisError(r) PROVE Types'
    BY <1>4 DEF RedisError, Goto, Types, Decided
  <1>5. ASSUME NEW r \in Requests, Resend(r) PROVE Types'
    BY <1>5 DEF Resend, Goto, Types
  <1>6. CASE Tick
    BY <1>6 DEF Tick, Types
  <1>7. CASE UNCHANGED vars
    BY <1>7 DEF vars, Types
  <1> QED
    BY <1>1, <1>2, <1>3, <1>4, <1>5, <1>6, <1>7 DEF Next

\* A request leaves the pending ones of its minute when it is counted there, and
\* comes back only while the count is within the limit.
LEMMA NextBounded ==
    ASSUME Types, CountsBounded, [Next]_vars
    PROVE  CountsBounded'
  <1> USE RateAssumption
  <1>0. Types'
    BY NextTypes
  <1>1. ASSUME UNCHANGED <<reply>>,
               \A m \in Minutes : count'[m] <= count[m],
               \A m \in Minutes : count[m] > Limit => Pending(m)' \subseteq Pending(m)
        PROVE  CountsBounded'
    <2>1. ASSUME NEW m \in Minutes, count'[m] > Limit
          PROVE  count'[m] + Cardinality(Pending(m)') <= Limit + Cardinality(Requests)
      <3>1. count[m] \in Nat /\ count'[m] \in Nat /\ count[m] > Limit
        BY <1>0, <1>1, <2>1 DEF Types
      <3>2. Cardinality(Pending(m)') <= Cardinality(Pending(m)) /\ Cardinality(Pending(m)') \in Nat
        BY <1>1, <3>1, PendingFacts, FS_Subset, FS_CardinalityType
      <3> QED
        BY <1>1, <3>1, <3>2, PendingFacts DEF CountsBounded
    <2>2. \A m \in Minutes : count'[m] \in Nat
      BY <1>0 DEF Types
    <2> QED
      BY <1>1, <2>1, <2>2 DEF CountsBounded
  <1>2. ASSUME NEW r \in Requests, Arrive(r) PROVE CountsBounded'
    <2>1. \A m : Pending(m)' \subseteq Pending(m)
      BY <1>2 DEF Arrive, Goto, Pending, KeyOf, Types
    <2> QED
      BY <1>1, <1>2, <2>1 DEF Arrive, Types
  <1>3. ASSUME NEW r \in Requests, Incr(r) PROVE CountsBounded'
    <2>1. PICK k \in Minutes : k = KeyOf(r) /\ count[k] \in Nat
      BY KeyFacts DEF Types
    <2>2. /\ count'[k] = count[k] + 1
          /\ \A m \in Minutes : m # k => count'[m] = count[m]
          /\ reply'[r] = count[k] + 1
          /\ \A s \in Requests : s # r => reply'[s] = reply[s]
      BY <1>3, <2>1 DEF Incr, Types
    <2>3. r \in Pending(k) /\ Pending(k)' = Pending(k) \ {r}
      BY <1>3, <2>1 DEF Incr, Goto, Pending, KeyOf, Types
    <2>4. \A m \in Minutes : Pending(m)' \subseteq Pending(m)
      BY <1>3 DEF Incr, Goto, Pending, KeyOf, Types
    <2>5. Cardinality(Pending(k)') = Cardinality(Pending(k)) - 1
      BY <2>3, PendingFacts, FS_RemoveElement
    <2>6. Cardinality(Pending(k)') \in Nat
      BY <2>3, PendingFacts, FS_RemoveElement, FS_CardinalityType
    <2>7. \/ count'[k] <= Limit
          \/ count'[k] + Cardinality(Pending(k)') <= Limit + Cardinality(Requests)
      BY <2>1, <2>2, <2>5, PendingFacts DEF CountsBounded
    <2>8. ASSUME NEW m \in Minutes, m # k
          PROVE  \/ count'[m] <= Limit
                 \/ count'[m] + Cardinality(Pending(m)') <= Limit + Cardinality(Requests)
      <3>1. Cardinality(Pending(m)') <= Cardinality(Pending(m)) /\ Cardinality(Pending(m)') \in Nat
        BY <2>4, PendingFacts, FS_Subset, FS_CardinalityType
      <3>2. count[m] \in Nat
        BY DEF Types
      <3> QED
        BY <2>2, <2>8, <3>1, <3>2, PendingFacts DEF CountsBounded
    <2>9. reply'[r] <= Limit + Cardinality(Requests)
      BY <2>1, <2>2, <2>6, <2>7, PendingFacts
    <2>10. \A s \in Requests : reply'[s] <= Limit + Cardinality(Requests)
      BY <2>2, <2>9 DEF CountsBounded
    <2>11. ASSUME NEW m \in Minutes
           PROVE  \/ count'[m] <= Limit
                  \/ count'[m] + Cardinality(Pending(m)') <= Limit + Cardinality(Requests)
      <3>1. CASE m = k
        BY <2>7, <3>1
      <3> QED
        BY <2>8, <3>1
    <2> QED
      BY <2>10, <2>11 DEF CountsBounded
  <1>4. ASSUME NEW r \in Requests, SetExpiry(r) PROVE CountsBounded'
    <2>1. \A m : Pending(m)' \subseteq Pending(m)
      BY <1>4 DEF SetExpiry, Goto, Pending, KeyOf, Types, Verdict
    <2> QED
      BY <1>1, <1>4, <2>1 DEF SetExpiry, Types
  <1>5. ASSUME NEW r \in Requests, RedisError(r) PROVE CountsBounded'
    <2>1. \A m : Pending(m)' \subseteq Pending(m)
      BY <1>5 DEF RedisError, Goto, Pending, KeyOf, Types
    <2> QED
      BY <1>1, <1>5, <2>1 DEF RedisError, Types
  <1>6. ASSUME NEW r \in Requests, Resend(r) PROVE CountsBounded'
    <2>1. \A m \in Minutes : m # KeyOf(r) => Pending(m)' \subseteq Pending(m)
      BY <1>6 DEF Resend, Goto, Pending, KeyOf, Types
    <2>2. count[KeyOf(r)] \in Nat /\ ~(count[KeyOf(r)] > Limit)
      BY <1>6, KeyFacts DEF Resend, Types
    <2> QED
      BY <1>1, <1>6, <2>1, <2>2 DEF Resend, Types
  <1>7. CASE Tick
    <2>1. \A m : Pending(m)' = Pending(m)
      BY <1>7 DEF Tick, Pending, KeyOf
    <2>2. \A m \in Minutes : count'[m] <= count[m]
      BY <1>7 DEF Tick, Types
    <2> QED
      BY <1>1, <1>7, <2>1, <2>2 DEF Tick
  <1>8. CASE UNCHANGED vars
    <2>1. \A m : Pending(m)' = Pending(m)
      BY <1>8 DEF vars, Pending, KeyOf
    <2> QED
      BY <1>1, <1>8, <2>1 DEF vars, Types
  <1> QED
    BY <1>2, <1>3, <1>4, <1>5, <1>6, <1>7, <1>8 DEF Next

\* The clock, the counters, their expiries and the replies stay within their bounds:
\* a count goes past the limit at most once for every request, however often Redis is
\* asked again (ratelimit.go, the pipeline and the verdict).
THEOREM RateLimiterTypeCorrect == Spec => []TypeOK
  <1>1. Types /\ CountsBounded => TypeOK
    <2> SUFFICES ASSUME Types, CountsBounded PROVE TypeOK
      OBVIOUS
    <2>1. Cardinality(Requests) \in Nat /\ Limit \in Nat
      BY RateAssumption, FS_CardinalityType
    <2>2. \A m \in Minutes : count[m] \in 0 .. Limit + Cardinality(Requests)
      BY <2>1, PendingFacts DEF Types, CountsBounded
    <2>3. \A r \in Requests : reply[r] \in 0 .. Limit + Cardinality(Requests)
      BY <2>1 DEF Types, CountsBounded
    <2> QED
      BY <2>2, <2>3 DEF Types, TypeOK
  <1> QED
    BY <1>1, InitTypes, NextTypes, NextBounded, PTL DEF Spec

-----------------------------------------------------------------------------
(* The limit of a minute.                                                  *)

\* A key outlives every request that may still count on it: the 70 s of EXPIRE, the
\* 60 s of the key, and a request that is counted within 10 s.  The timeouts of the
\* Redis client and its tries may add up to more, so that the code does not ensure it.
KeyOutlivesItsRequests == Minute + Delay <= Life

\* The earliest end of a minute's key.
Gone(m) == m * Minute + Life

Counted(r) == pc[r] \in {"expire", "admitted"}

\* Requests ask Redis soon after they looked at the clock; a key that has an end
\* ends late; a request's count is still there until then; no two requests of a
\* minute were given the same count.
LimitInv ==
    /\ Types
    /\ \A r \in Requests :
          /\ pc[r] # "idle" => arrived[r] <= now
          /\ pc[r] \in {"incr", "expire"} => now <= arrived[r] + Delay
          /\ Counted(r) => reply[r] >= 1 /\ (reply[r] <= count[KeyOf(r)] \/ Gone(KeyOf(r)) <= now)
          /\ pc[r] = "admitted" => reply[r] <= Limit
    /\ \A m \in Minutes : expiry[m] # 0 => Gone(m) <= expiry[m]
    /\ \A r, s \in Requests :
          r # s /\ Counted(r) /\ Counted(s) /\ KeyOf(r) = KeyOf(s) => reply[r] # reply[s]

LEMMA GoneType ==
    ASSUME NEW m \in Minutes
    PROVE  Gone(m) \in Int /\ m * Minute \in Int
  <1>1. m \in Int /\ Minute \in Int /\ Life \in Int
    BY RateAssumption DEF Minutes
  <1>2. m * Minute \in Int
    BY <1>1
  <1> QED
    BY <1>1, <1>2 DEF Gone

\* When a request counts, its key can not be gone; the end it gives it is late enough.
LEMMA CountsInTime ==
    ASSUME KeyOutlivesItsRequests, LimitInv, NEW r \in Requests, pc[r] \in {"incr", "expire"}
    PROVE  now < Gone(KeyOf(r)) /\ Gone(KeyOf(r)) <= now + Life
  <1>1. /\ KeyOf(r) \in Minutes
        /\ KeyOf(r) * Minute <= arrived[r]
        /\ arrived[r] < KeyOf(r) * Minute + Minute
    BY KeyFacts DEF LimitInv
  <1>2. arrived[r] <= now /\ now <= arrived[r] + Delay
    BY DEF LimitInv
  <1>3. /\ now \in Int /\ arrived[r] \in Int /\ KeyOf(r) * Minute \in Int
        /\ Minute \in Int /\ Life \in Int /\ Delay \in Int
    BY <1>1, GoneType, RateAssumption DEF LimitInv, Types
  <1> QED
    BY <1>1, <1>2, <1>3 DEF Gone, KeyOutlivesItsRequests

LEMMA InitLimit ==
    ASSUME Init
    PROVE  LimitInv
  BY InitTypes, RateAssumption DEF Init, LimitInv, Counted

LEMMA NextLimit ==
    ASSUME KeyOutlivesItsRequests, LimitInv, [Next]_vars
    PROVE  LimitInv'
  <1> USE RateAssumption
  <1>0. Types /\ Types'
    BY NextTypes DEF LimitInv
  <1>1. ASSUME NEW r \in Requests, Arrive(r) PROVE LimitInv'
    <2>1. /\ \A s \in Requests : s # r => KeyOf(s)' = KeyOf(s) /\ pc'[s] = pc[s] /\ arrived'[s] = arrived[s]
          /\ pc'[r] = "incr" /\ arrived'[r] = now /\ now \in Int
          /\ UNCHANGED <<now, count, expiry, reply>>
      BY <1>0, <1>1 DEF Arrive, Goto, KeyOf, Types
    <2>2. \A m \in Minutes : Gone(m)' = Gone(m)
      BY DEF Gone
    <2>3. now <= now + Delay
      BY <2>1
    <2>4. \A s \in Requests : Counted(s)' => s # r /\ Counted(s)
      BY <2>1 DEF Counted
    <2>5. \A s \in Requests :
             /\ pc'[s] # "idle" => arrived'[s] <= now'
             /\ pc'[s] \in {"incr", "expire"} => now' <= arrived'[s] + Delay
             /\ pc'[s] = "admitted" => reply'[s] <= Limit
      BY <2>1, <2>3 DEF LimitInv
    <2>6. \A s \in Requests : Counted(s)' =>
             reply'[s] >= 1 /\ (reply'[s] <= count'[KeyOf(s)'] \/ Gone(KeyOf(s))' <= now')
      BY <2>1, <2>4 DEF LimitInv, Gone
    <2>7. \A t, s \in Requests :
             t # s /\ Counted(t)' /\ Counted(s)' /\ KeyOf(t)' = KeyOf(s)' => reply'[t] # reply'[s]
      BY <2>1, <2>4 DEF LimitInv
    <2> QED
      BY <1>0, <2>1, <2>2, <2>5, <2>6, <2>7 DEF LimitInv
  <1>2. ASSUME NEW r \in Requests, Incr(r) PROVE LimitInv'
    <2>1. PICK k \in Minutes : k = KeyOf(r) /\ count[k] \in Nat
      BY <1>0, KeyFacts DEF Types
    <2>2. /\ count'[k] = count[k] + 1
          /\ \A m \in Minutes : m # k => count'[m] = count[m]
          /\ reply'[r] = count[k] + 1
          /\ \A s \in Requests : s # r => reply'[s] = reply[s] /\ pc'[s] = pc[s]
          /\ pc'[r] = "expire" /\ pc[r] = "incr"
          /\ UNCHANGED <<now, expiry, arrived>>
      BY <1>0, <1>2, <2>1 DEF Incr, Goto, Types
    <2>3. \A s \in Requests : KeyOf(s)' = KeyOf(s) /\ KeyOf(s) \in Minutes /\ reply[s] \in Nat
      BY <1>0, <2>2, KeyFacts DEF KeyOf, Types
    <2>4. now < Gone(k)
      BY <1>2, <2>1, CountsInTime DEF Incr
    <2>5. now \in Int /\ \A m \in Minutes : Gone(m) \in Int /\ Gone(m)' = Gone(m) /\ count[m] \in Nat
      BY <1>0, GoneType DEF Types, Gone
    <2>6. \A s \in Requests \ {r} : Counted(s)' <=> Counted(s)
      BY <2>2 DEF Counted
    <2>7. \A s \in Requests \ {r} : Counted(s) /\ KeyOf(s) = k => reply[s] <= count[k]
      BY <2>4, <2>5 DEF LimitInv
    <2>8. \A s \in Requests : Counted(s)' =>
             reply'[s] >= 1 /\ (reply'[s] <= count'[KeyOf(s)] \/ Gone(KeyOf(s)) <= now)
      <3>1. ASSUME NEW s \in Requests \ {r}, Counted(s)'
            PROVE  reply'[s] >= 1 /\ (reply'[s] <= count'[KeyOf(s)] \/ Gone(KeyOf(s)) <= now)
        <4>1. count'[KeyOf(s)] \in Int /\ count'[KeyOf(s)] >= count[KeyOf(s)]
          BY <2>2, <2>3, <2>5
        <4>2. reply[s] >= 1 /\ (reply[s] <= count[KeyOf(s)] \/ Gone(KeyOf(s)) <= now)
          BY <2>6, <3>1 DEF LimitInv
        <4> QED
          BY <2>2, <2>3, <2>5, <4>1, <4>2
      <3> QED
        BY <2>1, <2>2, <3>1
    <2>9. \A t, s \in Requests :
             t # s /\ Counted(t)' /\ Counted(s)' /\ KeyOf(t) = KeyOf(s) => reply'[t] # reply'[s]
      <3>1. \A s \in Requests \ {r} : Counted(s)' /\ KeyOf(s) = k => reply'[s] # reply'[r]
        BY <2>1, <2>2, <2>3, <2>6, <2>7
      <3>2. \A t, s \in Requests \ {r} :
               t # s /\ Counted(t)' /\ Counted(s)' /\ KeyOf(t) = KeyOf(s) => reply'[t] # reply'[s]
        BY <2>2, <2>6 DEF LimitInv
      <3> QED
        BY <2>1, <3>1, <3>2
    <2>10. \A s \in Requests :
              /\ pc'[s] # "idle" => arrived'[s] <= now'
              /\ pc'[s] \in {"incr", "expire"} => now' <= arrived'[s] + Delay
              /\ pc'[s] = "admitted" => reply'[s] <= Limit
      BY <2>2 DEF LimitInv
    <2> QED
      BY <1>0, <2>2, <2>3, <2>5, <2>8, <2>9, <2>10 DEF LimitInv
  <1>3. ASSUME NEW r \in Requests, SetExpiry(r) PROVE LimitInv'
    <2>1. PICK k \in Minutes : k = KeyOf(r)
      BY <1>0, KeyFacts DEF Types
    <2>2. /\ \A s \in Requests : s # r => pc'[s] = pc[s]
          /\ pc[r] = "expire" /\ pc'[r] = Verdict(reply[r])
          /\ UNCHANGED <<now, count, arrived, reply>>
      BY <1>0, <1>3 DEF SetExpiry, Goto, Types
    <2>3. \A s \in Requests : KeyOf(s)' = KeyOf(s)
      BY <2>2 DEF KeyOf
    <2>4. expiry'[k] \in {0, now + Life} /\ \A m \in Minutes : m # k => expiry'[m] = expiry[m]
      BY <1>0, <1>3, <2>1 DEF SetExpiry, Types
    <2>5. Gone(k) <= now + Life
      BY <2>1, <2>2, CountsInTime
    <2>6. \A m \in Minutes : Gone(m)' = Gone(m)
      BY DEF Gone
    <2>7. \A m \in Minutes : expiry'[m] # 0 => Gone(m)' <= expiry'[m]
      BY <2>4, <2>5, <2>6 DEF LimitInv
    <2>8. /\ Verdict(reply[r]) \in {"admitted", "limited"}
          /\ Verdict(reply[r]) = "admitted" => reply[r] <= Limit
      BY <1>0 DEF Verdict, Types
    <2>9. \A s \in Requests : Counted(s)' => Counted(s)
      BY <2>2 DEF Counted
    <2>10. \A s \in Requests :
              /\ pc'[s] # "idle" => arrived'[s] <= now'
              /\ pc'[s] \in {"incr", "expire"} => now' <= arrived'[s] + Delay
              /\ pc'[s] = "admitted" => reply'[s] <= Limit
      BY <2>2, <2>8 DEF LimitInv
    <2>11. \A s \in Requests : Counted(s)' =>
              reply'[s] >= 1 /\ (reply'[s] <= count'[KeyOf(s)'] \/ Gone(KeyOf(s))' <= now')
      BY <2>2, <2>3, <2>9 DEF LimitInv, Gone
    <2> QED
      BY <1>0, <2>2, <2>3, <2>7, <2>9, <2>10, <2>11 DEF LimitInv
  <1>4. ASSUME NEW r \in Requests, RedisError(r) \/ Resend(r) PROVE LimitInv'
    <2>1. /\ \A s \in Requests : s # r => pc'[s] = pc[s]
          /\ pc[r] \in {"incr", "expire"} /\ pc'[r] \in {"open", "incr"}
          /\ UNCHANGED <<now, count, expiry, arrived, reply>>
      BY <1>0, <1>4 DEF RedisError, Resend, Goto, Types
    <2>2. \A s \in Requests : KeyOf(s)' = KeyOf(s)
      BY <2>1 DEF KeyOf
    <2>3. \A s \in Requests : Counted(s)' => Counted(s)
      BY <2>1 DEF Counted
    <2>4. \A s \in Requests :
             /\ pc'[s] # "idle" => arrived'[s] <= now'
             /\ pc'[s] \in {"incr", "expire"} => now' <= arrived'[s] + Delay
             /\ pc'[s] = "admitted" => reply'[s] <= Limit
      BY <2>1 DEF LimitInv
    <2>5. \A s \in Requests : Counted(s)' =>
             reply'[s] >= 1 /\ (reply'[s] <= count'[KeyOf(s)'] \/ Gone(KeyOf(s))' <= now')
      BY <2>1, <2>2, <2>3 DEF LimitInv, Gone
    <2>6. \A m \in Minutes : Gone(m)' = Gone(m)
      BY DEF Gone
    <2> QED
      BY <1>0, <2>1, <2>2, <2>3, <2>4, <2>5, <2>6 DEF LimitInv
  <1>5. CASE Tick
    <2>1. /\ now' = now + 1 /\ now \in Int
          /\ UNCHANGED <<pc, arrived, reply>>
          /\ \A r \in Requests : InTime(r)
      BY <1>0, <1>5 DEF Tick, Types
    <2>2. \A s \in Requests : /\ KeyOf(s)' = KeyOf(s) /\ KeyOf(s) \in Minutes
                              /\ arrived[s] \in Int /\ reply[s] \in Int
                              /\ (Counted(s)' <=> Counted(s))
      BY <1>0, <2>1, KeyFacts DEF KeyOf, Counted, Types
    <2>3. \A m \in Minutes : /\ Gone(m) \in Int /\ Gone(m)' = Gone(m)
                             /\ count[m] \in Int /\ expiry[m] \in Int
      BY <1>0, GoneType DEF Gone, Types
    <2>4. \A m \in Minutes :
             \/ count'[m] = count[m] /\ expiry'[m] = expiry[m]
             \/ expiry'[m] = 0 /\ expiry[m] # 0 /\ expiry[m] <= now + 1
      BY <1>0, <1>5 DEF Tick, Types
    <2>5. \A m \in Minutes : count'[m] = count[m] \/ Gone(m) <= now + 1
      BY <2>1, <2>3, <2>4 DEF LimitInv
    <2>6. \A s \in Requests :
             /\ pc'[s] # "idle" => arrived'[s] <= now'
             /\ pc'[s] \in {"incr", "expire"} => now' <= arrived'[s] + Delay
             /\ pc'[s] = "admitted" => reply'[s] <= Limit
      BY <2>1, <2>2 DEF LimitInv, InTime
    <2>7. \A s \in Requests : Counted(s) =>
             reply'[s] >= 1 /\ (reply'[s] <= count'[KeyOf(s)] \/ Gone(KeyOf(s)) <= now')
      BY <2>1, <2>2, <2>3, <2>5 DEF LimitInv
    <2>8. \A m \in Minutes : expiry'[m] # 0 => Gone(m)' <= expiry'[m]
      BY <2>3, <2>4 DEF LimitInv
    <2> QED
      BY <1>0, <2>1, <2>2, <2>3, <2>6, <2>7, <2>8 DEF LimitInv
  <1>6. CASE UNCHANGED vars
    BY <1>0, <1>6 DEF vars, LimitInv, Counted, KeyOf, Gone
  <1> QED
    BY <1>1, <1>2, <1>3, <1>4, <1>5, <1>6 DEF Next

AdmittedIn(m) == {r \in Admitted : KeyOf(r) = m}

\* The requests admitted in a minute were given counts of their own, from 1 to the limit.
LEMMA AdmittedWithinLimit ==
    ASSUME LimitInv, NEW m
    PROVE  IsFiniteSet(AdmittedIn(m)) /\ Cardinality(AdmittedIn(m)) <= Limit
  <1> DEFINE f == [r \in AdmittedIn(m) |-> reply[r]]
  <1>1. IsFiniteSet(1 .. Limit) /\ Cardinality(1 .. Limit) = Limit
    BY RateAssumption, FS_Interval
  <1>2. f \in Injection(AdmittedIn(m), 1 .. Limit)
    <2>1. \A r \in AdmittedIn(m) : reply[r] \in 1 .. Limit
      BY RateAssumption DEF AdmittedIn, Admitted, LimitInv, Types, Counted
    <2>2. \A r, s \in AdmittedIn(m) : reply[r] = reply[s] => r = s
      BY DEF AdmittedIn, Admitted, LimitInv, Counted
    <2> QED
      BY <2>1, <2>2 DEF Injection, IsInjective
  <1> HIDE DEF f
  <1> QED
    BY <1>1, <1>2, FS_Injection

\* No minute of the clock admits more than the limit, however requests overlap, fail or
\* are counted twice, provided that a key lives for longer than the minute and the time
\* a request may take to Redis (ratelimit.go, EXPIRE of 70 s on a key per minute).
THEOREM NoMinuteAdmitsMore ==
    ASSUME KeyOutlivesItsRequests
    PROVE  Spec => []MinuteLimit
  <1>1. LimitInv => MinuteLimit
    BY AdmittedWithinLimit DEF MinuteLimit, AdmittedIn
  <1>2. LimitInv /\ [Next]_vars => LimitInv'
    BY NextLimit
  <1> QED
    BY <1>1, <1>2, InitLimit, PTL DEF Spec

\* What the limit is worth at the edge of two minutes: however the requests come, 60
\* seconds in a row admit no more than twice the limit.
WindowLimit ==
    \A t \in 0 .. Horizon :
        Cardinality({r \in Admitted : t <= arrived[r] /\ arrived[r] < t + Minute}) <= 2 * Limit

\* A window of a minute touches two minutes of the clock at most, so that what it admits
\* is bounded too, though not by the limit (ratelimit.go, time.Now().Unix()/60).
THEOREM NoWindowAdmitsTwiceMore ==
    ASSUME KeyOutlivesItsRequests
    PROVE  Spec => []WindowLimit
  <1>1. LimitInv => WindowLimit
    <2> SUFFICES ASSUME LimitInv, NEW t \in 0 .. Horizon
                 PROVE  Cardinality({r \in Admitted : t <= arrived[r] /\ arrived[r] < t + Minute})
                            <= 2 * Limit
      BY DEF WindowLimit
    <2> DEFINE S == {r \in Admitted : t <= arrived[r] /\ arrived[r] < t + Minute}
               k == t \div Minute
    <2>1. t \in Nat /\ Minute \in Nat \ {0} /\ Limit \in Nat
      BY RateAssumption
    <2>2. k \in Nat /\ k * Minute <= t /\ t < k * Minute + Minute
      BY <2>1, DivFacts
    <2>3. ASSUME NEW r \in S PROVE KeyOf(r) \in {k, k + 1}
      <3>1. r \in Requests /\ arrived[r] \in Nat /\ t <= arrived[r] /\ arrived[r] < t + Minute
        BY DEF Admitted, LimitInv, Types
      <3>2. KeyOf(r) \in Int /\ KeyOf(r) * Minute <= arrived[r] /\ arrived[r] < KeyOf(r) * Minute + Minute
        BY <3>1, KeyFacts DEF LimitInv, Minutes
      <3>3. k <= KeyOf(r)
        BY <2>1, <3>1, DivIsMonotone DEF KeyOf
      <3>4. ~(k + 2 <= KeyOf(r))
        <4>1. SUFFICES ASSUME k + 2 <= KeyOf(r) PROVE FALSE
          OBVIOUS
        <4>2. (k + 2) * Minute <= KeyOf(r) * Minute
          BY <2>1, <2>2, <3>2, <4>1, TimesIsMonotone
        <4>3. (k + 2) * Minute = k * Minute + Minute + Minute /\ k * Minute \in Int
          BY <2>1, <2>2
        <4> QED
          BY <2>1, <2>2, <3>1, <3>2, <4>2, <4>3
      <3> QED
        BY <2>2, <3>2, <3>3, <3>4
    <2>4. S \subseteq AdmittedIn(k) \cup AdmittedIn(k + 1)
      BY <2>3 DEF AdmittedIn
    <2> DEFINE A == AdmittedIn(k)
               B == AdmittedIn(k + 1)
    <2>5. /\ IsFiniteSet(A) /\ Cardinality(A) <= Limit
          /\ IsFiniteSet(B) /\ Cardinality(B) <= Limit
      BY AdmittedWithinLimit
    <2> HIDE DEF A, B
    <2>6. /\ IsFiniteSet(A \cup B)
          /\ Cardinality(A \cup B) = Cardinality(A) + Cardinality(B) - Cardinality(A \cap B)
      BY <2>5, FS_Union
    <2>7. /\ Cardinality(A) \in Nat /\ Cardinality(B) \in Nat /\ Cardinality(A \cap B) \in Nat
      BY <2>5, FS_Subset, FS_CardinalityType
    <2>8. Cardinality(S) <= Cardinality(A \cup B) /\ Cardinality(S) \in Nat
      BY <2>4, <2>6, FS_Subset, FS_CardinalityType DEF A, B
    <2> QED
      BY <2>1, <2>5, <2>6, <2>7, <2>8
  <1>2. LimitInv /\ [Next]_vars => LimitInv'
    BY NextLimit
  <1> QED
    BY <1>1, <1>2, InitLimit, PTL DEF Spec

-----------------------------------------------------------------------------
(* Refusals.                                                               *)

CountedIn(m) == {r \in Requests : KeyOf(r) = m /\ reply[r] > 0}
OnceEach(m) == resent \cap CountedIn(m) = {}

\* Where nobody was counted twice, a minute's counter, and every reply it gave, is no
\* greater than the number of the requests counted in it.
SpentInv ==
    /\ Types
    /\ \A r \in Requests :
          /\ pc[r] = "idle" => reply[r] = 0
          /\ pc[r] = "incr" /\ r \notin resent => reply[r] = 0
          /\ pc[r] = "limited" => reply[r] > Limit
    /\ \A m \in Minutes : OnceEach(m) =>
          /\ count[m] <= Cardinality(CountedIn(m))
          /\ \A r \in CountedIn(m) : reply[r] <= Cardinality(CountedIn(m))

LEMMA CountedInFacts ==
    ASSUME NEW m
    PROVE  IsFiniteSet(CountedIn(m)) /\ Cardinality(CountedIn(m)) \in Nat
  BY RateAssumption, FS_Subset, FS_CardinalityType DEF CountedIn

LEMMA InitSpent ==
    ASSUME Init
    PROVE  SpentInv
  BY InitTypes, CountedInFacts, RateAssumption DEF Init, SpentInv, CountedIn

\* A step that counts nobody and adds to no counter changes nothing of it.
LEMMA SpentFrame ==
    ASSUME SpentInv, Types',
           \A m \in Minutes : CountedIn(m)' = CountedIn(m) /\ count'[m] <= count[m],
           resent \subseteq resent', UNCHANGED reply,
           \A r \in Requests :
              /\ pc'[r] = "idle" => reply[r] = 0
              /\ pc'[r] = "incr" /\ r \notin resent' => reply[r] = 0
              /\ pc'[r] = "limited" => reply[r] > Limit
    PROVE  SpentInv'
  <1>1. ASSUME NEW m \in Minutes, OnceEach(m)'
        PROVE  /\ count'[m] <= Cardinality(CountedIn(m)')
               /\ \A r \in CountedIn(m)' : reply'[r] <= Cardinality(CountedIn(m)')
    <2>1. OnceEach(m)
      BY <1>1 DEF OnceEach
    <2>2. count[m] \in Nat /\ count'[m] \in Nat /\ Cardinality(CountedIn(m)) \in Nat
      BY CountedInFacts DEF SpentInv, Types
    <2> QED
      BY <2>1, <2>2 DEF SpentInv
  <1> QED
    BY <1>1 DEF SpentInv

LEMMA NextSpent ==
    ASSUME SpentInv, [Next]_vars
    PROVE  SpentInv'
  <1> USE RateAssumption
  <1>0. Types /\ Types'
    BY NextTypes DEF SpentInv
  <1>1. ASSUME NEW r \in Requests, Arrive(r) PROVE SpentInv'
    <2>1. /\ \A s \in Requests : s # r => pc'[s] = pc[s] /\ arrived'[s] = arrived[s]
          /\ pc[r] = "idle" /\ pc'[r] = "incr" /\ reply[r] = 0
          /\ UNCHANGED <<count, reply, resent>>
      BY <1>0, <1>1 DEF Arrive, Goto, Types, SpentInv
    <2>2. \A m \in Minutes : CountedIn(m)' = CountedIn(m)
      BY <2>1 DEF CountedIn, KeyOf
    <2>3. \A m \in Minutes : count'[m] <= count[m]
      BY <1>0, <2>1 DEF Types
    <2> QED
      BY <1>0, <2>1, <2>2, <2>3, SpentFrame DEF SpentInv
  <1>2. ASSUME NEW r \in Requests, Incr(r) PROVE SpentInv'
    <2>1. PICK k \in Minutes : k = KeyOf(r) /\ count[k] \in Nat
      BY <1>0, KeyFacts DEF Types
    <2>2. /\ count'[k] = count[k] + 1
          /\ \A m \in Minutes : m # k => count'[m] = count[m]
          /\ reply'[r] = count[k] + 1
          /\ \A s \in Requests : s # r => reply'[s] = reply[s] /\ pc'[s] = pc[s]
          /\ pc'[r] = "expire" /\ pc[r] = "incr"
          /\ UNCHANGED <<arrived, resent>>
      BY <1>0, <1>2, <2>1 DEF Incr, Goto, Types
    <2>3. \A s \in Requests : KeyOf(s)' = KeyOf(s)
      BY <2>2 DEF KeyOf
    <2>4. CountedIn(k)' = CountedIn(k) \cup {r}
      BY <2>1, <2>2, <2>3 DEF CountedIn
    <2>5. \A m \in Minutes : m # k => CountedIn(m)' = CountedIn(m)
      BY <2>1, <2>2, <2>3 DEF CountedIn
    <2>6. ASSUME OnceEach(k)'
          PROVE  /\ count'[k] <= Cardinality(CountedIn(k)')
                 /\ \A s \in CountedIn(k)' : reply'[s] <= Cardinality(CountedIn(k)')
      <3>1. r \notin resent /\ reply[r] = 0
        BY <2>2, <2>4, <2>6 DEF OnceEach, SpentInv
      <3>2. r \notin CountedIn(k) /\ OnceEach(k)
        BY <2>2, <2>4, <2>6, <3>1 DEF OnceEach, CountedIn
      <3>3. Cardinality(CountedIn(k)') = Cardinality(CountedIn(k)) + 1
        BY <2>4, <3>2, CountedInFacts, FS_AddElement
      <3>4. Cardinality(CountedIn(k)) \in Nat
        BY CountedInFacts
      <3>5. count'[k] <= Cardinality(CountedIn(k)')
        BY <2>1, <2>2, <3>2, <3>3, <3>4 DEF SpentInv
      <3>6. ASSUME NEW s \in CountedIn(k)', s # r PROVE reply'[s] <= Cardinality(CountedIn(k)')
        <4>1. s \in CountedIn(k) /\ s \in Requests
          BY <2>4, <3>6 DEF CountedIn
        <4>2. reply[s] <= Cardinality(CountedIn(k)) /\ reply[s] \in Nat /\ reply'[s] = reply[s]
          BY <1>0, <2>2, <3>2, <3>6, <4>1 DEF SpentInv, Types
        <4> QED
          BY <3>3, <3>4, <4>2
      <3> QED
        BY <2>2, <3>5, <3>6
    <2>7. ASSUME NEW m \in Minutes, m # k, OnceEach(m)'
          PROVE  /\ count'[m] <= Cardinality(CountedIn(m)')
                 /\ \A s \in CountedIn(m)' : reply'[s] <= Cardinality(CountedIn(m)')
      <3>1. OnceEach(m) /\ r \notin CountedIn(m)
        BY <2>1, <2>2, <2>5, <2>7 DEF OnceEach, CountedIn
      <3>2. \A s \in CountedIn(m) : reply'[s] = reply[s]
        BY <2>2, <3>1 DEF CountedIn
      <3> QED
        BY <2>2, <2>5, <2>7, <3>1, <3>2 DEF SpentInv
    <2>8. \A s \in Requests :
             /\ pc'[s] = "idle" => reply'[s] = 0
             /\ pc'[s] = "incr" /\ s \notin resent' => reply'[s] = 0
             /\ pc'[s] = "limited" => reply'[s] > Limit
      BY <2>2 DEF SpentInv
    <2>9. \A m \in Minutes : OnceEach(m)' =>
             /\ count'[m] <= Cardinality(CountedIn(m)')
             /\ \A s \in CountedIn(m)' : reply'[s] <= Cardinality(CountedIn(m)')
      <3>1. ASSUME NEW m \in Minutes, m = k, OnceEach(m)'
            PROVE  /\ count'[m] <= Cardinality(CountedIn(m)')
                   /\ \A s \in CountedIn(m)' : reply'[s] <= Cardinality(CountedIn(m)')
        BY <2>6, <3>1
      <3> QED
        BY <2>7, <3>1
    <2> QED
      BY <1>0, <2>8, <2>9 DEF SpentInv
  <1>3. ASSUME NEW r \in Requests, SetExpiry(r) PROVE SpentInv'
    <2>1. /\ \A s \in Requests : s # r => pc'[s] = pc[s]
          /\ pc'[r] = Verdict(reply[r]) /\ reply[r] \in Nat
          /\ UNCHANGED <<count, arrived, reply, resent>>
      BY <1>0, <1>3 DEF SetExpiry, Goto, Types
    <2>2. \A m \in Minutes : CountedIn(m)' = CountedIn(m) /\ count'[m] <= count[m]
      BY <1>0, <2>1 DEF CountedIn, KeyOf, Types
    <2>3. /\ Verdict(reply[r]) \notin {"idle", "incr"}
          /\ Verdict(reply[r]) = "limited" => reply[r] > Limit
      BY DEF Verdict
    <2> QED
      BY <1>0, <2>1, <2>2, <2>3, SpentFrame DEF SpentInv
  <1>4. ASSUME NEW r \in Requests, RedisError(r) PROVE SpentInv'
    <2>1. /\ \A s \in Requests : s # r => pc'[s] = pc[s]
          /\ pc'[r] = "open"
          /\ UNCHANGED <<count, arrived, reply, resent>>
      BY <1>0, <1>4 DEF RedisError, Goto, Types
    <2>2. \A m \in Minutes : CountedIn(m)' = CountedIn(m) /\ count'[m] <= count[m]
      BY <1>0, <2>1 DEF CountedIn, KeyOf, Types
    <2> QED
      BY <1>0, <2>1, <2>2, SpentFrame DEF SpentInv
  <1>5. ASSUME NEW r \in Requests, Resend(r) PROVE SpentInv'
    <2>1. /\ \A s \in Requests : s # r => pc'[s] = pc[s]
          /\ pc'[r] = "incr" /\ resent' = resent \cup {r}
          /\ UNCHANGED <<count, arrived, reply>>
      BY <1>0, <1>5 DEF Resend, Goto, Types
    <2>2. \A m \in Minutes : CountedIn(m)' = CountedIn(m) /\ count'[m] <= count[m]
      BY <1>0, <2>1 DEF CountedIn, KeyOf, Types
    <2> QED
      BY <1>0, <2>1, <2>2, SpentFrame DEF SpentInv
  <1>6. CASE Tick
    <2>1. UNCHANGED <<pc, arrived, reply, resent>>
      BY <1>6 DEF Tick
    <2>2. \A m \in Minutes : CountedIn(m)' = CountedIn(m)
      BY <2>1 DEF CountedIn, KeyOf
    <2>3. \A m \in Minutes : count'[m] <= count[m]
      BY <1>0, <1>6 DEF Tick, Types
    <2> QED
      BY <1>0, <2>1, <2>2, <2>3, SpentFrame DEF SpentInv
  <1>7. CASE UNCHANGED vars
    <2>1. \A m \in Minutes : CountedIn(m)' = CountedIn(m) /\ count'[m] <= count[m]
      BY <1>0, <1>7 DEF CountedIn, KeyOf, Types, vars
    <2> QED
      BY <1>0, <1>7, <2>1, SpentFrame DEF SpentInv, vars
  <1> QED
    BY <1>1, <1>2, <1>3, <1>4, <1>5, <1>6, <1>7 DEF Next

\* Nobody is refused before the limit is used up by others, where no pipeline was sent
\* twice (ratelimit.go, count > requestsPerMinute on what INCR answered).
THEOREM RefusalsAreEarned == Spec => []RefusedWhenSpent
  <1>1. SpentInv => RefusedWhenSpent
    <2> SUFFICES ASSUME SpentInv, NEW r \in Requests, pc[r] = "limited",
                        resent \cap ({s \in Requests \ {r} : KeyOf(s) = KeyOf(r) /\ reply[s] > 0}
                                     \cup {r}) = {}
                 PROVE  Cardinality({s \in Requests \ {r} : KeyOf(s) = KeyOf(r) /\ reply[s] > 0})
                            >= Limit
      BY DEF RefusedWhenSpent
    <2> DEFINE others == {s \in Requests \ {r} : KeyOf(s) = KeyOf(r) /\ reply[s] > 0}
    <2>1. PICK k \in Minutes : k = KeyOf(r)
      BY KeyFacts DEF SpentInv
    <2>2. reply[r] > Limit /\ reply[r] \in Nat /\ Limit \in Nat
      BY RateAssumption DEF SpentInv, Types
    <2>3. r \in CountedIn(k) /\ others = CountedIn(k) \ {r}
      BY <2>1, <2>2 DEF CountedIn
    <2>4. OnceEach(k)
      BY <2>1 DEF OnceEach, CountedIn
    <2>5. reply[r] <= Cardinality(CountedIn(k))
      BY <2>3, <2>4 DEF SpentInv
    <2>6. Cardinality(others) = Cardinality(CountedIn(k)) - 1 /\ Cardinality(CountedIn(k)) \in Nat
      BY <2>3, CountedInFacts, FS_RemoveElement
    <2> QED
      BY <2>2, <2>5, <2>6
  <1> QED
    BY <1>1, InitSpent, NextSpent, PTL DEF Spec
=============================================================================
