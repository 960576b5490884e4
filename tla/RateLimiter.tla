---------------------------- MODULE RateLimiter -----------------------------
(***************************************************************************)
(* internal/transport/http/middleware/ratelimit.go: the requests of one    *)
(* identifier (an account, or an address), counted in Redis under a key    *)
(* per minute of the clock.  Time goes by in ticks.  INCR and EXPIRE       *)
(* travel in one pipeline but are two commands: those of other requests    *)
(* come in between.                                                        *)
(***************************************************************************)
EXTENDS Naturals, FiniteSets

CONSTANTS
    Requests,   \* the requests of one identifier
    Limit,      \* requestsPerMinute
    Minute,     \* ticks to a minute (60 s)
    Life,       \* ticks a key lives after it was last counted on (70 s)
    Delay,      \* ticks between a request's look at the clock and its INCR, at most
    Horizon,    \* bound: the clock stops here
    Faults      \* "redisError": a pipeline may fail, with or without effect;
                \* "resend": the Redis client sends it again on its own

ASSUME RateAssumption ==
    /\ Limit \in Nat \ {0}
    /\ Minute \in Nat \ {0}
    /\ Life \in Nat \ {0}
    /\ Delay \in Nat
    /\ Horizon \in Nat
    /\ Faults \subseteq {"redisError", "resend"}
    /\ IsFiniteSet(Requests)

VARIABLES
    now,       \* the clock
    count,     \* the value of each minute's key; 0 is a key that is not there
    expiry,    \* when each key goes; 0 is never
    pc,        \* where each request stands
    arrived,   \* when it looked at the clock
    reply,     \* what INCR answered it
    resent     \* the requests whose pipeline was sent again

vars == <<now, count, expiry, pc, arrived, reply, resent>>

Minutes == 0 .. Horizon \div Minute
Decided == {"admitted", "open", "limited"}

TypeOK ==
    /\ now \in 0 .. Horizon
    /\ count \in [Minutes -> 0 .. Limit + Cardinality(Requests)]
    /\ expiry \in [Minutes -> 0 .. Horizon + Life]
    /\ pc \in [Requests -> Decided \cup {"idle", "incr", "expire"}]
    /\ arrived \in [Requests -> 0 .. Horizon]
    /\ reply \in [Requests -> 0 .. Limit + Cardinality(Requests)]
    /\ resent \subseteq Requests

Init ==
    /\ now = 0
    /\ count = [m \in Minutes |-> 0]
    /\ expiry = [m \in Minutes |-> 0]
    /\ pc = [r \in Requests |-> "idle"]
    /\ arrived = [r \in Requests |-> 0]
    /\ reply = [r \in Requests |-> 0]
    /\ resent = {}

Goto(r, where) == pc' = [pc EXCEPT ![r] = where]

\* time.Now().Unix()/60, the last part of the key.
KeyOf(r) == arrived[r] \div Minute

-----------------------------------------------------------------------------
Arrive(r) ==
    /\ pc[r] = "idle"
    /\ arrived' = [arrived EXCEPT ![r] = now]
    /\ Goto(r, "incr")
    /\ UNCHANGED <<now, count, expiry, reply, resent>>

Incr(r) ==
    /\ pc[r] = "incr"
    /\ count' = [count EXCEPT ![KeyOf(r)] = @ + 1]
    /\ reply' = [reply EXCEPT ![r] = count[KeyOf(r)] + 1]
    /\ Goto(r, "expire")
    /\ UNCHANGED <<now, expiry, arrived, resent>>

\* (mutant) count >= requestsPerMinute.
VerdictEarly(n) == IF n >= Limit THEN "limited" ELSE "admitted"

Verdict(n) == IF n > Limit THEN "limited" ELSE "admitted"

\* (mutant) The key lives for what 70 s are longer than a minute.
SetExpiryShort(r) ==
    /\ pc[r] = "expire"
    /\ expiry' = [expiry EXCEPT ![KeyOf(r)] =
                     IF count[KeyOf(r)] = 0 THEN 0 ELSE now + (Life - Minute)]
    /\ Goto(r, Verdict(reply[r]))
    /\ UNCHANGED <<now, count, arrived, reply, resent>>

\* EXPIRE (of a key that is gone, it does nothing) and the end of the pipeline.
SetExpiry(r) ==
    /\ pc[r] = "expire"
    /\ expiry' = [expiry EXCEPT ![KeyOf(r)] = IF count[KeyOf(r)] = 0 THEN 0 ELSE now + Life]
    /\ Goto(r, Verdict(reply[r]))
    /\ UNCHANGED <<now, count, arrived, reply, resent>>

\* The pipeline fails, whichever of its commands were carried out: fail open.
RedisError(r) ==
    /\ "redisError" \in Faults
    /\ pc[r] \in {"incr", "expire"}
    /\ Goto(r, "open")
    /\ UNCHANGED <<now, count, expiry, arrived, reply, resent>>

\* The reply to INCR is lost on the way and the client, which retries three times
\* by default, sends the pipeline again: the request is counted once more.  (A
\* count past the limit is not driven further up: the verdict is the same.)
Resend(r) ==
    /\ "resend" \in Faults
    /\ pc[r] = "expire"
    /\ count[KeyOf(r)] <= Limit
    /\ Goto(r, "incr")
    /\ resent' = resent \cup {r}
    /\ UNCHANGED <<now, count, expiry, arrived, reply>>

-----------------------------------------------------------------------------
InTime(r) == pc[r] \in {"incr", "expire"} => now < arrived[r] + Delay

\* The clock goes on, unless a request has waited as long as it may; keys whose
\* time has come are gone.
Tick ==
    /\ now < Horizon
    /\ \A r \in Requests : InTime(r)
    /\ now' = now + 1
    /\ LET gone == {m \in Minutes : expiry[m] # 0 /\ expiry[m] <= now + 1}
       IN  /\ count' = [m \in Minutes |-> IF m \in gone THEN 0 ELSE count[m]]
           /\ expiry' = [m \in Minutes |-> IF m \in gone THEN 0 ELSE expiry[m]]
    /\ UNCHANGED <<pc, arrived, reply, resent>>

Next ==
    \/ \E r \in Requests : Arrive(r) \/ Incr(r) \/ SetExpiry(r) \/ RedisError(r) \/ Resend(r)
    \/ Tick

Spec == Init /\ [][Next]_vars

-----------------------------------------------------------------------------
(* Properties.                                                             *)

Admitted == {r \in Requests : pc[r] = "admitted"}

\* No minute of the clock admits more than the limit, apart from the requests
\* that Redis did not answer for: the counter outlives every request that may
\* still count on it (the 70 s of EXPIRE against the minute of the key).
MinuteLimit ==
    \A m \in Minutes : Cardinality({r \in Admitted : KeyOf(r) = m}) <= Limit

\* Nobody is refused before the limit is used up: as many others were counted in
\* the minute of a request that is refused, unless one of them was counted twice.
RefusedWhenSpent ==
    \A r \in Requests :
        LET others == {s \in Requests \ {r} : KeyOf(s) = KeyOf(r) /\ reply[s] > 0}
        IN  pc[r] = "limited" /\ resent \cap (others \cup {r}) = {}
                => Cardinality(others) >= Limit
=============================================================================
