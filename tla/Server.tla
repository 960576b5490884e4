------------------------------- MODULE Server -------------------------------
(***************************************************************************)
(* The requests of the HTTP server from the first byte to the last:        *)
(* Recovery, which catches what panics, the Metrics middleware, which      *)
(* counts a request once its handler has returned, and GET /metrics, which *)
(* prints the counts (transport/http/middleware/metrics.go), above the     *)
(* handlers, the callbacks and the shutdown of Callbacks.                  *)
(*                                                                         *)
(* metricsMu is a sync.RWMutex: a writer that waits for readers keeps new  *)
(* readers out, and when it unlocks, those it kept out go first.           *)
(***************************************************************************)
EXTENDS Callbacks

CONSTANTS
    Scrapes,   \* the GET /metrics requests
    Keys,      \* of the two maps: a method, a path and a status
    KeyOf      \* what a request is counted under

Requests == Handlers \cup Scrapes

ASSUME ServerAssumption ==
    /\ Scrapes \cap Handlers = {}
    /\ IsFiniteSet(Scrapes)
    /\ KeyOf \in [Requests -> Keys]

VARIABLES
    stage,     \* where each request stands
    counters,  \* requestCounters
    latency,   \* requestLatency: the requests whose time it includes
    loaded,    \* the counter a request has read to add one to it (a local)
    shown      \* what each scrape has printed so far: [counters, latency]

metricsVars == <<counters, latency, loaded, shown>>
serverVars == <<callbackVars, stage, metricsVars>>

Writing == {"counting", "storing", "adding"}
Ended == {"returned", "panicked", "dead"}
Stages == Writing \cup Ended \cup {"idle", "handling", "blocked", "counters", "latency", "locking"}

Zero == [k \in Keys |-> 0]
None == [k \in Keys |-> {}]

ServerTypeOK ==
    /\ CallbacksTypeOK
    /\ stage \in [Requests -> Stages]
    /\ counters \in [Keys -> Nat]
    /\ latency \in [Keys -> SUBSET Requests]
    /\ loaded \in [Requests -> Nat]
    /\ shown \in [Scrapes -> [counters : [Keys -> Nat], latency : [Keys -> SUBSET Requests]]]

ServerInit ==
    /\ CallbacksInit
    /\ stage = [r \in Requests |-> "idle"]
    /\ counters = Zero
    /\ latency = None
    /\ loaded = [r \in Requests |-> 0]
    /\ shown = [s \in Scrapes |-> [counters |-> Zero, latency |-> None]]

Moves(r, from, to) == stage[r] = from /\ stage' = [stage EXCEPT ![r] = to]

-----------------------------------------------------------------------------
(* Requests and their handlers.                                            *)

Accept(h) ==
    /\ Start(h)
    /\ Moves(h, "idle", "handling")
    /\ UNCHANGED metricsVars

AcceptScrape(s) ==
    /\ phase = "serving"
    /\ Moves(s, "idle", "handling")
    /\ UNCHANGED <<callbackVars, metricsVars>>

\* A panic unwinds past Metrics to Recovery: what the closed channel causes, and
\* whatever else a handler may panic of (a nil Redis client, after a start without).
HandlerReturns(h) ==
    /\ \/ Quit(h) /\ \E to \in {"locking", "panicked"} : Moves(h, "handling", to)
       \/ Offer(h) /\ Moves(h, "handling", IF open THEN "locking" ELSE "panicked")
    /\ UNCHANGED metricsVars

-----------------------------------------------------------------------------
(* metricsMu.                                                              *)

Locked == \E r \in Requests : stage[r] \in Writing

\* (mutant) The scrape has the lock until it has been counted itself.
ReadLockedThroughout ==
    \E s \in Scrapes : stage[s] \in {"counters", "latency", "locking"} \cup Writing

ReadLocked == \E s \in Scrapes : stage[s] \in {"counters", "latency"}

\* (mutant) Metrics takes the read lock, as PrometheusHandler does.
LockShared(r) ==
    /\ Moves(r, "locking", "counting")
    /\ UNCHANGED <<callbackVars, metricsVars>>

\* Lock, up to where it waits for the readers there are.
Lock(r) ==
    /\ ~Locked
    /\ Moves(r, "locking", "counting")
    /\ UNCHANGED <<callbackVars, metricsVars>>

\* (mutant) The maps are printed without the lock.
RLockNothing(s) ==
    /\ Moves(s, "handling", "counters")
    /\ UNCHANGED <<callbackVars, metricsVars>>

RLock(s) ==
    /\ Moves(s, "handling", IF Locked THEN "blocked" ELSE "counters")
    /\ UNCHANGED <<callbackVars, metricsVars>>

-----------------------------------------------------------------------------
(* Metrics, after c.Next(): requestCounters[key]++, then the latency.      *)

LoadCounter(r) ==
    /\ ~ReadLocked
    /\ Moves(r, "counting", "storing")
    /\ loaded' = [loaded EXCEPT ![r] = counters[KeyOf[r]]]
    /\ UNCHANGED <<callbackVars, counters, latency, shown>>

StoreCounter(r) ==
    /\ Moves(r, "storing", "adding")
    /\ counters' = [counters EXCEPT ![KeyOf[r]] = loaded[r] + 1]
    /\ loaded' = [loaded EXCEPT ![r] = 0]
    /\ UNCHANGED <<callbackVars, latency, shown>>

\* The latency, and Unlock, which lets in the readers that wait.
AddLatency(r) ==
    /\ stage[r] = "adding"
    /\ stage' = [q \in Requests |-> IF q = r THEN "returned"
                                    ELSE IF stage[q] = "blocked" THEN "counters"
                                    ELSE stage[q]]
    /\ latency' = [latency EXCEPT ![KeyOf[r]] = @ \cup {r}]
    /\ UNCHANGED <<callbackVars, counters, loaded, shown>>

-----------------------------------------------------------------------------
(* PrometheusHandler: one map after the other, then the deferred RUnlock.  *)

PrintCounters(s) ==
    /\ Moves(s, "counters", "latency")
    /\ shown' = [shown EXCEPT ![s].counters = counters]
    /\ UNCHANGED <<callbackVars, counters, latency, loaded>>

PrintLatency(s) ==
    /\ Moves(s, "latency", "locking")
    /\ shown' = [shown EXCEPT ![s].latency = latency]
    /\ UNCHANGED <<callbackVars, counters, latency, loaded>>

-----------------------------------------------------------------------------
(* The workers, and the end of the process.                                *)

Posting == \E w \in Workers : WorkerStep(w) /\ UNCHANGED <<stage, metricsVars>>

Stopping == Shutdown /\ UNCHANGED <<stage, metricsVars>>

\* Shutdown waits for requests, not for handlers only.
CloseServer ==
    /\ Close
    /\ (\A r \in Requests : stage[r] \in {"idle"} \cup Ended) \/ DrainTimesOut
    /\ UNCHANGED <<stage, metricsVars>>

ExitServer ==
    /\ Exit
    /\ stage' = [r \in Requests |-> IF stage[r] \in {"idle"} \cup Ended THEN stage[r] ELSE "dead"]
    /\ UNCHANGED metricsVars

-----------------------------------------------------------------------------
ScrapeStep(s) == RLock(s) \/ PrintCounters(s) \/ PrintLatency(s)
CountStep(r) == Lock(r) \/ LoadCounter(r) \/ StoreCounter(r) \/ AddLatency(r)

ServerNext ==
    \/ \E h \in Handlers : Accept(h) \/ HandlerReturns(h)
    \/ \E s \in Scrapes : AcceptScrape(s) \/ ScrapeStep(s)
    \/ \E r \in Requests : CountStep(r)
    \/ Posting
    \/ Stopping
    \/ CloseServer
    \/ ExitServer

ServerSpec == ServerInit /\ [][ServerNext]_serverVars

\* As in Callbacks; and a scrape ends, for the server gives up on a client that
\* does not read it (WriteTimeout).
ServerFairSpec ==
    /\ ServerSpec
    /\ \A h \in Handlers : WF_serverVars(HandlerReturns(h) \/ CountStep(h))
    /\ \A s \in Scrapes : WF_serverVars(ScrapeStep(s) \/ CountStep(s))
    /\ WF_serverVars(Posting)
    /\ WF_serverVars(CloseServer \/ ExitServer)

-----------------------------------------------------------------------------
(* Properties.                                                             *)

\* No count is lost or made twice: whatever overlaps, the counters are the
\* requests that have returned, those that panicked left out (a request that ends
\* in Recovery's 500 is counted nowhere).
CountedOnce ==
    ~Locked /\ phase # "exited" => \A k \in Keys :
        counters[k] = Cardinality({r \in Requests : stage[r] = "returned" /\ KeyOf[r] = k})

\* A scrape prints both maps as of one moment: it never shows a request's count
\* without its latency, or the other way round, although requests end meanwhile.
ScrapeIsOfOneMoment ==
    \A s \in Scrapes : stage[s] \in Writing \cup {"locking", "returned"} =>
        \A k \in Keys : shown[s].counters[k] = Cardinality(shown[s].latency[k])

\* Every request comes to an end, although scrapes and counts keep one another
\* out, and the scrape itself is counted under the lock it took.
EveryRequestEnds == \A r \in Requests : stage[r] # "idle" ~> stage[r] \in Ended
=============================================================================
