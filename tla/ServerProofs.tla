---------------------------- MODULE ServerProofs ----------------------------
(***************************************************************************)
(* Proofs about Server, for any number of requests, scrapes and keys: what *)
(* was proved of Callbacks holds of the server, and its metrics are right. *)
(***************************************************************************)
EXTENDS Server, CallbacksProofs, FiniteSetTheorems

LEMMA StepOfCallbacks == [ServerNext]_serverVars => [CallbacksNext]_callbackVars
  <1> SUFFICES ASSUME [ServerNext]_serverVars PROVE [CallbacksNext]_callbackVars
    OBVIOUS
  <1>1. ASSUME NEW h \in Handlers, Accept(h) \/ HandlerReturns(h)
        PROVE  CallbacksNext
    BY <1>1 DEF Accept, HandlerReturns, CallbacksNext
  <1>2. ASSUME NEW s \in Scrapes, AcceptScrape(s) \/ ScrapeStep(s)
        PROVE  UNCHANGED callbackVars
    BY <1>2 DEF AcceptScrape, ScrapeStep, RLock, PrintCounters, PrintLatency
  <1>3. ASSUME NEW r \in Requests, CountStep(r) PROVE UNCHANGED callbackVars
    BY <1>3 DEF CountStep, Lock, LoadCounter, StoreCounter, AddLatency
  <1>4. ASSUME Posting \/ Stopping \/ CloseServer \/ ExitServer PROVE CallbacksNext
    BY <1>4 DEF Posting, Stopping, CloseServer, ExitServer, CallbacksNext, StopStep
  <1>5. ASSUME UNCHANGED serverVars PROVE UNCHANGED callbackVars
    BY <1>5 DEF serverVars
  <1> QED BY <1>1, <1>2, <1>3, <1>4, <1>5 DEF ServerNext

\* The server implements the callbacks: the middleware above the handlers does
\* not disturb them, and makes Shutdown wait for longer.
THEOREM ServerImplementsCallbacks == ServerSpec => CallbacksSpec
  <1>1. ServerInit => CallbacksInit
    BY DEF ServerInit
  <1> QED BY <1>1, StepOfCallbacks, PTL DEF ServerSpec, CallbacksSpec

LEMMA ExitedForGood ==
    ASSUME phase = "exited", [ServerNext]_serverVars PROVE phase' = "exited"
  <1>1. [CallbacksNext]_callbackVars
    BY StepOfCallbacks
  <1> QED
    BY <1>1 DEF CallbacksNext, callbackVars, Start, Quit, Offer, WorkerStep, Take, Post,
                Leave, Shutdown, StopStep, Close, Exit

-----------------------------------------------------------------------------
LEMMA ServerTypeCorrect == ServerSpec => []ServerTypeOK
  <1> DEFINE MetricsTypeOK ==
        /\ stage \in [Requests -> Stages]
        /\ counters \in [Keys -> Nat]
        /\ latency \in [Keys -> SUBSET Requests]
        /\ loaded \in [Requests -> Nat]
        /\ shown \in [Scrapes -> [counters : [Keys -> Nat], latency : [Keys -> SUBSET Requests]]]
  <1>1. ServerInit => MetricsTypeOK
    BY DEF ServerInit, Stages, Zero, None
  <1>2. MetricsTypeOK /\ [ServerNext]_serverVars => MetricsTypeOK'
    <2> SUFFICES ASSUME MetricsTypeOK, [ServerNext]_serverVars PROVE MetricsTypeOK'
      OBVIOUS
    <2> USE ServerAssumption DEF Stages, Writing, Ended, Moves, metricsVars, Requests
    <2>1. ASSUME NEW h \in Handlers, Accept(h) \/ HandlerReturns(h) PROVE MetricsTypeOK'
      BY <2>1 DEF Accept, HandlerReturns
    <2>2. ASSUME NEW s \in Scrapes, AcceptScrape(s) \/ RLock(s) PROVE MetricsTypeOK'
      BY <2>2 DEF AcceptScrape, RLock
    <2>3. ASSUME NEW s \in Scrapes, PrintCounters(s) PROVE MetricsTypeOK'
      BY <2>3 DEF PrintCounters
    <2>4. ASSUME NEW s \in Scrapes, PrintLatency(s) PROVE MetricsTypeOK'
      BY <2>4 DEF PrintLatency
    <2>5. ASSUME NEW r \in Requests, Lock(r) \/ LoadCounter(r) PROVE MetricsTypeOK'
      BY <2>5 DEF Lock, LoadCounter
    <2>6. ASSUME NEW r \in Requests, StoreCounter(r) PROVE MetricsTypeOK'
      BY <2>6 DEF StoreCounter
    <2>7. ASSUME NEW r \in Requests, AddLatency(r) PROVE MetricsTypeOK'
      BY <2>7 DEF AddLatency
    <2>8. ASSUME Posting \/ Stopping \/ CloseServer \/ ExitServer PROVE MetricsTypeOK'
      BY <2>8 DEF Posting, Stopping, CloseServer, ExitServer
    <2>9. ASSUME UNCHANGED serverVars PROVE MetricsTypeOK'
      BY <2>9 DEF serverVars
    <2> QED
      BY <2>1, <2>2, <2>3, <2>4, <2>5, <2>6, <2>7, <2>8, <2>9
         DEF ServerNext, ScrapeStep, CountStep
  <1>3. CallbacksTypeOK /\ MetricsTypeOK => ServerTypeOK
    BY DEF ServerTypeOK
  <1> QED
    BY <1>1, <1>2, <1>3, ServerImplementsCallbacks, CallbacksTypeCorrect, PTL DEF ServerSpec

-----------------------------------------------------------------------------
\* metricsMu: one writer at a time, and no reader once it writes.
Exclusive ==
    /\ \A q, r \in Requests : stage[q] \in Writing /\ stage[r] \in Writing => q = r
    /\ \A r \in Requests : stage[r] \in {"storing", "adding"} => ~ReadLocked

LEMMA ExclusiveInductive ==
    ASSUME ServerTypeOK, Exclusive, [ServerNext]_serverVars PROVE Exclusive'
  <1> USE DEF Exclusive, ServerTypeOK, ReadLocked, Writing, Ended, Moves, Requests
  <1>1. ASSUME NEW h \in Handlers, Accept(h) \/ HandlerReturns(h) PROVE Exclusive'
    BY <1>1 DEF Accept, HandlerReturns
  <1>2. ASSUME NEW s \in Scrapes, AcceptScrape(s) \/ PrintCounters(s) \/ PrintLatency(s)
        PROVE  Exclusive'
    BY <1>2 DEF AcceptScrape, PrintCounters, PrintLatency
  <1>3. ASSUME NEW s \in Scrapes, RLock(s) PROVE Exclusive'
    BY <1>3 DEF RLock, Locked
  <1>4. ASSUME NEW r \in Requests, Lock(r) PROVE Exclusive'
    BY <1>4 DEF Lock, Locked
  <1>5. ASSUME NEW r \in Requests, LoadCounter(r) \/ StoreCounter(r) PROVE Exclusive'
    BY <1>5 DEF LoadCounter, StoreCounter
  <1>6. ASSUME NEW r \in Requests, AddLatency(r) PROVE Exclusive'
    BY <1>6 DEF AddLatency
  <1>7. ASSUME Posting \/ Stopping \/ CloseServer \/ ExitServer PROVE Exclusive'
    BY <1>7 DEF Posting, Stopping, CloseServer, ExitServer
  <1>8. ASSUME UNCHANGED serverVars PROVE Exclusive'
    BY <1>8 DEF serverVars
  <1> QED
    BY <1>1, <1>2, <1>3, <1>4, <1>5, <1>6, <1>7, <1>8 DEF ServerNext, ScrapeStep, CountStep

LEMMA MuIsExclusive == ServerSpec => []Exclusive
  <1>1. ServerInit => Exclusive
    BY DEF ServerInit, Exclusive, Writing
  <1>2. ServerTypeOK /\ Exclusive /\ [ServerNext]_serverVars => Exclusive'
    BY ExclusiveInductive
  <1> QED BY <1>1, <1>2, ServerTypeCorrect, PTL DEF ServerSpec

-----------------------------------------------------------------------------
\* The requests that a counter includes, and those that a latency does.
Counted(k) == {r \in Requests : KeyOf[r] = k /\ stage[r] \in {"adding", "returned"}}
Timed(k) == {r \in Requests : KeyOf[r] = k /\ stage[r] = "returned"}

CountsRight ==
    /\ \A k \in Keys : counters[k] = Cardinality(Counted(k)) /\ latency[k] = Timed(k)
    /\ \A r \in Requests : stage[r] = "storing" => loaded[r] = counters[KeyOf[r]]

\* A step that moves nobody into the counted or out of them, and leaves the
\* maps alone, leaves them right.
LEMMA CountsUndisturbed ==
    ASSUME ServerTypeOK, CountsRight, UNCHANGED <<counters, latency, loaded>>,
           \A r \in Requests : stage'[r] = stage[r]
              \/ {stage[r], stage'[r]} \cap {"storing", "adding", "returned"} = {}
    PROVE  CountsRight'
  <1>1. ASSUME NEW k \in Keys PROVE Counted(k)' = Counted(k) /\ Timed(k)' = Timed(k)
    BY DEF Counted, Timed
  <1> QED BY <1>1 DEF CountsRight, ServerTypeOK

LEMMA CountsInductive ==
    ASSUME ServerTypeOK, Exclusive, CountsRight, [ServerNext]_serverVars, ~ExitServer
    PROVE  CountsRight'
  <1> USE ServerAssumption DEF ServerTypeOK, Writing, Moves, Requests
  <1>1. ASSUME NEW h \in Handlers, Accept(h) \/ HandlerReturns(h) PROVE CountsRight'
    <2>1. ASSUME NEW r \in Requests
          PROVE  stage'[r] = stage[r]
                    \/ {stage[r], stage'[r]} \cap {"storing", "adding", "returned"} = {}
      BY <1>1 DEF Accept, HandlerReturns
    <2> QED BY <1>1, <2>1, CountsUndisturbed DEF Accept, HandlerReturns, metricsVars
  <1>2. ASSUME NEW s \in Scrapes, AcceptScrape(s) \/ ScrapeStep(s) PROVE CountsRight'
    <2>1. ASSUME NEW r \in Requests
          PROVE  stage'[r] = stage[r]
                    \/ {stage[r], stage'[r]} \cap {"storing", "adding", "returned"} = {}
      BY <1>2 DEF AcceptScrape, ScrapeStep, RLock, PrintCounters, PrintLatency
    <2>2. UNCHANGED <<counters, latency, loaded>>
      BY <1>2 DEF AcceptScrape, ScrapeStep, RLock, PrintCounters, PrintLatency, metricsVars
    <2> QED BY <2>1, <2>2, CountsUndisturbed
  <1>3. ASSUME NEW r \in Requests, Lock(r) PROVE CountsRight'
    <2>1. ASSUME NEW q \in Requests
          PROVE  stage'[q] = stage[q]
                    \/ {stage[q], stage'[q]} \cap {"storing", "adding", "returned"} = {}
      BY <1>3 DEF Lock
    <2> QED BY <1>3, <2>1, CountsUndisturbed DEF Lock, metricsVars
  <1>4. ASSUME NEW r \in Requests, LoadCounter(r) PROVE CountsRight'
    <2>1. ASSUME NEW k \in Keys PROVE Counted(k)' = Counted(k) /\ Timed(k)' = Timed(k)
      BY <1>4 DEF LoadCounter, Counted, Timed
    <2>2. ASSUME NEW q \in Requests, stage'[q] = "storing"
          PROVE  loaded'[q] = counters'[KeyOf[q]]
      BY <1>4, <2>2 DEF LoadCounter, CountsRight
    <2> QED BY <1>4, <2>1, <2>2 DEF LoadCounter, CountsRight
  <1>5. ASSUME NEW r \in Requests, StoreCounter(r) PROVE CountsRight'
    <2> DEFINE k == KeyOf[r]
    <2>1. k \in Keys /\ IsFiniteSet(Counted(k)) /\ r \notin Counted(k)
      <3>1. IsFiniteSet(Requests)
        BY CallbacksAssumption, FS_Union
      <3> QED BY <1>5, <3>1, FS_Subset DEF StoreCounter, Counted
    <2>2. Counted(k)' = Counted(k) \cup {r}
      BY <1>5 DEF StoreCounter, Counted
    <2>3. Cardinality(Counted(k)') = Cardinality(Counted(k)) + 1
      BY <2>1, <2>2, FS_AddElement
    <2>4. counters' = [counters EXCEPT ![k] = counters[k] + 1] /\ latency' = latency
      BY <1>5 DEF StoreCounter, CountsRight
    <2>5. ASSUME NEW j \in Keys PROVE counters'[j] = Cardinality(Counted(j)')
      <3>1. CASE j = k
        BY <2>1, <2>3, <2>4, <3>1 DEF CountsRight
      <3>2. CASE j # k
        <4>1. Counted(j)' = Counted(j)
          BY <1>5, <3>2 DEF StoreCounter, Counted
        <4> QED BY <2>1, <2>4, <3>2, <4>1 DEF CountsRight
      <3> QED BY <3>1, <3>2
    <2>6. ASSUME NEW j \in Keys PROVE Timed(j)' = Timed(j)
      BY <1>5 DEF StoreCounter, Timed
    <2>7. \A q \in Requests : stage'[q] # "storing"
      BY <1>5 DEF StoreCounter, Exclusive
    <2> QED BY <2>4, <2>5, <2>6, <2>7 DEF CountsRight
  <1>6. ASSUME NEW r \in Requests, AddLatency(r) PROVE CountsRight'
    <2>1. ASSUME NEW k \in Keys PROVE Counted(k)' = Counted(k)
      BY <1>6 DEF AddLatency, Counted
    <2>2. ASSUME NEW k \in Keys PROVE latency'[k] = Timed(k)'
      <3>1. Timed(k)' = IF k = KeyOf[r] THEN Timed(k) \cup {r} ELSE Timed(k)
        BY <1>6 DEF AddLatency, Timed
      <3> QED BY <1>6, <3>1 DEF AddLatency, CountsRight
    <2>3. \A q \in Requests : stage'[q] # "storing"
      BY <1>6 DEF AddLatency, Exclusive
    <2> QED BY <1>6, <2>1, <2>2, <2>3 DEF AddLatency, CountsRight
  <1>7. ASSUME Posting \/ Stopping \/ CloseServer \/ UNCHANGED serverVars PROVE CountsRight'
    <2>1. UNCHANGED <<stage, counters, latency, loaded>>
      BY <1>7 DEF Posting, Stopping, CloseServer, serverVars, metricsVars
    <2> QED BY <2>1, CountsUndisturbed
  <1> QED BY <1>1, <1>2, <1>3, <1>4, <1>5, <1>6, <1>7 DEF ServerNext, CountStep

\* What an exit leaves of a request that is being counted is of no interest.
RightWhileUp == phase # "exited" => CountsRight

LEMMA CountsAreRight == ServerSpec => []RightWhileUp
  <1>1. ServerInit => RightWhileUp
    <2> SUFFICES ASSUME ServerInit PROVE CountsRight
      BY DEF RightWhileUp
    <2>1. \A k \in Keys : Counted(k) = {} /\ Timed(k) = {}
      BY DEF ServerInit, Counted, Timed
    <2> QED BY <2>1, FS_EmptySet DEF ServerInit, CountsRight, Zero, None
  <1>2. ASSUME ServerTypeOK, Exclusive, RightWhileUp, [ServerNext]_serverVars
        PROVE  RightWhileUp'
    <2> USE DEF RightWhileUp
    <2>1. CASE ExitServer
      BY <2>1 DEF ExitServer, Exit
    <2>2. CASE phase # "exited" /\ ~ExitServer
      BY <1>2, <2>2, CountsInductive
    <2>3. CASE phase = "exited"
      BY <1>2, <2>3, ExitedForGood
    <2> QED BY <2>1, <2>2, <2>3
  <1> QED BY <1>1, <1>2, ServerTypeCorrect, MuIsExclusive, PTL DEF ServerSpec

\* The counters are exactly the requests that have returned without a panic,
\* however many end at the same time.
THEOREM NoCountIsLost == ServerSpec => []CountedOnce
  <1>1. CountsRight /\ ~Locked => \A k \in Keys :
          counters[k] = Cardinality({r \in Requests : stage[r] = "returned" /\ KeyOf[r] = k})
    <2> SUFFICES ASSUME CountsRight, ~Locked, NEW k \in Keys
                 PROVE  Counted(k) = {r \in Requests : stage[r] = "returned" /\ KeyOf[r] = k}
      BY DEF CountsRight
    <2> QED BY DEF Counted, Locked, Writing
  <1>2. RightWhileUp => CountedOnce
    BY <1>1 DEF RightWhileUp, CountedOnce
  <1> QED BY <1>2, CountsAreRight, PTL

-----------------------------------------------------------------------------
\* No request outlives the process.
NoneOutlives == phase = "exited" => \A r \in Requests : stage[r] \in {"idle"} \cup Ended

LEMMA NoneOutlivesInductive ==
    ASSUME ServerTypeOK, NoneOutlives, [ServerNext]_serverVars PROVE NoneOutlives'
  <1> USE DEF NoneOutlives, ServerTypeOK, Writing, Ended, Moves, Requests
  <1>1. CASE phase # "exited" /\ ~ExitServer
    <2>1. phase' # "exited"
      BY <1>1 DEF ServerNext, serverVars, callbackVars, Accept, Start, HandlerReturns, Quit, Offer,
             AcceptScrape, ScrapeStep, RLock, PrintCounters, PrintLatency, CountStep, Lock,
             LoadCounter, StoreCounter, AddLatency, Posting, WorkerStep, Take, Post, Leave,
             Stopping, Shutdown, CloseServer, Close
    <2> QED BY <2>1
  <1>2. CASE ExitServer
    BY <1>2 DEF ExitServer
  <1>3. CASE phase = "exited" /\ ~ExitServer
    <2>1. stage' = stage
      BY <1>3 DEF ServerNext, serverVars, Accept, Start, HandlerReturns, Quit, Offer,
             AcceptScrape, ScrapeStep, RLock, PrintCounters, PrintLatency, CountStep, Lock,
             LoadCounter, StoreCounter, AddLatency, Posting, Stopping, CloseServer
    <2> QED BY <1>3, <2>1
  <1> QED BY <1>1, <1>2, <1>3

\* What a scrape has printed: the counters of now while it has the lock, and in
\* the end two maps that agree.
ShownAgrees ==
    \A s \in Scrapes :
        /\ stage[s] = "latency" => shown[s].counters = counters
        /\ stage[s] \in Writing \cup {"locking", "returned"} =>
              \A k \in Keys : shown[s].counters[k] = Cardinality(shown[s].latency[k])

LEMMA ShownInductive ==
    ASSUME ServerTypeOK, Exclusive, RightWhileUp, NoneOutlives, ShownAgrees,
           [ServerNext]_serverVars
    PROVE  ShownAgrees'
  <1> USE ServerAssumption DEF ShownAgrees, ServerTypeOK, Writing, Ended, Moves, Requests
  <1>1. ASSUME NEW h \in Handlers, Accept(h) \/ HandlerReturns(h) PROVE ShownAgrees'
    BY <1>1 DEF Accept, HandlerReturns, metricsVars
  <1>2. ASSUME NEW s \in Scrapes, AcceptScrape(s) \/ RLock(s) PROVE ShownAgrees'
    BY <1>2 DEF AcceptScrape, RLock, metricsVars
  <1>3. ASSUME NEW s \in Scrapes, PrintCounters(s) PROVE ShownAgrees'
    BY <1>3 DEF PrintCounters
  <1>4. ASSUME NEW s \in Scrapes, PrintLatency(s) PROVE ShownAgrees'
    <2>1. CountsRight /\ stage[s] = "latency"
      BY <1>4 DEF PrintLatency, NoneOutlives, RightWhileUp
    <2>2. ASSUME NEW k \in Keys PROVE Counted(k) = Timed(k)
      BY <2>1 DEF Counted, Timed, Exclusive, ReadLocked
    <2>3. \A k \in Keys : counters[k] = Cardinality(latency[k])
      BY <2>1, <2>2 DEF CountsRight
    <2>4. /\ shown' = [shown EXCEPT ![s].latency = latency]
          /\ stage' = [stage EXCEPT ![s] = "locking"]
          /\ counters' = counters
      BY <1>4 DEF PrintLatency
    <2>5. ASSUME NEW k \in Keys PROVE shown'[s].counters[k] = Cardinality(shown'[s].latency[k])
      BY <2>1, <2>3, <2>4
    <2>6. ASSUME NEW t \in Scrapes, t # s PROVE shown'[t] = shown[t] /\ stage'[t] = stage[t]
      BY <2>4, <2>6
    <2> QED BY <2>4, <2>5, <2>6
  <1>5. ASSUME NEW r \in Requests, Lock(r) \/ LoadCounter(r) PROVE ShownAgrees'
    BY <1>5 DEF Lock, LoadCounter, metricsVars
  <1>6. ASSUME NEW r \in Requests, StoreCounter(r) PROVE ShownAgrees'
    BY <1>6 DEF StoreCounter, Exclusive, ReadLocked
  <1>7. ASSUME NEW r \in Requests, AddLatency(r) PROVE ShownAgrees'
    BY <1>7 DEF AddLatency
  <1>8. ASSUME Posting \/ Stopping \/ CloseServer \/ ExitServer PROVE ShownAgrees'
    BY <1>8 DEF Posting, Stopping, CloseServer, ExitServer, metricsVars
  <1>9. ASSUME UNCHANGED serverVars PROVE ShownAgrees'
    BY <1>9 DEF serverVars, metricsVars
  <1> QED
    BY <1>1, <1>2, <1>3, <1>4, <1>5, <1>6, <1>7, <1>8, <1>9
       DEF ServerNext, ScrapeStep, CountStep

\* Whatever ends while it prints, a scrape shows the counts and the latencies of
\* the same requests.
THEOREM ScrapesAreOfOneMoment == ServerSpec => []ScrapeIsOfOneMoment
  <1>1. ServerInit => NoneOutlives /\ ShownAgrees
    BY DEF ServerInit, CallbacksInit, NoneOutlives, ShownAgrees, Writing, Requests
  <1>2. ServerTypeOK /\ NoneOutlives /\ [ServerNext]_serverVars => NoneOutlives'
    BY NoneOutlivesInductive
  <1>3. ServerTypeOK /\ Exclusive /\ RightWhileUp /\ NoneOutlives
            /\ ShownAgrees /\ [ServerNext]_serverVars => ShownAgrees'
    BY ShownInductive
  <1>4. ShownAgrees => ScrapeIsOfOneMoment
    BY DEF ShownAgrees, ScrapeIsOfOneMoment
  <1> QED
    BY <1>1, <1>2, <1>3, <1>4, ServerTypeCorrect, MuIsExclusive, CountsAreRight, PTL
       DEF ServerSpec
=============================================================================
