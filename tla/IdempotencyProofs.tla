------------------------- MODULE IdempotencyProofs --------------------------
(***************************************************************************)
(* Proofs about Idempotency, for any number of requests with one key.      *)
(* They rest on who holds the key: a request that runs holds it, as long as*)
(* the key outlasts it; one that succeeded holds it until the key expires. *)
(***************************************************************************)
EXTENDS Idempotency, TLAPS

\* Type correctness: what the middleware may leave behind is as declared.
THEOREM TypeCorrect == Spec => []TypeOK
  <1>1. Init => TypeOK
    BY DEF Init, TypeOK, Free, InProgress, AllOutcomes
  <1>2. TypeOK /\ [Next]_vars => TypeOK'
    <2> SUFFICES ASSUME TypeOK, [Next]_vars PROVE TypeOK'
      OBVIOUS
    <2> USE IdempotencyAssumption
    <2>1. ASSUME NEW r \in Requests, Arrive(r) PROVE TypeOK'
      BY <2>1 DEF Arrive, TypeOK, Goto, InProgress
    <2>2. ASSUME NEW r \in Requests, SetNX(r) PROVE TypeOK'
      BY <2>2 DEF SetNX, TypeOK, Goto, InProgress, Processing
    <2>3. ASSUME NEW r \in Requests, Get(r) PROVE TypeOK'
      BY <2>3 DEF Get, TypeOK, Goto, Answer, InProgress
    <2>4. ASSUME NEW r \in Requests, AcquireError(r) PROVE TypeOK'
      BY <2>4 DEF AcquireError, TypeOK, Goto, Answer, InProgress, Processing
    <2>5. ASSUME NEW r \in Requests, RunHandler(r) PROVE TypeOK'
      BY <2>5 DEF RunHandler, TypeOK, Goto, Answer, Finish, InProgress, AllOutcomes
    <2>6. ASSUME NEW r \in Requests, SaveResponse(r) PROVE TypeOK'
      BY <2>6 DEF SaveResponse, TypeOK, Goto, InProgress, Saved
    <2>7. ASSUME NEW r \in Requests, Release(r) PROVE TypeOK'
      BY <2>7 DEF Release, TypeOK, Goto, InProgress, Free
    <2>8. ASSUME NEW r \in Requests, ClientLeaves(r) PROVE TypeOK'
      BY <2>8 DEF ClientLeaves, TypeOK
    <2>9. ASSUME Expire PROVE TypeOK'
      BY <2>9 DEF Expire, TypeOK, Free
    <2>10. ASSUME NEW served \in SUBSET Requests, Crash(served) PROVE TypeOK'
      BY <2>10 DEF Crash, TypeOK
    <2>11. ASSUME UNCHANGED vars PROVE TypeOK'
      BY <2>11 DEF vars, TypeOK
    <2> QED
      BY <2>1, <2>2, <2>3, <2>4, <2>5, <2>6, <2>7, <2>8, <2>9, <2>10, <2>11
         DEF Next, Step
  <1> QED BY <1>1, <1>2, PTL DEF Spec

-----------------------------------------------------------------------------
\* Whoever runs its handler, or is to settle the key after it, has the key.
RunnerHolds ==
    expired # "early" => \A r \in Requests : pc[r] \in InProgress => key = Processing(r)

LEMMA HoldingInductive ==
    ASSUME TypeOK, TypeOK', RunnerHolds, [Next]_vars
    PROVE  RunnerHolds'
  <1> USE IdempotencyAssumption DEF RunnerHolds, InProgress
  <1>1. ASSUME NEW r \in Requests, Arrive(r) PROVE RunnerHolds'
    BY <1>1 DEF Arrive, Goto, TypeOK
  <1>2. ASSUME NEW r \in Requests, SetNX(r) PROVE RunnerHolds'
    BY <1>2 DEF SetNX, Goto, TypeOK, Processing, Free
  <1>3. ASSUME NEW r \in Requests, Get(r) PROVE RunnerHolds'
    BY <1>3 DEF Get, Goto, TypeOK
  <1>4. ASSUME NEW r \in Requests, AcquireError(r) PROVE RunnerHolds'
    BY <1>4 DEF AcquireError, Goto, TypeOK, Processing, Free
  <1>5. ASSUME NEW r \in Requests, RunHandler(r) PROVE RunnerHolds'
    BY <1>5 DEF RunHandler, Goto, TypeOK, Finish
  <1>6. ASSUME NEW r \in Requests, SaveResponse(r) PROVE RunnerHolds'
    BY <1>6 DEF SaveResponse, Goto, TypeOK, Processing
  <1>7. ASSUME NEW r \in Requests, Release(r) PROVE RunnerHolds'
    BY <1>7 DEF Release, Goto, TypeOK, Processing
  <1>8. ASSUME NEW r \in Requests, ClientLeaves(r) PROVE RunnerHolds'
    BY <1>8 DEF ClientLeaves, TypeOK
  <1>9. ASSUME Expire PROVE RunnerHolds'
    BY <1>9 DEF Expire, TypeOK
  <1>10. ASSUME NEW served \in SUBSET Requests, Crash(served) PROVE RunnerHolds'
    BY <1>10 DEF Crash, TypeOK
  <1>11. ASSUME UNCHANGED vars PROVE RunnerHolds'
    BY <1>11 DEF vars
  <1> QED
    BY <1>1, <1>2, <1>3, <1>4, <1>5, <1>6, <1>7, <1>8, <1>9, <1>10, <1>11
       DEF Next, Step

\* At most one of the requests with a key runs its handler at any time: Redis errors,
\* clients that leave, restarts and expiry make no difference to it, as long as the
\* key does not expire under a handler.
THEOREM OneRunsAtATime == Spec => []AtMostOneRunning
  <1>1. Init => RunnerHolds
    BY DEF Init, RunnerHolds, InProgress
  <1>2. TypeOK /\ TypeOK' /\ RunnerHolds /\ [Next]_vars => RunnerHolds'
    BY HoldingInductive
  <1>3. RunnerHolds => AtMostOneRunning
    BY DEF RunnerHolds, AtMostOneRunning, Processing
  <1> QED BY <1>1, <1>2, <1>3, TypeCorrect, PTL DEF Spec

-----------------------------------------------------------------------------
\* The steps after a handler are those of its outcome.
StepFollowsOutcome ==
    \A r \in Requests :
        /\ pc[r] \in {"idle", "setnx", "get", "run"} => outcome[r] = "none"
        /\ pc[r] = "save" => outcome[r] = "ok"
        /\ pc[r] = "release" => outcome[r] = "server"

LEMMA OutcomesInductive ==
    ASSUME TypeOK, StepFollowsOutcome, [Next]_vars
    PROVE  StepFollowsOutcome'
  <1> USE IdempotencyAssumption DEF StepFollowsOutcome
  <1>1. ASSUME NEW r \in Requests, Arrive(r) PROVE StepFollowsOutcome'
    BY <1>1 DEF Arrive, Goto, TypeOK
  <1>2. ASSUME NEW r \in Requests, SetNX(r) \/ Get(r) \/ AcquireError(r)
        PROVE  StepFollowsOutcome'
    BY <1>2 DEF SetNX, Get, AcquireError, Goto, TypeOK
  <1>3. ASSUME NEW r \in Requests, RunHandler(r) PROVE StepFollowsOutcome'
    <2>1. PICK o \in Outcomes :
             /\ outcome' = [outcome EXCEPT ![r] = o]
             /\ pc' = [pc EXCEPT ![r] = Finish(o)]
      BY <1>3 DEF RunHandler, Goto
    <2>2. /\ Finish(o) \in {"save", "release", "done"}
          /\ Finish(o) = "save" => o = "ok"
          /\ Finish(o) = "release" => o = "server"
      BY DEF Finish
    <2> QED BY <2>1, <2>2 DEF TypeOK
  <1>4. ASSUME NEW r \in Requests, SaveResponse(r) \/ Release(r) PROVE StepFollowsOutcome'
    BY <1>4 DEF SaveResponse, Release, Goto, TypeOK
  <1>5. ASSUME NEW r \in Requests, ClientLeaves(r) PROVE StepFollowsOutcome'
    BY <1>5 DEF ClientLeaves
  <1>6. ASSUME Expire \/ UNCHANGED vars PROVE StepFollowsOutcome'
    BY <1>6 DEF Expire, vars
  <1>7. ASSUME NEW served \in SUBSET Requests, Crash(served) PROVE StepFollowsOutcome'
    BY <1>7 DEF Crash, TypeOK
  <1> QED
    BY <1>1, <1>2, <1>3, <1>4, <1>5, <1>6, <1>7 DEF Next, Step

LEMMA OutcomesFollowed == Spec => []StepFollowsOutcome
  <1>1. Init => StepFollowsOutcome
    BY DEF Init, StepFollowsOutcome
  <1>2. TypeOK /\ StepFollowsOutcome /\ [Next]_vars => StepFollowsOutcome'
    BY OutcomesInductive
  <1> QED BY <1>1, <1>2, TypeCorrect, PTL DEF Spec

\* A saved response, and one that was replayed, is that of a success.
SavedIsOfSuccess ==
    /\ key.state = "saved" => key.by \in Requests /\ outcome[key.by] = "ok"
    /\ ReplayIsOfSuccess

LEMMA SavedInductive ==
    ASSUME TypeOK, StepFollowsOutcome, SavedIsOfSuccess, [Next]_vars
    PROVE  SavedIsOfSuccess'
  <1> USE IdempotencyAssumption DEF SavedIsOfSuccess, ReplayIsOfSuccess, Free, Processing, Saved
  <1>1. ASSUME NEW r \in Requests, Arrive(r) \/ SetNX(r) PROVE SavedIsOfSuccess'
    BY <1>1 DEF Arrive, SetNX, TypeOK
  <1>2. ASSUME NEW r \in Requests, Get(r) PROVE SavedIsOfSuccess'
    BY <1>2 DEF Get, Answer, TypeOK
  <1>3. ASSUME NEW r \in Requests, AcquireError(r) PROVE SavedIsOfSuccess'
    BY <1>3 DEF AcquireError, Answer, TypeOK
  <1>4. ASSUME NEW r \in Requests, RunHandler(r) PROVE SavedIsOfSuccess'
    <2>1. outcome[r] = "none"
      BY <1>4 DEF RunHandler, StepFollowsOutcome
    <2>2. PICK o \in Outcomes :
             /\ outcome' = [outcome EXCEPT ![r] = o]
             /\ answer' = [answer EXCEPT ![r] = IF o = "panic" THEN "server" ELSE o]
      BY <1>4 DEF RunHandler, Answer
    <2>3. o \in {"ok", "client", "server", "panic"}
      BY DEF AllOutcomes
    <2>4. key' = key /\ replayed' = replayed
      BY <1>4 DEF RunHandler
    <2> QED BY <2>1, <2>2, <2>3, <2>4 DEF TypeOK
  <1>5. ASSUME NEW r \in Requests, SaveResponse(r) PROVE SavedIsOfSuccess'
    BY <1>5 DEF SaveResponse, StepFollowsOutcome, TypeOK
  <1>6. ASSUME NEW r \in Requests, Release(r) PROVE SavedIsOfSuccess'
    BY <1>6 DEF Release, TypeOK
  <1>7. ASSUME NEW r \in Requests, ClientLeaves(r) PROVE SavedIsOfSuccess'
    BY <1>7 DEF ClientLeaves
  <1>8. ASSUME Expire \/ UNCHANGED vars PROVE SavedIsOfSuccess'
    BY <1>8 DEF Expire, vars
  <1>9. ASSUME NEW served \in SUBSET Requests, Crash(served) PROVE SavedIsOfSuccess'
    BY <1>9 DEF Crash
  <1> QED
    BY <1>1, <1>2, <1>3, <1>4, <1>5, <1>6, <1>7, <1>8, <1>9 DEF Next, Step

\* Whatever fails, expires or restarts, the only responses replayed are those of
\* requests that succeeded.
THEOREM ReplaysAreOfSuccesses == Spec => []ReplayIsOfSuccess
  <1>1. Init => SavedIsOfSuccess
    BY DEF Init, SavedIsOfSuccess, ReplayIsOfSuccess, Free
  <1>2. TypeOK /\ StepFollowsOutcome /\ SavedIsOfSuccess /\ [Next]_vars => SavedIsOfSuccess'
    BY SavedInductive
  <1>3. SavedIsOfSuccess => ReplayIsOfSuccess
    BY DEF SavedIsOfSuccess
  <1> QED BY <1>1, <1>2, <1>3, TypeCorrect, OutcomesFollowed, PTL DEF Spec

-----------------------------------------------------------------------------
\* A request that succeeded keeps the key from everybody else.
SuccessHolds ==
    expired = "never" => \A r \in Requests : outcome[r] = "ok" => key.state # "free" /\ key.by = r

LEMMA SuccessInductive ==
    ASSUME TypeOK, RunnerHolds, StepFollowsOutcome, SuccessHolds, [Next]_vars
    PROVE  SuccessHolds'
  <1> USE IdempotencyAssumption DEF SuccessHolds, RunnerHolds, StepFollowsOutcome,
                                    InProgress, Free, Processing, Saved
  <1>1. ASSUME NEW r \in Requests, Arrive(r) \/ SetNX(r) PROVE SuccessHolds'
    BY <1>1 DEF Arrive, SetNX, TypeOK
  <1>2. ASSUME NEW r \in Requests, Get(r) \/ AcquireError(r) PROVE SuccessHolds'
    BY <1>2 DEF Get, AcquireError, TypeOK
  <1>3. ASSUME NEW r \in Requests, RunHandler(r) PROVE SuccessHolds'
    BY <1>3 DEF RunHandler, TypeOK
  <1>4. ASSUME NEW r \in Requests, SaveResponse(r) PROVE SuccessHolds'
    BY <1>4 DEF SaveResponse, TypeOK
  <1>5. ASSUME NEW r \in Requests, Release(r) PROVE SuccessHolds'
    BY <1>5 DEF Release, TypeOK
  <1>6. ASSUME NEW r \in Requests, ClientLeaves(r) PROVE SuccessHolds'
    BY <1>6 DEF ClientLeaves
  <1>7. ASSUME Expire PROVE SuccessHolds'
    BY <1>7 DEF Expire
  <1>8. ASSUME UNCHANGED vars PROVE SuccessHolds'
    BY <1>8 DEF vars
  <1>9. ASSUME NEW served \in SUBSET Requests, Crash(served) PROVE SuccessHolds'
    BY <1>9 DEF Crash
  <1> QED
    BY <1>1, <1>2, <1>3, <1>4, <1>5, <1>6, <1>7, <1>8, <1>9 DEF Next, Step

\* Of all requests with a key, at most one succeeds before the key expires, whatever
\* is lost, fails or restarts on the way.
THEOREM OneSucceeds == Spec => []OneSuccess
  <1>1. Init => RunnerHolds /\ SuccessHolds
    BY DEF Init, RunnerHolds, SuccessHolds, InProgress
  <1>2. TypeOK /\ TypeOK' /\ RunnerHolds /\ [Next]_vars => RunnerHolds'
    BY HoldingInductive
  <1>3. TypeOK /\ RunnerHolds /\ StepFollowsOutcome /\ SuccessHolds /\ [Next]_vars
            => SuccessHolds'
    BY SuccessInductive
  <1>4. SuccessHolds => OneSuccess
    BY DEF SuccessHolds, OneSuccess
  <1> QED BY <1>1, <1>2, <1>3, <1>4, TypeCorrect, OutcomesFollowed, PTL DEF Spec
=============================================================================
