---------------------------- MODULE Idempotency -----------------------------
(***************************************************************************)
(* One idempotency key: pkg/idempotency/idempotency.go (Manager) and the   *)
(* middleware that brackets a handler with it                              *)
(* (internal/transport/http/middleware/idempotency.go).                    *)
(*                                                                         *)
(* Requests are the requests that carry this key to this path of this      *)
(* account; others never touch it.  Each Redis command is one step.        *)
(***************************************************************************)
CONSTANTS
    Requests,   \* requests with the same key
    Outcomes,   \* how the handler may end: a subset of AllOutcomes
    Faults,     \* which of AllFaults the environment may produce
    Nobody      \* whose an absent key is

AllOutcomes == {"ok", "client", "server", "panic"}
AllFaults == {"redisError", "cancel", "expire", "crash"}

ASSUME IdempotencyAssumption ==
    /\ Outcomes \subseteq AllOutcomes
    /\ Faults \subseteq AllFaults
    /\ Nobody \notin Requests

VARIABLES
    key,        \* the Redis key: absent, PROCESSING or a saved response (and,
                \* for the properties only, which request wrote it)
    pc,         \* where each request stands
    outcome,    \* how its handler ended: ok is 2xx, client 4xx, server 5xx
    answer,     \* what its client was answered
    replayed,   \* the request whose response it was answered with
    cancelled,  \* whether its client has gone
    expired     \* whether the key's time has ever been over, and if so, ever
                \* while a handler was in progress ("early")

vars == <<key, pc, outcome, answer, replayed, cancelled, expired>>

Free == [state |-> "free", by |-> Nobody]
Processing(r) == [state |-> "processing", by |-> r]
Saved(r) == [state |-> "saved", by |-> r]

InProgress == {"run", "save", "release"}

TypeOK ==
    /\ key \in [state : {"free", "processing", "saved"}, by : Requests \cup {Nobody}]
    /\ pc \in [Requests -> InProgress \cup {"idle", "setnx", "get", "done", "dead"}]
    /\ outcome \in [Requests -> AllOutcomes \cup {"none"}]
    /\ answer \in [Requests -> {"none", "ok", "client", "server", "conflict", "replay"}]
    /\ replayed \in [Requests -> Requests \cup {Nobody}]
    /\ cancelled \in [Requests -> BOOLEAN]
    /\ expired \in {"never", "late", "early"}

Init ==
    /\ key = Free
    /\ pc = [r \in Requests |-> "idle"]
    /\ outcome = [r \in Requests |-> "none"]
    /\ answer = [r \in Requests |-> "none"]
    /\ replayed = [r \in Requests |-> Nobody]
    /\ cancelled = [r \in Requests |-> FALSE]
    /\ expired = "never"

Goto(r, where) == pc' = [pc EXCEPT ![r] = where]
Answer(r, a) == answer' = [answer EXCEPT ![r] = a]

\* A command under the context of a client that has gone fails.
MayFail(r) == cancelled[r] \/ "redisError" \in Faults

-----------------------------------------------------------------------------
(* Acquire.                                                                *)

Arrive(r) ==
    /\ pc[r] = "idle"
    /\ Goto(r, "setnx")
    /\ UNCHANGED <<key, outcome, answer, replayed, cancelled, expired>>

\* (mutant) A plain SET takes over a key that is still being processed.
SetUnlessSaved(r) ==
    /\ pc[r] = "setnx" /\ ~cancelled[r]
    /\ \/ key.state # "saved" /\ key' = Processing(r) /\ Goto(r, "run")
       \/ key.state = "saved" /\ UNCHANGED key /\ Goto(r, "get")
    /\ UNCHANGED <<outcome, answer, replayed, cancelled, expired>>

SetNX(r) ==
    /\ pc[r] = "setnx" /\ ~cancelled[r]
    /\ \/ key = Free /\ key' = Processing(r) /\ Goto(r, "run")
       \/ key # Free /\ UNCHANGED key /\ Goto(r, "get")
    /\ UNCHANGED <<outcome, answer, replayed, cancelled, expired>>

\* (mutant) A request that finds another one in progress waits for it.
GetWaiting(r) ==
    /\ pc[r] = "get" /\ ~cancelled[r]
    /\ \/ /\ key = Free
          /\ Goto(r, "setnx")
          /\ UNCHANGED <<answer, replayed>>
       \/ /\ key.state = "processing"
          /\ UNCHANGED <<pc, answer, replayed>>
       \/ /\ key.state = "saved"
          /\ Goto(r, "done") /\ Answer(r, "replay")
          /\ replayed' = [replayed EXCEPT ![r] = key.by]
    /\ UNCHANGED <<key, outcome, cancelled, expired>>

\* The key is there (or was: then SetNX is tried again).
Get(r) ==
    /\ pc[r] = "get" /\ ~cancelled[r]
    /\ \/ /\ key = Free
          /\ Goto(r, "setnx")
          /\ UNCHANGED <<answer, replayed>>
       \/ /\ key.state = "processing"
          /\ Goto(r, "done") /\ Answer(r, "conflict")
          /\ UNCHANGED replayed
       \/ /\ key.state = "saved"
          /\ Goto(r, "done") /\ Answer(r, "replay")
          /\ replayed' = [replayed EXCEPT ![r] = key.by]
    /\ UNCHANGED <<key, outcome, cancelled, expired>>

\* Redis answers an error: 500, and the handler does not run.  The SETNX may
\* have been carried out all the same.
AcquireError(r) ==
    /\ pc[r] \in {"setnx", "get"} /\ MayFail(r)
    /\ \/ UNCHANGED key
       \/ pc[r] = "setnx" /\ ~cancelled[r] /\ key = Free /\ key' = Processing(r)
    /\ Goto(r, "done") /\ Answer(r, "server")
    /\ UNCHANGED <<outcome, replayed, cancelled, expired>>

-----------------------------------------------------------------------------
(* The middleware after c.Next().                                          *)

\* (mutant) The key is released once the response has been sent.
FinishReleasing(o) == IF o \in {"ok", "server"} THEN "release" ELSE "done"

\* (mutant) Every response is saved for replay.
FinishSaving(o) == IF o = "panic" THEN "done" ELSE "save"

\* A 2xx is saved, a 5xx releases the key; a 4xx does neither, and a panic
\* unwinds past the middleware to Recovery.
Finish(o) == CASE o = "ok" -> "save" [] o = "server" -> "release" [] OTHER -> "done"

\* The handler ends; its answer is on its way to the client.
RunHandler(r) ==
    /\ pc[r] = "run"
    /\ \E o \in Outcomes :
          /\ outcome' = [outcome EXCEPT ![r] = o]
          /\ Answer(r, IF o = "panic" THEN "server" ELSE o)
          /\ Goto(r, Finish(o))
    /\ UNCHANGED <<key, replayed, cancelled, expired>>

SaveResponse(r) ==
    /\ pc[r] = "save"
    /\ \/ ~cancelled[r] /\ key' = Saved(r)
       \/ MayFail(r) /\ UNCHANGED key
    /\ Goto(r, "done")
    /\ UNCHANGED <<outcome, answer, replayed, cancelled, expired>>

\* DEL, whoever holds the key by now.
Release(r) ==
    /\ pc[r] = "release"
    /\ \/ ~cancelled[r] /\ key' = Free
       \/ MayFail(r) /\ UNCHANGED key
    /\ Goto(r, "done")
    /\ UNCHANGED <<outcome, answer, replayed, cancelled, expired>>

-----------------------------------------------------------------------------
(* The environment.                                                        *)

ClientLeaves(r) ==
    /\ "cancel" \in Faults
    /\ pc[r] \in InProgress \cup {"setnx", "get"}
    /\ cancelled' = [cancelled EXCEPT ![r] = TRUE]
    /\ UNCHANGED <<key, pc, outcome, answer, replayed, expired>>

\* The key's time (24 h by default, configurable) is over.
Expire ==
    /\ "expire" \in Faults
    /\ key # Free
    /\ key' = Free
    /\ expired' = IF \E r \in Requests : pc[r] \in InProgress THEN "early"
                  ELSE IF expired = "never" THEN "late" ELSE expired
    /\ UNCHANGED <<pc, outcome, answer, replayed, cancelled>>

\* The process that serves the requests in served stops; the others, and Redis
\* with the key, go on.
Crash(served) ==
    /\ "crash" \in Faults
    /\ pc' = [r \in Requests |->
                 IF r \notin served \/ pc[r] \in {"idle", "done"} THEN pc[r] ELSE "dead"]
    /\ UNCHANGED <<key, outcome, answer, replayed, cancelled, expired>>

-----------------------------------------------------------------------------
Step(r) == SetNX(r) \/ Get(r) \/ RunHandler(r) \/ SaveResponse(r) \/ Release(r)

Next ==
    \/ \E r \in Requests : Arrive(r) \/ Step(r) \/ AcquireError(r) \/ ClientLeaves(r)
    \/ Expire
    \/ \E served \in SUBSET Requests : Crash(served)

Spec == Init /\ [][Next]_vars

\* A request in progress goes on, and a command under a cancelled context fails;
\* Redis owes nobody an error.
FairSpec ==
    /\ Spec
    /\ \A r \in Requests : WF_vars(Step(r) \/ (cancelled[r] /\ AcquireError(r)))

-----------------------------------------------------------------------------
(* Properties.                                                             *)

\* Two requests with the same key never run their handlers at the same time,
\* as long as the key has not expired under one of them (Acquire's SETNX).
AtMostOneRunning ==
    expired # "early" =>
        \A r, s \in Requests : pc[r] \in InProgress /\ pc[s] \in InProgress => r = s

\* As long as the key has not expired, at most one request with that key has ever
\* succeeded: not after a lost SaveResponse, a failed Release or a restart.
OneSuccess ==
    expired = "never" => \A r, s \in Requests : outcome[r] = "ok" /\ outcome[s] = "ok" => r = s

\* A replayed response is the one of a request that succeeded.
ReplayIsOfSuccess ==
    \A r \in Requests : answer[r] = "replay" =>
        replayed[r] \in Requests /\ outcome[replayed[r]] = "ok"

\* Every request is answered, whatever the key holds and however often it
\* changes hands (Acquire calls itself when the key has just gone).
EveryRequestAnswered ==
    \A r \in Requests : pc[r] # "idle" ~> pc[r] \in {"done", "dead"}
=============================================================================
