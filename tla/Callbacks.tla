----------------------------- MODULE Callbacks ------------------------------
(***************************************************************************)
(* Status callbacks and the end of the process: the callback channel of    *)
(* sms/service.go with its workers and Close, and the shutdown sequence of *)
(* cmd/api/main.go that leads to Close.                                    *)
(*                                                                         *)
(* A handler is one HTTP request being served: a Send or a delivery report.*)
(* It offers at most one callback, as its last step.                       *)
(***************************************************************************)
EXTENDS Naturals, Sequences, FiniteSets, SequencesExt

CONSTANTS
    Handlers,       \* the requests
    Workers,        \* the webhook workers (5 in the code)
    Capacity,       \* of the channel (500 in the code)
    MayStop,        \* whether a stop signal may arrive
    DrainTimesOut,  \* whether httpServer.Shutdown may give up on handlers
    Nobody          \* what an idle worker holds

ChannelConstants ==
    /\ Capacity \in Nat \ {0}
    /\ MayStop \in BOOLEAN
    /\ DrainTimesOut \in BOOLEAN
    /\ {Nobody, "left"} \cap Handlers = {} /\ Nobody # "left"
    /\ Workers # {}
    /\ IsFiniteSet(Workers)
    /\ IsFiniteSet(Handlers)

ASSUME ChannelConstants

VARIABLES
    phase,     \* serving, draining (Shutdown), closing (Close), exited
    open,      \* whether callbackChan is open
    queue,     \* what is in callbackChan
    worker,    \* what each worker is posting: a callback, Nobody, or it has left
    callback   \* each handler and, once it has offered it, its callback

callbackVars == <<phase, open, queue, worker, callback>>

CallbackStates == {"idle", "running", "quit", "queued", "dropped", "panicked",
                   "taken", "attempted", "dead"}

CallbacksTypeOK ==
    /\ phase \in {"serving", "draining", "closing", "exited"}
    /\ open \in BOOLEAN
    /\ queue \in Seq(Handlers)
    /\ Len(queue) <= Capacity
    /\ worker \in [Workers -> Handlers \cup {Nobody, "left"}]
    /\ callback \in [Handlers -> CallbackStates]

CallbacksInit ==
    /\ phase = "serving"
    /\ open = TRUE
    /\ queue = <<>>
    /\ worker = [w \in Workers |-> Nobody]
    /\ callback = [h \in Handlers |-> "idle"]

Becomes(h, s) == callback' = [callback EXCEPT ![h] = s]
Serving == \E h \in Handlers : callback[h] = "running"

-----------------------------------------------------------------------------
(* Handlers.                                                               *)

Start(h) ==
    /\ phase = "serving"
    /\ callback[h] = "idle"
    /\ Becomes(h, "running")
    /\ UNCHANGED <<phase, open, queue, worker>>

\* The handler returns without a callback.
Quit(h) ==
    /\ phase # "exited"
    /\ callback[h] = "running"
    /\ Becomes(h, "quit")
    /\ UNCHANGED <<phase, open, queue, worker>>

\* (mutant) The buffer takes one more than its capacity.
EnqueueOverfull(h) ==
    /\ open /\ Len(queue) <= Capacity
    /\ queue' = Append(queue, h)
    /\ Becomes(h, "queued")

\* select { case callbackChan <- msg: default: drop }.  A send on a closed
\* channel panics, in a select too.
Enqueue(h) ==
    /\ open /\ Len(queue) < Capacity
    /\ queue' = Append(queue, h)
    /\ Becomes(h, "queued")

Drop(h) ==
    /\ open /\ Len(queue) = Capacity
    /\ Becomes(h, "dropped")
    /\ UNCHANGED queue

Panic(h) ==
    /\ ~open
    /\ Becomes(h, "panicked")
    /\ UNCHANGED queue

Offer(h) ==
    /\ phase # "exited"
    /\ callback[h] = "running"
    /\ Enqueue(h) \/ Drop(h) \/ Panic(h)
    /\ UNCHANGED <<phase, open, worker>>

-----------------------------------------------------------------------------
(* webhookWorker: for msg := range callbackChan.                           *)

Take(w) ==
    /\ phase # "exited"
    /\ worker[w] = Nobody
    /\ queue # <<>>
    /\ worker' = [worker EXCEPT ![w] = Head(queue)]
    /\ queue' = Tail(queue)
    /\ Becomes(Head(queue), "taken")
    /\ UNCHANGED <<phase, open>>

\* The POST was made or failed; both end the attempt (no retry).
Post(w) ==
    /\ phase # "exited"
    /\ worker[w] \in Handlers
    /\ Becomes(worker[w], "attempted")
    /\ worker' = [worker EXCEPT ![w] = Nobody]
    /\ UNCHANGED <<phase, open, queue>>

\* (mutant) The worker watches s.closed instead of ranging over the channel.
LeaveOnClose(w) ==
    /\ worker[w] = Nobody
    /\ ~open
    /\ worker' = [worker EXCEPT ![w] = "left"]
    /\ UNCHANGED <<phase, open, queue, callback>>

\* range ends: the channel is closed and empty.
Leave(w) ==
    /\ worker[w] = Nobody
    /\ ~open /\ queue = <<>>
    /\ worker' = [worker EXCEPT ![w] = "left"]
    /\ UNCHANGED <<phase, open, queue, callback>>

-----------------------------------------------------------------------------
(* main: the signal, httpServer.Shutdown, then the deferred Close.         *)

Shutdown ==
    /\ MayStop
    /\ phase = "serving"
    /\ phase' = "draining"
    /\ UNCHANGED <<open, queue, worker, callback>>

\* (mutant) Close closes s.closed only, which no worker reads.
CloseLeavingTheChannel ==
    /\ phase = "draining"
    /\ ~Serving \/ DrainTimesOut
    /\ phase' = "closing"
    /\ UNCHANGED <<open, queue, worker, callback>>

\* Shutdown has returned, because every handler has or because its time is
\* up; Close closes the channel and waits.
Close ==
    /\ phase = "draining"
    /\ ~Serving \/ DrainTimesOut
    /\ phase' = "closing"
    /\ open' = FALSE
    /\ UNCHANGED <<queue, worker, callback>>

\* workerWg.Wait() returns and main does; handlers still running die with it.
Exit ==
    /\ phase = "closing"
    /\ \A w \in Workers : worker[w] = "left"
    /\ phase' = "exited"
    /\ callback' = [h \in Handlers |->
                       IF callback[h] = "running" THEN "dead" ELSE callback[h]]
    /\ UNCHANGED <<open, queue, worker>>

-----------------------------------------------------------------------------
WorkerStep(w) == Take(w) \/ Post(w) \/ Leave(w)
StopStep == Close \/ Exit

CallbacksNext ==
    \/ \E h \in Handlers : Start(h) \/ Quit(h) \/ Offer(h)
    \/ \E w \in Workers : WorkerStep(w)
    \/ Shutdown
    \/ StopStep

CallbacksSpec == CallbacksInit /\ [][CallbacksNext]_callbackVars

\* A handler returns (its Redis, Mongo and carrier calls time out), a POST
\* ends within 5 s, and main goes on once it has been told to stop.
CallbacksFairSpec ==
    /\ CallbacksSpec
    /\ \A h \in Handlers : WF_callbackVars(Quit(h) \/ Offer(h))
    /\ \A w \in Workers : WF_callbackVars(WorkerStep(w))
    /\ WF_callbackVars(StopStep)

-----------------------------------------------------------------------------
(* Properties.                                                             *)

\* When the process has exited, every callback that got into the channel was
\* attempted: closing the channel lets the workers drain it and Close waits
\* for them (service.go Close, webhookWorker).
AcceptedIsAttempted ==
    phase = "exited" => \A h \in Handlers : callback[h] \notin {"queued", "taken"}

\* A stop signal leads to the end of the process: Close, the workers and the
\* handlers do not wait for one another for ever.
StopEnds == phase = "draining" ~> phase = "exited"
=============================================================================
