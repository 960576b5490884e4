---------------------------- MODULE RetriedSend -----------------------------
(***************************************************************************)
(* POST /v1/sms/send with an Idempotency-Key: SmsService behind the        *)
(* middleware of Idempotency, as router.go puts them together.  Messages   *)
(* are the attempts one client makes with one key: each that gets the key  *)
(* runs Send, under a new SID, and what Send answers decides what becomes  *)
(* of the key.  The context of a request is one and the same for both.     *)
(*                                                                         *)
(* The process may crash and is then started again, Redis and Mongo        *)
(* keeping what they have; a crash stands here for every way to stop.  The *)
(* attempts are made within the life of the key (24 h by default), and     *)
(* under one SID: the key is scoped by it, and a rotation of the account's *)
(* credentials replaces it.                                                *)
(***************************************************************************)
EXTENDS SmsService

CONSTANTS KeyFaults   \* the Faults of Idempotency

ASSUME RetriedAssumption ==
    KeyFaults \subseteq {"redisError", "cancel", "crash"}

VARIABLES
    key, stage, ended, reply, replayed
        \* the key, pc, outcome, answer and replayed of Idempotency

keyVars == <<key, stage, ended, reply, replayed>>
sendVars == <<balance, status, phase, open, queue, worker, callback,
              pc, outcome, doc, accepted, result, report>>
chainVars == <<vars, keyVars>>

I == INSTANCE Idempotency WITH
        Requests <- Messages, Outcomes <- {"ok", "client", "server"}, Faults <- KeyFaults,
        pc <- stage, outcome <- ended, answer <- reply, expired <- "never"

ChainInit == Init /\ I!Init

-----------------------------------------------------------------------------
(* A request on its way through the middleware.                            *)

ArriveWithKey(m) ==
    /\ I!Arrive(m)
    /\ C!Start(m)
    /\ UNCHANGED <<wallet, documents, pc, outcome, result, report>>

\* The request that set the key goes on to Send.
SetNX(m) ==
    /\ I!SetNX(m)
    /\ IF stage'[m] = "run" THEN Goto(m, "deduct") ELSE UNCHANGED pc
    /\ UNCHANGED <<wallet, channel, documents, outcome, result, report>>

Get(m) ==
    /\ I!Get(m)
    /\ IF stage'[m] = "done" THEN C!Quit(m) ELSE UNCHANGED channel
    /\ UNCHANGED <<wallet, documents, pc, outcome, result, report>>

AcquireError(m) ==
    /\ I!AcquireError(m)
    /\ C!Quit(m)
    /\ UNCHANGED <<wallet, documents, pc, outcome, result, report>>

Sending(m) ==
    /\ SendStep(m) /\ pc'[m] # "returned"
    /\ UNCHANGED keyVars

\* (mutant) A failed dispatch is answered with an error, like a failed Create.
EndOfFailedAsError(o) ==
    CASE o = "sent" -> "ok"
      [] o \in {"invalid", "insufficient"} -> "client"
      [] o \in {"error", "failed"} -> "server"

\* SendSMS answers 201 for every message it returns, a failed one included; 400
\* and 402 for what is the client's, 500 for any other error.
EndOf(o) ==
    CASE o \in {"sent", "failed"} -> "ok"
      [] o \in {"invalid", "insufficient"} -> "client"
      [] o = "error" -> "server"

SendReturns(m) ==
    /\ SendStep(m) /\ pc'[m] = "returned"
    /\ I!RunHandler(m)
    /\ ended'[m] = EndOf(outcome'[m])

\* The response is saved, or the key released.
Finishing(m) ==
    /\ I!SaveResponse(m) \/ I!Release(m)
    /\ UNCHANGED sendVars

-----------------------------------------------------------------------------
(* The environment.                                                        *)

ClientGone(m) ==
    /\ ~cancelled[m]
    /\ I!ClientLeaves(m)
    /\ UNCHANGED sendVars

Reporting(d) ==
    /\ CarrierReports(d) \/ ReportStep(d)
    /\ UNCHANGED keyVars

Posting ==
    /\ \E w \in Workers : C!WorkerStep(w)
    /\ UNCHANGED <<wallet, pc, cancelled, outcome, documents, result, report, keyVars>>

\* Whatever ran in the process is gone, callbacks that were queued included; a
\* report that got no answer is one the carrier repeats.
Crash ==
    /\ I!Crash(Messages)
    /\ pc' = [m \in Messages |-> IF InSend(m) THEN "dead" ELSE pc[m]]
    /\ LET served == {d \in Reports : report[d] \in {"found", "notify"}}
       IN  /\ report' = [d \in Reports |->
                 IF d \in served THEN IF CarrierRetries THEN "sent" ELSE "dead" ELSE report[d]]
           /\ callback' = [h \in Messages \cup Reports |->
                 IF h \in served /\ CarrierRetries THEN "idle"
                 ELSE IF callback[h] \in {"running", "queued", "taken"} THEN "dead"
                 ELSE callback[h]]
    /\ queue' = <<>>
    /\ worker' = [w \in Workers |-> Nobody]
    /\ UNCHANGED <<wallet, phase, open, outcome, documents, result>>

-----------------------------------------------------------------------------
RequestStep(m) == SetNX(m) \/ Get(m) \/ Sending(m) \/ SendReturns(m) \/ Finishing(m)

ChainNext ==
    \/ \E m \in Messages : ArriveWithKey(m) \/ RequestStep(m) \/ AcquireError(m) \/ ClientGone(m)
    \/ \E d \in Reports : Reporting(d)
    \/ Posting
    \/ Crash

ChainSpec == ChainInit /\ [][ChainNext]_chainVars

\* A request in progress goes on, a command under a cancelled context fails, and
\* a report the carrier repeats for as long as it must is served.
ChainFairSpec ==
    /\ ChainSpec
    /\ \A m \in Messages :
          WF_chainVars(RequestStep(m) \/ (cancelled[m] /\ AcquireError(m)))
    /\ \A d \in Reports : WF_chainVars(ReportStep(d) /\ UNCHANGED keyVars)

-----------------------------------------------------------------------------
(* Properties.                                                             *)

\* However often a client sends its request again, the carrier is given one
\* message: whatever fails, whenever the client leaves or the process stops, an
\* attempt that ran Dispatch keeps the key (Send answers 201 after it, and a key
\* that cannot be saved stays locked).
CarriedOnce == \A m, n \in accepted : m = n

\* The refund that Send owed with its error answer was not made, for a reason
\* other than the client's leaving.
RefundLost(m) ==
    status[m] = "charged" /\ ended[m] = "server" /\ ~cancelled[m]

\* Nor is the client charged for two attempts, unless the refund of one failed in
\* the billing engine.  It rests on a coincidence: when a refund fails because the
\* client has left, Release fails for the same reason, and the key stays locked.
ChargedOnce ==
    \A m, n \in Messages :
        status[m] = "charged" /\ status[n] = "charged" /\ m # n
            => RefundLost(m) \/ RefundLost(n)

\* Every attempt is answered, through the middleware and Send, or dies with the
\* process.
EveryAttemptAnswered ==
    \A m \in Messages : stage[m] # "idle" ~> stage[m] \in {"done", "dead"}

\* A report the carrier repeats is applied in the end, however early it came and
\* if crashes do not go on for ever, provided that Send was told of the message it
\* is about and stayed to store the carrier's id.
ReportsApplied ==
    <>[][~Crash]_chainVars =>
        \A d \in Reports :
            LET m == ReportOn[d]
            IN  report[d] = "sent" ~>
                    \/ report[d] = "applied"
                    \/ result[m] # "sent" \/ cancelled[m] \/ pc[m] = "dead"
=============================================================================
