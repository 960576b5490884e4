----------------------------- MODULE SmsService -----------------------------
(***************************************************************************)
(* internal/features/sms/service.go: Send and HandleDeliveryReport, over   *)
(*   - the wallet the billing engine implements (Wallet, Billing),         *)
(*   - the message documents in Mongo (sms/mongodb/repository.go),         *)
(*   - the carrier (sms/jasmin/gateway.go),                                *)
(*   - the callback channel and the end of the process (Callbacks).        *)
(* Every call to one of them is one step.  All calls of a Send run under   *)
(* the request's context: once the client has gone, each of them fails.    *)
(***************************************************************************)
EXTENDS Integers, FiniteSets

CONSTANTS
    Accounts, Messages,  \* accounts and Send requests (one SID each)
    Owner, Cost,         \* whose a message is, what it costs
    Opening,             \* the balances at the start
    Invalid,             \* the requests that do not validate
    WantsCallback,       \* the messages with a callback URL
    Reports,             \* delivery reports the carrier may send
    ReportOn,            \* the message a report is about
    ReportStatus,        \* the status it carries
    CarrierRetries,      \* whether the carrier repeats a report answered 404 or 500
    Faults,              \* which of AllFaults the environment may produce
    Workers, Capacity, MayStop, DrainTimesOut, Nobody  \* see Callbacks

AllFaults == {"billingError", "mongoError", "gatewayError", "carrierTimeout",
              "emptyCarrierId", "cancel"}

\* A status the carrier has a name of its own for is stored as it comes.
Statuses == {"queued", "sending", "sent", "delivered", "undelivered", "failed", "foreign"}

ASSUME SmsAssumption ==
    /\ Owner \in [Messages -> Accounts]
    /\ Cost \in [Messages -> Int]
    /\ Opening \in [Accounts -> Nat]
    /\ Invalid \subseteq Messages
    /\ WantsCallback \subseteq Messages
    /\ ReportOn \in [Reports -> Messages]
    /\ ReportStatus \in [Reports -> Statuses]
    /\ Faults \subseteq AllFaults
    /\ CarrierRetries \in BOOLEAN
    /\ Messages \cap Reports = {}
    /\ IsFiniteSet(Messages \cup Reports) /\ IsFiniteSet(Workers) /\ Workers # {}
    /\ Capacity \in Nat \ {0}
    /\ MayStop \in BOOLEAN /\ DrainTimesOut \in BOOLEAN
    /\ {Nobody, "left"} \cap (Messages \cup Reports) = {} /\ Nobody # "left"

VARIABLES
    balance, status,   \* the wallet: balances, and what was done for each message
    phase, open, queue, worker, callback,  \* see Callbacks
    pc,                \* where each Send stands
    cancelled,         \* whether its client has gone
    outcome,           \* what the client was answered
    doc,               \* the message document: [status, carrierId], or none
    accepted,          \* the messages the carrier took
    result,            \* what Dispatch returned to each Send
    report             \* where each delivery report stands

wallet == <<balance, status>>
channel == <<phase, open, queue, worker, callback>>
documents == <<doc, accepted>>
vars == <<balance, status, phase, open, queue, worker, callback,
          pc, cancelled, outcome, doc, accepted, result, report>>

W == INSTANCE Wallet WITH Refs <- Messages, Readers <- {}, Unread <- Nobody, seen <- <<>>
C == INSTANCE Callbacks WITH Handlers <- Messages \cup Reports

NoDocument == [status |-> "none", carrierId |-> FALSE]

SendStates == {"idle", "deduct", "create", "refundCreate", "dispatch", "storeFailed",
               "refundFailed", "refundRejected", "store", "storeId", "notify",
               "returned", "dead"}

TypeOK ==
    /\ balance \in [Accounts -> Int]
    /\ status \in [Messages -> {"new", "charged", "denied", "failed", "refunded"}]
    /\ C!CallbacksTypeOK
    /\ pc \in [Messages -> SendStates]
    /\ cancelled \in [Messages -> BOOLEAN]
    /\ outcome \in [Messages -> {"none", "invalid", "insufficient", "error", "sent", "failed"}]
    /\ doc \in [Messages -> [status : Statuses \cup {"none"}, carrierId : BOOLEAN]]
    /\ accepted \in SUBSET Messages
    /\ result \in [Messages -> {"none", "sent", "unidentified", "failed", "error"}]
    /\ report \in [Reports -> {"none", "sent", "found", "notify", "applied", "lost", "dead"}]

Init ==
    /\ balance = Opening
    /\ status = [m \in Messages |-> "new"]
    /\ C!CallbacksInit
    /\ pc = [m \in Messages |-> "idle"]
    /\ cancelled = [m \in Messages |-> FALSE]
    /\ outcome = [m \in Messages |-> "none"]
    /\ doc = [m \in Messages |-> NoDocument]
    /\ accepted = {}
    /\ result = [m \in Messages |-> "none"]
    /\ report = [d \in Reports |-> "none"]

-----------------------------------------------------------------------------
(* The calls a Send makes.                                                 *)

Goto(m, where) == pc' = [pc EXCEPT ![m] = where]

Answer(m, o) ==
    /\ Goto(m, "returned")
    /\ outcome' = [outcome EXCEPT ![m] = o]

\* A call made for m may fail; made after the client left, it does.
MayFail(m, fault) == cancelled[m] \/ fault \in Faults

\* The repository's writes.
InsertMessage(m) == doc' = [doc EXCEPT ![m].status = "queued"]

StoreStatus(m, s) ==
    \/ ~cancelled[m] /\ doc' = [doc EXCEPT ![m].status = s]
    \/ MayFail(m, "mongoError") /\ UNCHANGED doc

UpdateCarrierID(m) ==
    \/ ~cancelled[m] /\ doc' = [doc EXCEPT ![m].carrierId = TRUE]
    \/ MayFail(m, "mongoError") /\ UNCHANGED doc

\* RefundBalance, its error ignored by every caller.
RefundIgnoringErrors(m) ==
    \/ ~cancelled[m] /\ W!Refund(m)
    \/ MayFail(m, "billingError") /\ UNCHANGED wallet

-----------------------------------------------------------------------------
(* Send.                                                                   *)

Begin(m) ==
    /\ pc[m] = "idle"
    /\ C!Start(m)
    /\ Goto(m, "deduct")
    /\ UNCHANGED <<wallet, documents, cancelled, outcome, result, report>>

\* From and To are not E.164 numbers, or the body is blank.
Reject(m) ==
    /\ pc[m] = "deduct" /\ m \in Invalid
    /\ Answer(m, "invalid")
    /\ C!Quit(m)
    /\ UNCHANGED <<wallet, documents, cancelled, result, report>>

\* (mutant) The message goes out even if billing gave no answer.
DeductFailingOpen(m) ==
    /\ pc[m] = "deduct" /\ m \notin Invalid
    /\ \/ ~cancelled[m] /\ W!Charge(m) /\ Goto(m, "create") /\ UNCHANGED <<channel, outcome>>
       \/ ~cancelled[m] /\ Cost[m] > 0 /\ W!Deny(m) /\ Answer(m, "insufficient") /\ C!Quit(m)
       \/ /\ MayFail(m, "billingError") \/ Cost[m] <= 0
          /\ W!Fail(m) /\ Goto(m, "create") /\ UNCHANGED <<channel, outcome>>
    /\ UNCHANGED <<documents, cancelled, result, report>>

DeductBalance(m) ==
    /\ pc[m] = "deduct" /\ m \notin Invalid
    /\ \/ ~cancelled[m] /\ W!Charge(m) /\ Goto(m, "create") /\ UNCHANGED <<channel, outcome>>
       \/ ~cancelled[m] /\ Cost[m] > 0 /\ W!Deny(m) /\ Answer(m, "insufficient") /\ C!Quit(m)
       \/ /\ MayFail(m, "billingError") \/ Cost[m] <= 0
          /\ W!Fail(m) /\ Answer(m, "error") /\ C!Quit(m)
    /\ UNCHANGED <<documents, cancelled, result, report>>

\* An insert that fails may have been made all the same.
Create(m) ==
    /\ pc[m] = "create"
    /\ \/ ~cancelled[m] /\ InsertMessage(m) /\ Goto(m, "dispatch")
       \/ /\ MayFail(m, "mongoError")
          /\ UNCHANGED doc \/ (~cancelled[m] /\ InsertMessage(m))
          /\ Goto(m, "refundCreate")
    /\ UNCHANGED <<wallet, channel, cancelled, outcome, accepted, result, report>>

\* (mutant) The charge is kept although the message was not stored.
AnswerAfterCreate(m) ==
    /\ pc[m] = "refundCreate"
    /\ Answer(m, "error")
    /\ C!Quit(m)
    /\ UNCHANGED <<wallet, documents, cancelled, result, report>>

RefundAfterCreate(m) ==
    /\ pc[m] = "refundCreate"
    /\ RefundIgnoringErrors(m)
    /\ Answer(m, "error")
    /\ C!Quit(m)
    /\ UNCHANGED <<documents, cancelled, result, report>>

\* The carrier takes the message (2xx; its id is the body, which may be empty),
\* rejects it (another status), or Dispatch fails before the carrier saw the message.
\* Having taken it ("carrierTimeout"), the carrier may yet answer with another status,
\* or not in time.
Dispatch(m) ==
    /\ pc[m] = "dispatch"
    /\ \/ /\ ~cancelled[m]
          /\ accepted' = accepted \cup {m}
          /\ \/ result' = [result EXCEPT ![m] = "sent"]
             \/ "emptyCarrierId" \in Faults /\ result' = [result EXCEPT ![m] = "unidentified"]
          /\ Goto(m, "store")
       \/ /\ ~cancelled[m]
          /\ result' = [result EXCEPT ![m] = "failed"]
          /\ Goto(m, "refundRejected")
          /\ \/ UNCHANGED accepted
             \/ "carrierTimeout" \in Faults /\ accepted' = accepted \cup {m}
       \/ /\ MayFail(m, "gatewayError")
          /\ result' = [result EXCEPT ![m] = "error"]
          /\ Goto(m, "storeFailed")
          /\ UNCHANGED accepted
       \/ /\ "carrierTimeout" \in Faults /\ ~cancelled[m]
          /\ accepted' = accepted \cup {m}
          /\ result' = [result EXCEPT ![m] = "error"]
          /\ Goto(m, "storeFailed")
    /\ UNCHANGED <<wallet, channel, cancelled, outcome, doc, report>>

StoreFailed(m) ==
    /\ pc[m] = "storeFailed"
    /\ StoreStatus(m, "failed")
    /\ Goto(m, "refundFailed")
    /\ UNCHANGED <<wallet, channel, cancelled, outcome, accepted, result, report>>

\* The message is returned as failed; no callback is sent on this path.
RefundFailed(m) ==
    /\ pc[m] = "refundFailed"
    /\ RefundIgnoringErrors(m)
    /\ Answer(m, "failed")
    /\ C!Quit(m)
    /\ UNCHANGED <<documents, cancelled, result, report>>

\* (mutant) A rejected message is not refunded.
RejectedUnrefunded(m) ==
    /\ pc[m] = "refundRejected"
    /\ Goto(m, "store")
    /\ UNCHANGED <<wallet, documents, channel, cancelled, outcome, result, report>>

\* (mutant) A rejected message goes on to the path of a failed dispatch.
RejectedRefundedTwice(m) ==
    /\ pc[m] = "refundRejected"
    /\ RefundIgnoringErrors(m)
    /\ Goto(m, "storeFailed")
    /\ UNCHANGED <<documents, channel, cancelled, outcome, result, report>>

\* (mutant) The rejection is not stored.
RejectedUnstored(m) ==
    /\ pc[m] = "refundRejected"
    /\ RefundIgnoringErrors(m)
    /\ Goto(m, "notify")
    /\ UNCHANGED <<documents, channel, cancelled, outcome, result, report>>

RefundRejected(m) ==
    /\ pc[m] = "refundRejected"
    /\ RefundIgnoringErrors(m)
    /\ Goto(m, "store")
    /\ UNCHANGED <<documents, channel, cancelled, outcome, result, report>>

\* (mutant) The result is stored as it is.
StatusOfRaw(r) == r

StatusOf(r) == IF r = "unidentified" THEN "sent" ELSE r

\* (mutant) The carrier's id is stored before the status.
StoreIdFirst(m) ==
    /\ pc[m] = "store"
    /\ IF result[m] = "sent" /\ ~doc[m].carrierId
       THEN doc' = [doc EXCEPT ![m].carrierId = TRUE] /\ UNCHANGED pc
       ELSE StoreStatus(m, StatusOf(result[m])) /\ Goto(m, "notify")
    /\ UNCHANGED <<wallet, channel, cancelled, outcome, accepted, result, report>>

\* (mutant) The carrier's id is not stored.
StoreWithoutId(m) ==
    /\ pc[m] = "store"
    /\ StoreStatus(m, StatusOf(result[m]))
    /\ Goto(m, "notify")
    /\ UNCHANGED <<wallet, channel, cancelled, outcome, accepted, result, report>>

StoreResult(m) ==
    /\ pc[m] = "store"
    /\ StoreStatus(m, StatusOf(result[m]))
    /\ Goto(m, IF result[m] = "sent" THEN "storeId" ELSE "notify")
    /\ UNCHANGED <<wallet, channel, cancelled, outcome, accepted, result, report>>

StoreCarrierId(m) ==
    /\ pc[m] = "storeId"
    /\ UpdateCarrierID(m)
    /\ Goto(m, "notify")
    /\ UNCHANGED <<wallet, channel, cancelled, outcome, accepted, result, report>>

\* The callback is offered to the channel; if that panics, Recovery answers 500.
Notify(m) ==
    /\ pc[m] = "notify"
    /\ IF m \in WantsCallback
       THEN C!Offer(m) /\ Answer(m, IF open THEN StatusOf(result[m]) ELSE "error")
       ELSE C!Quit(m) /\ Answer(m, StatusOf(result[m]))
    /\ UNCHANGED <<wallet, documents, cancelled, result, report>>

-----------------------------------------------------------------------------
(* HandleDeliveryReport.                                                   *)

\* The carrier has something to say of a message it took.
CarrierReports(d) ==
    /\ report[d] = "none"
    /\ ReportOn[d] \in accepted
    /\ report' = [report EXCEPT ![d] = "sent"]
    /\ UNCHANGED <<wallet, channel, pc, cancelled, outcome, documents, result>>

\* A message is found by the carrier's id, once that is stored.
GetByCarrierID(d) == doc[ReportOn[d]].carrierId

FindMessage(d) ==
    /\ report[d] = "sent"
    /\ GetByCarrierID(d)
    /\ C!Start(d)
    /\ report' = [report EXCEPT ![d] = "found"]
    /\ UNCHANGED <<wallet, pc, cancelled, outcome, documents, result>>

\* It does not, or Mongo does not answer: 404 or 500, and the carrier tries
\* again (then nothing has changed here) or does not.
FindNothing(d) ==
    /\ report[d] = "sent" /\ phase = "serving"
    /\ ~CarrierRetries
    /\ ~GetByCarrierID(d) \/ "mongoError" \in Faults
    /\ report' = [report EXCEPT ![d] = "lost"]
    /\ UNCHANGED <<wallet, channel, pc, cancelled, outcome, documents, result>>

\* UpdateStatus, whatever status the document has by now.
ApplyReport(d) ==
    /\ report[d] = "found"
    /\ doc' = [doc EXCEPT ![ReportOn[d]].status = ReportStatus[d]]
    /\ report' = [report EXCEPT ![d] = "notify"]
    /\ UNCHANGED <<wallet, channel, pc, cancelled, outcome, accepted, result>>

\* The update fails, or was made although Mongo answers with an error: 500, and no
\* callback.
ApplyFails(d) ==
    /\ report[d] = "found" /\ "mongoError" \in Faults
    /\ \/ /\ report' = [report EXCEPT ![d] = "lost"]
          /\ UNCHANGED doc
       \/ /\ report' = [report EXCEPT ![d] = "applied"]
          /\ doc' = [doc EXCEPT ![ReportOn[d]].status = ReportStatus[d]]
    /\ C!Quit(d)
    /\ UNCHANGED <<wallet, pc, cancelled, outcome, accepted, result>>

NotifyReport(d) ==
    /\ report[d] = "notify"
    /\ IF ReportOn[d] \in WantsCallback THEN C!Offer(d) ELSE C!Quit(d)
    /\ report' = [report EXCEPT ![d] = "applied"]
    /\ UNCHANGED <<wallet, pc, cancelled, outcome, documents, result>>

-----------------------------------------------------------------------------
(* The clients, the workers and the end of the process.                    *)

InSend(m) == pc[m] \notin {"idle", "returned", "dead"}

\* The client disconnects: net/http cancels the request's context.
ClientLeaves(m) ==
    /\ "cancel" \in Faults
    /\ InSend(m) /\ ~cancelled[m]
    /\ cancelled' = [cancelled EXCEPT ![m] = TRUE]
    /\ UNCHANGED <<wallet, channel, pc, outcome, documents, result, report>>

Background ==
    /\ C!Shutdown \/ C!Close \/ \E w \in Workers : C!WorkerStep(w)
    /\ UNCHANGED <<wallet, pc, cancelled, outcome, documents, result, report>>

\* Handlers that outlived Shutdown and Close end with the process.
Exit ==
    /\ C!Exit
    /\ pc' = [m \in Messages |-> IF InSend(m) THEN "dead" ELSE pc[m]]
    /\ report' = [d \in Reports |-> IF report[d] \in {"found", "notify"}
                                    THEN "dead" ELSE report[d]]
    /\ UNCHANGED <<wallet, cancelled, outcome, documents, result>>

-----------------------------------------------------------------------------
SendStep(m) ==
    \/ Reject(m) \/ DeductBalance(m) \/ Create(m) \/ RefundAfterCreate(m) \/ Dispatch(m)
    \/ StoreFailed(m) \/ RefundFailed(m) \/ RefundRejected(m)
    \/ StoreResult(m) \/ StoreCarrierId(m) \/ Notify(m)

ReportStep(d) ==
    FindMessage(d) \/ FindNothing(d) \/ ApplyReport(d) \/ ApplyFails(d) \/ NotifyReport(d)

Next ==
    \/ \E m \in Messages : Begin(m) \/ SendStep(m) \/ ClientLeaves(m)
    \/ \E d \in Reports : CarrierReports(d) \/ ReportStep(d)
    \/ Background
    \/ Exit

Spec == Init /\ [][Next]_vars

-----------------------------------------------------------------------------
(* Properties.                                                             *)

Applied(m) == \E d \in Reports : ReportOn[d] = m /\ report[d] \in {"notify", "applied"}

\* A client pays for what the carrier says it took, and for nothing the carrier did
\* not take: a message whose acceptance was answered is charged and stays so, and once
\* Send has returned to a client that waited, a charge that stands is for a message
\* that was carried (Send's deduction and its three refunds).
PaidIffCarried ==
    \A m \in Messages :
        /\ result[m] \in {"sent", "unidentified"} => status[m] = "charged"
        /\ pc[m] = "returned" /\ ~cancelled[m] /\ status[m] = "charged" => m \in accepted

\* An error answer is free of charge for a client that waited for it: it may send
\* the message again.  (A handler that Close made panic is answered for by Recovery.)
ErrorsAreFree ==
    \A m \in Messages :
        /\ pc[m] = "returned" /\ outcome[m] \in {"error", "insufficient", "invalid"}
        /\ ~cancelled[m] /\ callback[m] # "panicked"
        => status[m] # "charged"

\* No step of Send gives the carrier a message that the billing engine did not report
\* as paid, whichever of its calls fail, whoever leaves and whenever the process stops.
\* (That the engine took the price is what makes it a wallet: see Billing.)
CarriedWasCharged == \A m \in accepted : status[m] \in {"charged", "refunded"}

\* RefundBalance credits whatever it is asked to, so every path of Send must
\* reach it with a charge that has not been refunded yet.
RefundIsOwed ==
    \A m \in Messages :
        pc[m] \in {"refundCreate", "refundFailed", "refundRejected"} => status[m] = "charged"

\* "Immediate network/gateway failure: refund and mark failed" (service.go:125):
\* a message returned as failed is refunded.
FailedIsRefunded ==
    \A m \in Messages : pc[m] = "returned" /\ outcome[m] = "failed" => status[m] = "refunded"

\* What a client that waited was told is what the document says, until the carrier
\* reports on the message.
StoredIsTold ==
    \A m \in Messages :
        /\ pc[m] = "returned" /\ outcome[m] \in {"sent", "failed"} /\ ~cancelled[m]
        /\ \A d \in Reports : ReportOn[d] = m => report[d] = "none"
        => doc[m].status = outcome[m]

\* Send never overwrites the status a delivery report has set: a report finds a
\* message by the carrier's id only, and that is stored after Send's last status.
SendKeepsReports ==
    [][\A m \in Messages : Applied(m) /\ pc'[m] # pc[m]
           => doc'[m].status = doc[m].status]_vars
=============================================================================
