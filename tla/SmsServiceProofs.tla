-------------------------- MODULE SmsServiceProofs ---------------------------
(***************************************************************************)
(* Proofs about SmsService, for any number of messages, reports, accounts  *)
(* and workers, and about RetriedSend (at the end), for any number of      *)
(* attempts with one key.                                                  *)
(***************************************************************************)
EXTENDS RetriedSend, FiniteSetTheorems, TLAPS

CP == INSTANCE CallbacksProofs WITH Handlers <- Messages \cup Reports

-----------------------------------------------------------------------------
(* The callback channel.                                                   *)

ChannelStep(h) == C!Start(h) \/ C!Quit(h) \/ C!Offer(h)

\* What Callbacks assumes of its constants is so here.
LEMMA ChannelAssumption == CP!ChannelConstants
  BY SmsAssumption DEF CP!ChannelConstants, IsFiniteSet, CP!IsFiniteSet

\* What each step does to the channel is what Callbacks lets a handler, a worker or
\* main do, or nothing.
LEMMA SendsUseTheChannel ==
    ASSUME NEW m \in Messages, Begin(m) \/ SendStep(m) \/ ClientLeaves(m)
    PROVE  ChannelStep(m) \/ UNCHANGED channel
  <1> USE DEF ChannelStep
  <1>1. CASE Begin(m)
    BY <1>1 DEF Begin
  <1>2. CASE Reject(m) \/ DeductBalance(m)
    BY <1>2 DEF Reject, DeductBalance
  <1>3. CASE Create(m) \/ Dispatch(m) \/ StoreFailed(m) \/ RefundRejected(m)
             \/ StoreResult(m) \/ StoreCarrierId(m) \/ ClientLeaves(m)
    BY <1>3 DEF Create, InsertMessage, Dispatch, StoreFailed, RefundRejected, StoreResult,
           StoreCarrierId, UpdateCarrierID, ClientLeaves
  <1>4. CASE RefundAfterCreate(m) \/ RefundFailed(m)
    BY <1>4 DEF RefundAfterCreate, RefundFailed
  <1>5. CASE Notify(m)
    BY <1>5 DEF Notify
  <1> QED
    BY <1>1, <1>2, <1>3, <1>4, <1>5 DEF SendStep

LEMMA ReportsUseTheChannel ==
    ASSUME NEW d \in Reports, CarrierReports(d) \/ ReportStep(d)
    PROVE  ChannelStep(d) \/ UNCHANGED channel
  BY DEF ChannelStep, CarrierReports, ReportStep, FindMessage, GetByCarrierID, FindNothing, ApplyReport,
         ApplyFails, NotifyReport

LEMMA NextUsesTheChannel ==
    ASSUME [Next]_vars
    PROVE  [C!CallbacksNext]_(C!callbackVars)
  <1> USE DEF channel, C!callbackVars
  <1>1. ASSUME NEW h \in Messages \cup Reports, ChannelStep(h) PROVE C!CallbacksNext
    BY <1>1 DEF ChannelStep, C!CallbacksNext
  <1>2. ASSUME NEW m \in Messages, Begin(m) \/ SendStep(m) \/ ClientLeaves(m)
        PROVE  [C!CallbacksNext]_(C!callbackVars)
    BY <1>1, <1>2, SendsUseTheChannel
  <1>3. ASSUME NEW d \in Reports, CarrierReports(d) \/ ReportStep(d)
        PROVE  [C!CallbacksNext]_(C!callbackVars)
    BY <1>1, <1>3, ReportsUseTheChannel
  <1>4. CASE Background \/ Exit
    BY <1>4 DEF Background, Exit, C!CallbacksNext, C!StopStep
  <1>5. CASE UNCHANGED vars
    BY <1>5 DEF vars
  <1> QED
    BY <1>2, <1>3, <1>4, <1>5 DEF Next

\* Sends and reports use the callback channel as handlers of Callbacks do: whatever
\* holds of the channel there holds here, with Send and HandleDeliveryReport in full
\* (service.go, enqueueCallback as the last step of either).
THEOREM SmsImplementsCallbacks == Spec => C!CallbacksSpec
  <1>1. Init => C!CallbacksInit
    BY DEF Init
  <1>2. [Next]_vars => [C!CallbacksNext]_(C!callbackVars)
    BY NextUsesTheChannel
  <1> QED
    BY <1>1, <1>2, PTL DEF Spec, C!CallbacksSpec

LEMMA SameChannel ==
    /\ C!CallbacksTypeOK <=> CP!CallbacksTypeOK
    /\ C!CallbacksInit <=> CP!CallbacksInit
    /\ [C!CallbacksNext]_(C!callbackVars) <=> [CP!CallbacksNext]_(CP!callbackVars)
  <1>1. C!CallbacksTypeOK <=> CP!CallbacksTypeOK
    BY DEF C!CallbacksTypeOK, CP!CallbacksTypeOK, C!CallbackStates, CP!CallbackStates
  <1>2. C!CallbacksInit <=> CP!CallbacksInit
    BY DEF C!CallbacksInit, CP!CallbacksInit
  <1>3. ASSUME NEW h
        PROVE  /\ C!Start(h) <=> CP!Start(h)
               /\ C!Quit(h) <=> CP!Quit(h)
               /\ C!Offer(h) <=> CP!Offer(h)
    BY DEF C!Start, CP!Start, C!Quit, CP!Quit, C!Offer, CP!Offer, C!Enqueue, CP!Enqueue,
           C!Drop, CP!Drop, C!Panic, CP!Panic, C!Becomes, CP!Becomes
  <1>4. ASSUME NEW w PROVE C!WorkerStep(w) <=> CP!WorkerStep(w)
    BY DEF C!WorkerStep, CP!WorkerStep, C!Take, CP!Take, C!Post, CP!Post, C!Leave, CP!Leave,
           C!Becomes, CP!Becomes
  <1>5. (C!Shutdown <=> CP!Shutdown) /\ (C!StopStep <=> CP!StopStep)
    BY DEF C!Shutdown, CP!Shutdown, C!StopStep, CP!StopStep, C!Close, CP!Close,
           C!Exit, CP!Exit, C!Serving, CP!Serving
  <1>6. C!CallbacksNext <=> CP!CallbacksNext
    BY <1>3, <1>4, <1>5 DEF C!CallbacksNext, CP!CallbacksNext
  <1>7. C!callbackVars = CP!callbackVars /\ (UNCHANGED C!callbackVars <=> UNCHANGED CP!callbackVars)
    BY DEF C!callbackVars, CP!callbackVars
  <1> QED
    BY <1>1, <1>2, <1>6, <1>7

\* The channel's own invariants go over to SmsService.
LEMMA ChannelKept ==
    ASSUME C!CallbacksTypeOK, CP!HeldInOnePlace, [Next]_vars
    PROVE  /\ C!CallbacksTypeOK' /\ CP!HeldInOnePlace'
           /\ \A m \in Messages : callback[m] = "panicked" => callback'[m] = "panicked"
  <1>1. [CP!CallbacksNext]_(CP!callbackVars) /\ CP!CallbacksTypeOK
    BY NextUsesTheChannel, SameChannel
  <1>2. CP!CallbacksTypeOK'
    BY <1>1, ChannelAssumption, CP!CallbacksTypesKept
  <1>3. CP!HeldInOnePlace'
    BY <1>1, ChannelAssumption, CP!HeldInductive
  <1>4. C!CallbacksTypeOK'
    BY <1>2 DEF C!CallbacksTypeOK, CP!CallbacksTypeOK, C!CallbackStates, CP!CallbackStates
  <1>5. \A m \in Messages : callback[m] = "panicked" => callback'[m] = "panicked"
    BY <1>1, ChannelAssumption, CP!PanickedStays
  <1> QED
    BY <1>3, <1>4, <1>5

LEMMA ChannelInit ==
    ASSUME Init
    PROVE  C!CallbacksTypeOK /\ CP!HeldInOnePlace
  <1>1. C!CallbacksInit
    BY DEF Init
  <1>2. CP!HeldInOnePlace
    BY <1>1, SameChannel, ChannelAssumption, CP!HeldInit
  <1>3. C!CallbacksTypeOK
    BY <1>1, SmsAssumption DEF C!CallbacksInit, C!CallbacksTypeOK, C!CallbackStates
  <1> QED
    BY <1>2, <1>3

-----------------------------------------------------------------------------
(* The wallet.                                                             *)

WalletStep(m) == W!Charge(m) \/ W!Deny(m) \/ W!Fail(m) \/ W!Refund(m)

\* A Send changes balances and charges only as the wallet does for its own message.
LEMMA SendsUseTheWallet ==
    ASSUME NEW m \in Messages, Begin(m) \/ SendStep(m) \/ ClientLeaves(m)
    PROVE  WalletStep(m) \/ UNCHANGED wallet
  <1>1. CASE Begin(m) \/ ClientLeaves(m)
    BY <1>1 DEF Begin, ClientLeaves
  <1>2. CASE DeductBalance(m)
    BY <1>2 DEF DeductBalance, WalletStep
  <1>3. CASE RefundAfterCreate(m) \/ RefundFailed(m) \/ RefundRejected(m)
    BY <1>3 DEF RefundAfterCreate, RefundFailed, RefundRejected, RefundIgnoringErrors, WalletStep
  <1>4. CASE Reject(m) \/ Create(m) \/ Dispatch(m) \/ StoreFailed(m) \/ StoreResult(m)
             \/ StoreCarrierId(m) \/ Notify(m)
    BY <1>4 DEF Reject, Create, Dispatch, StoreFailed, StoreResult, StoreCarrierId, Notify
  <1> QED
    BY <1>1, <1>2, <1>3, <1>4 DEF SendStep

LEMMA ReportsLeaveTheWallet ==
    ASSUME NEW d \in Reports, CarrierReports(d) \/ ReportStep(d)
    PROVE  UNCHANGED wallet
  BY DEF CarrierReports, ReportStep, FindMessage, FindNothing, ApplyReport, ApplyFails, NotifyReport

\* A step of the wallet or none, as the specification of Wallet has it.
LEMMA WalletSteps ==
    ASSUME (\E m \in Messages : WalletStep(m)) \/ UNCHANGED wallet
    PROVE  [W!Next]_(W!walletVars)
  BY DEF WalletStep, W!Next, W!walletVars, wallet

LEMMA WalletInit == ASSUME Init PROVE W!Init
  <1>1. <<>> = [q \in {} |-> Nobody]
    OBVIOUS
  <1> QED
    BY <1>1 DEF Init, W!Init

\* Sends use the wallet as its callers may: each charges its own message once at most,
\* refunds it only if it was charged, and nothing else touches a balance (service.go,
\* DeductBalance and RefundBalance), so that what holds of the wallet holds of sends.
THEOREM SmsUsesTheWallet == Spec => W!Spec
  <1>1. [Next]_vars => [W!Next]_(W!walletVars)
    <2>1. ASSUME [Next]_vars PROVE (\E m \in Messages : WalletStep(m)) \/ UNCHANGED wallet
      <3>1. ASSUME NEW m \in Messages, Begin(m) \/ SendStep(m) \/ ClientLeaves(m)
            PROVE  (\E x \in Messages : WalletStep(x)) \/ UNCHANGED wallet
        BY <3>1, SendsUseTheWallet
      <3>2. ASSUME NEW d \in Reports, CarrierReports(d) \/ ReportStep(d) PROVE UNCHANGED wallet
        BY <3>2, ReportsLeaveTheWallet
      <3>3. CASE Background \/ Exit \/ UNCHANGED vars
        BY <3>3 DEF Background, Exit, vars, wallet
      <3> QED
        BY <2>1, <3>1, <3>2, <3>3 DEF Next
    <2> QED
      BY <2>1, WalletSteps
  <1> QED
    BY <1>1, WalletInit, PTL DEF Spec, W!Spec

-----------------------------------------------------------------------------
(* Types.                                                                  *)

\* TypeOK without the channel.
SendTypes ==
    /\ balance \in [Accounts -> Int]
    /\ status \in [Messages -> {"new", "charged", "denied", "failed", "refunded"}]
    /\ pc \in [Messages -> SendStates]
    /\ cancelled \in [Messages -> BOOLEAN]
    /\ outcome \in [Messages -> {"none", "invalid", "insufficient", "error", "sent", "failed"}]
    /\ doc \in [Messages -> [status : Statuses \cup {"none"}, carrierId : BOOLEAN]]
    /\ accepted \in SUBSET Messages
    /\ result \in [Messages -> {"none", "sent", "unidentified", "failed", "error"}]
    /\ report \in [Reports -> {"none", "sent", "found", "notify", "applied", "lost", "dead"}]

LEMMA WalletTypes ==
    ASSUME SendTypes, NEW m \in Messages,
           W!Charge(m) \/ W!Deny(m) \/ W!Fail(m) \/ W!Refund(m) \/ UNCHANGED wallet
    PROVE  /\ balance' \in [Accounts -> Int]
           /\ status' \in [Messages -> {"new", "charged", "denied", "failed", "refunded"}]
           /\ \A x \in Messages : x # m => status'[x] = status[x]
  <1>1. Owner[m] \in Accounts /\ Cost[m] \in Int /\ balance[Owner[m]] \in Int
    BY SmsAssumption DEF SendTypes
  <1> QED
    BY <1>1 DEF SendTypes, W!Charge, W!Deny, W!Fail, W!Refund, wallet

LEMMA DocTypes ==
    ASSUME SendTypes, NEW m \in Messages, NEW s \in Statuses,
           \/ doc' = [doc EXCEPT ![m].status = s]
           \/ doc' = [doc EXCEPT ![m].carrierId = TRUE]
           \/ UNCHANGED doc
    PROVE  /\ doc' \in [Messages -> [status : Statuses \cup {"none"}, carrierId : BOOLEAN]]
           /\ \A x \in Messages : x # m => doc'[x] = doc[x]
  BY DEF SendTypes

\* What a step of a Send leaves alone.
OthersKept(m) ==
    /\ UNCHANGED report
    /\ \A x \in Messages : x # m =>
          /\ pc'[x] = pc[x] /\ cancelled'[x] = cancelled[x] /\ outcome'[x] = outcome[x]
          /\ status'[x] = status[x] /\ result'[x] = result[x] /\ doc'[x] = doc[x]
          /\ x \in accepted' <=> x \in accepted

LEMMA SendStepTypes ==
    ASSUME SendTypes, NEW m \in Messages, Begin(m) \/ SendStep(m) \/ ClientLeaves(m),
           pc[m] \in {"store", "notify"} => result[m] \in {"sent", "unidentified", "failed"}
    PROVE  SendTypes' /\ OthersKept(m)
  <1> USE DEF Goto, Answer, SendStates, OthersKept
  <1>0. /\ pc[m] \in {"store", "notify"} => StatusOf(result[m]) \in {"sent", "failed"}
        /\ {"queued", "failed", "sent"} \subseteq Statuses
    BY DEF StatusOf, Statuses
  <1>1. CASE Begin(m) \/ ClientLeaves(m)
    BY <1>1 DEF Begin, ClientLeaves, SendTypes, wallet, documents
  <1>2. CASE Reject(m)
    BY <1>2 DEF Reject, SendTypes, wallet, documents
  <1>3. CASE DeductBalance(m)
    <2>1. W!Charge(m) \/ W!Deny(m) \/ W!Fail(m)
      BY <1>3 DEF DeductBalance
    <2>2. PICK where \in {"create", "returned"}, o \in {outcome[m], "insufficient", "error"} :
              pc' = [pc EXCEPT ![m] = where] /\ outcome' = [outcome EXCEPT ![m] = o]
      BY <1>3 DEF DeductBalance, SendTypes
    <2> QED
      BY <1>3, <2>1, <2>2, WalletTypes DEF DeductBalance, SendTypes, documents
  <1>4. CASE Create(m)
    <2>1. doc' = [doc EXCEPT ![m].status = "queued"] \/ UNCHANGED doc
      BY <1>4 DEF Create, InsertMessage
    <2>2. PICK where \in {"dispatch", "refundCreate"} : pc' = [pc EXCEPT ![m] = where]
      BY <1>4 DEF Create, InsertMessage
    <2>3. UNCHANGED <<wallet, cancelled, outcome, accepted, result, report>>
      BY <1>4 DEF Create, InsertMessage
    <2> QED
      BY <1>0, <2>1, <2>2, <2>3, DocTypes DEF SendTypes, wallet
  <1>5. CASE RefundAfterCreate(m) \/ RefundFailed(m) \/ RefundRejected(m)
    <2>1. W!Refund(m) \/ UNCHANGED wallet
      BY <1>5 DEF RefundAfterCreate, RefundFailed, RefundRejected, RefundIgnoringErrors
    <2>2. PICK where \in {"returned", "store"}, o \in {outcome[m], "error", "failed"} :
              pc' = [pc EXCEPT ![m] = where] /\ outcome' = [outcome EXCEPT ![m] = o]
      BY <1>5 DEF RefundAfterCreate, RefundFailed, RefundRejected, SendTypes
    <2>3. UNCHANGED <<documents, cancelled, result, report>>
      BY <1>5 DEF RefundAfterCreate, RefundFailed, RefundRejected
    <2> QED
      BY <2>1, <2>2, <2>3, WalletTypes DEF SendTypes, documents
  <1>6. CASE Dispatch(m)
    <2>1. PICK r \in {"sent", "unidentified", "failed", "error"},
               where \in {"store", "refundRejected", "storeFailed"} :
              pc' = [pc EXCEPT ![m] = where] /\ result' = [result EXCEPT ![m] = r]
      BY <1>6 DEF Dispatch
    <2>2. accepted' = accepted \cup {m} \/ UNCHANGED accepted
      BY <1>6 DEF Dispatch
    <2>3. UNCHANGED <<wallet, cancelled, outcome, doc, report>>
      BY <1>6 DEF Dispatch
    <2> QED
      BY <2>1, <2>2, <2>3 DEF SendTypes, wallet
  <1>7. CASE StoreFailed(m)
    <2>1. doc' = [doc EXCEPT ![m].status = "failed"] \/ UNCHANGED doc
      BY <1>7 DEF StoreFailed, StoreStatus
    <2> QED
      BY <1>0, <1>7, <2>1, DocTypes DEF StoreFailed, SendTypes, wallet
  <1>8. CASE StoreResult(m)
    <2>1. StatusOf(result[m]) \in Statuses
      BY <1>8, <1>0 DEF StoreResult
    <2>2. doc' = [doc EXCEPT ![m].status = StatusOf(result[m])] \/ UNCHANGED doc
      BY <1>8 DEF StoreResult, StoreStatus
    <2> QED
      BY <1>8, <2>1, <2>2, DocTypes DEF StoreResult, SendTypes, wallet
  <1>9. CASE StoreCarrierId(m)
    <2>1. doc' = [doc EXCEPT ![m].carrierId = TRUE] \/ UNCHANGED doc
      BY <1>9 DEF StoreCarrierId, UpdateCarrierID
    <2> QED
      BY <1>0, <1>9, <2>1, DocTypes DEF StoreCarrierId, UpdateCarrierID, SendTypes, wallet
  <1>10. CASE Notify(m)
    <2>1. PICK o \in {"sent", "failed", "error"} : outcome' = [outcome EXCEPT ![m] = o]
      BY <1>10, <1>0 DEF Notify
    <2> QED
      BY <1>10, <2>1 DEF Notify, SendTypes, wallet, documents
  <1> QED
    BY <1>1, <1>2, <1>3, <1>4, <1>5, <1>6, <1>7, <1>8, <1>9, <1>10 DEF SendStep

LEMMA ReportStepTypes ==
    ASSUME SendTypes, NEW d \in Reports, CarrierReports(d) \/ ReportStep(d)
    PROVE  /\ SendTypes'
           /\ UNCHANGED <<wallet, pc, cancelled, outcome, accepted, result>>
           /\ \A x \in Messages : doc'[x].carrierId = doc[x].carrierId
           /\ \A x \in Messages : x # ReportOn[d] => doc'[x] = doc[x]
           /\ \A e \in Reports : e # d => report'[e] = report[e]
           /\ report'[d] # "none"
  <1>0. ReportOn[d] \in Messages /\ ReportStatus[d] \in Statuses
    BY SmsAssumption
  <1>1. PICK s \in {"sent", "found", "notify", "applied", "lost"} : report' = [report EXCEPT ![d] = s]
    BY DEF CarrierReports, ReportStep, FindMessage, GetByCarrierID, FindNothing, ApplyReport,
           ApplyFails,
           NotifyReport
  <1>2. UNCHANGED doc \/ doc' = [doc EXCEPT ![ReportOn[d]].status = ReportStatus[d]]
    BY DEF CarrierReports, ReportStep, FindMessage, GetByCarrierID, FindNothing, ApplyReport,
           ApplyFails,
           NotifyReport, documents
  <1>3. UNCHANGED <<wallet, pc, cancelled, outcome, accepted, result>>
    BY DEF CarrierReports, ReportStep, FindMessage, GetByCarrierID, FindNothing, ApplyReport,
           ApplyFails,
           NotifyReport, documents
  <1>4. /\ doc' \in [Messages -> [status : Statuses \cup {"none"}, carrierId : BOOLEAN]]
        /\ \A x \in Messages : doc'[x].carrierId = doc[x].carrierId
    <2>1. doc' \in [Messages -> [status : Statuses \cup {"none"}, carrierId : BOOLEAN]]
      BY <1>0, <1>2 DEF SendTypes
    <2>2. ASSUME NEW x \in Messages PROVE doc'[x].carrierId = doc[x].carrierId
      <3>1. doc[x] \in [status : Statuses \cup {"none"}, carrierId : BOOLEAN]
        BY DEF SendTypes
      <3>2. doc'[x] = doc[x] \/ doc'[x] = [doc[x] EXCEPT !.status = ReportStatus[d]]
        BY <1>0, <1>2 DEF SendTypes
      <3> QED
        BY <3>1, <3>2
    <2> QED
      BY <2>1, <2>2
  <1>5. \A x \in Messages : x # ReportOn[d] => doc'[x] = doc[x]
    BY <1>0, <1>2 DEF SendTypes
  <1>6. report'[d] # "none" /\ \A e \in Reports : e # d => report'[e] = report[e]
    BY <1>1 DEF SendTypes
  <1> QED
    BY <1>1, <1>3, <1>4, <1>5, <1>6 DEF SendTypes, wallet

LEMMA EndTypes ==
    ASSUME SendTypes, Background \/ Exit \/ UNCHANGED vars
    PROVE  /\ SendTypes'
           /\ UNCHANGED <<wallet, cancelled, outcome, doc, accepted, result>>
           /\ \A x \in Messages : pc'[x] = pc[x] \/ (InSend(x) /\ pc'[x] = "dead")
           /\ \A d \in Reports : report'[d] \in {report[d], "dead"}
  <1>1. CASE Background \/ UNCHANGED vars
    BY <1>1 DEF Background, vars, wallet, documents, SendTypes
  <1>2. CASE Exit
    <2>1. /\ UNCHANGED <<wallet, cancelled, outcome, doc, accepted, result>>
          /\ \A x \in Messages : pc'[x] = pc[x] \/ (InSend(x) /\ pc'[x] = "dead")
          /\ \A d \in Reports : report'[d] \in {report[d], "dead"}
      BY <1>2 DEF Exit, documents
    <2>2. pc' \in [Messages -> SendStates]
      BY <1>2 DEF Exit, SendTypes, SendStates
    <2>3. report' \in [Reports -> {"none", "sent", "found", "notify", "applied", "lost", "dead"}]
      BY <1>2 DEF Exit, SendTypes
    <2> QED
      BY <2>1, <2>2, <2>3 DEF SendTypes, wallet
  <1> QED
    BY <1>1, <1>2

-----------------------------------------------------------------------------
(* Where a Send stands, what was paid, and what the carrier has.           *)

\* The path of one Send: nothing is paid before the deduction; from there to Dispatch
\* it is paid and not carried; afterwards the result says who has what.
Path(m) ==
    /\ pc[m] \in {"idle", "deduct"} => status[m] = "new" /\ result[m] = "none" /\ m \notin accepted
    /\ pc[m] \in {"create", "refundCreate", "dispatch"} =>
          status[m] = "charged" /\ result[m] = "none" /\ m \notin accepted
    /\ pc[m] \in {"storeFailed", "refundFailed"} => status[m] = "charged" /\ result[m] = "error"
    /\ pc[m] = "refundRejected" => status[m] = "charged" /\ result[m] = "failed"
    /\ pc[m] \in {"store", "notify"} => result[m] \in {"sent", "unidentified", "failed"}
    /\ pc[m] = "storeId" => result[m] = "sent"
    /\ m \in accepted => result[m] # "none" /\ status[m] \in {"charged", "refunded"}
    /\ result[m] \in {"sent", "unidentified"} => m \in accepted /\ status[m] = "charged"
    /\ pc[m] = "returned" /\ result[m] \in {"sent", "unidentified"} =>
          outcome[m] = "sent" \/ (outcome[m] = "error" /\ callback[m] = "panicked")

\* A Send that gave nothing to the carrier, to its knowledge, has given the money back.
Refunded(m) ==
    /\ pc[m] = "returned" \/ (pc[m] \in {"store", "notify"} /\ result[m] = "failed")
    /\ result[m] \notin {"sent", "unidentified"}
    /\ ~cancelled[m]
    => status[m] # "charged"

BillingAnswers == "billingError" \notin Faults

SmsInv ==
    /\ SendTypes /\ C!CallbacksTypeOK /\ CP!HeldInOnePlace
    /\ \A m \in Messages : Path(m)

LEMMA InitPath ==
    ASSUME Init
    PROVE  SmsInv /\ \A m \in Messages : Refunded(m)
  <1>1. SendTypes
    BY SmsAssumption DEF Init, SendTypes, SendStates, NoDocument
  <1> QED
    BY <1>1, ChannelInit DEF Init, SmsInv, Path, Refunded

\* A step of a Send keeps to its path.
LEMMA SendStepPath ==
    ASSUME SmsInv, NEW m \in Messages, Begin(m) \/ SendStep(m) \/ ClientLeaves(m),
           callback[m] = "panicked" => callback'[m] = "panicked"
    PROVE  Path(m)'
  <1> USE DEF Goto, Answer
  <1>0. SendTypes /\ Path(m)
    BY DEF SmsInv
  <1>1. CASE Begin(m)
    BY <1>0, <1>1 DEF Begin, Path, SendTypes, wallet, documents
  <1>2. CASE ClientLeaves(m)
    BY <1>0, <1>2 DEF ClientLeaves, Path, SendTypes, wallet, documents, channel
  <1>3. CASE Reject(m)
    BY <1>0, <1>3 DEF Reject, Path, SendTypes, wallet, documents
  <1>4. CASE DeductBalance(m)
    <2>1. status[m] = "new" /\ result[m] = "none" /\ m \notin accepted
      BY <1>0, <1>4 DEF DeductBalance, Path
    <2>2. \/ pc'[m] = "create" /\ status'[m] = "charged"
          \/ pc'[m] = "returned"
      BY <1>0, <1>4 DEF DeductBalance, SendTypes, W!Charge
    <2>3. UNCHANGED <<accepted, result>>
      BY <1>4 DEF DeductBalance, documents
    <2> QED
      BY <2>1, <2>2, <2>3 DEF Path
  <1>5. CASE Create(m)
    <2>1. pc'[m] \in {"dispatch", "refundCreate"} /\ pc[m] = "create"
      BY <1>0, <1>5 DEF Create, InsertMessage, SendTypes
    <2>2. UNCHANGED <<status, accepted, result>>
      BY <1>5 DEF Create, InsertMessage, wallet
    <2> QED
      BY <1>0, <2>1, <2>2 DEF Path
  <1>6. CASE RefundAfterCreate(m)
    BY <1>0, <1>6 DEF RefundAfterCreate, Path, SendTypes, documents
  <1>7. CASE Dispatch(m)
    BY <1>0, <1>7 DEF Dispatch, Path, SendTypes, wallet
  <1>8. CASE StoreFailed(m)
    BY <1>0, <1>8 DEF StoreFailed, Path, SendTypes, wallet
  <1>9. CASE RefundFailed(m)
    <2>1. status'[m] \in {"charged", "refunded"}
      BY <1>0, <1>9 DEF RefundFailed, RefundIgnoringErrors, Path, SendTypes, W!Refund, wallet
    <2> QED
      BY <1>0, <1>9, <2>1 DEF RefundFailed, Path, SendTypes, documents
  <1>10. CASE RefundRejected(m)
    <2>1. status'[m] \in {"charged", "refunded"} /\ result[m] = "failed"
      BY <1>0, <1>10 DEF RefundRejected, RefundIgnoringErrors, Path, SendTypes, W!Refund, wallet
    <2> QED
      BY <1>0, <1>10, <2>1 DEF RefundRejected, Path, SendTypes, documents
  <1>11. CASE StoreResult(m)
    BY <1>0, <1>11 DEF StoreResult, Path, SendTypes, wallet
  <1>12. CASE StoreCarrierId(m)
    BY <1>0, <1>12 DEF StoreCarrierId, UpdateCarrierID, Path, SendTypes, wallet
  <1>13. CASE Notify(m)
    <2>1. pc[m] = "notify" /\ pc'[m] = "returned" /\ UNCHANGED <<status, accepted, result>>
      BY <1>0, <1>13 DEF Notify, SendTypes, wallet, documents
    <2>2. \/ outcome'[m] = StatusOf(result[m])
          \/ outcome'[m] = "error" /\ ~open /\ C!Offer(m)
      BY <1>0, <1>13 DEF Notify, SendTypes
    <2>3. ~open /\ C!Offer(m) => callback'[m] = "panicked"
      BY DEF SmsInv, C!CallbacksTypeOK, C!Offer, C!Enqueue, C!Drop, C!Panic, C!Becomes
    <2> QED
      BY <1>0, <2>1, <2>2, <2>3 DEF Path, StatusOf
  <1> QED
    BY <1>1, <1>2, <1>3, <1>4, <1>5, <1>6, <1>7, <1>8, <1>9, <1>10, <1>11, <1>12, <1>13 DEF SendStep

LEMMA NextPath ==
    ASSUME SmsInv, [Next]_vars
    PROVE  SmsInv'
  <1> DEFINE Panics(m) == callback[m] = "panicked" => callback'[m] = "panicked"
  <1>0. /\ C!CallbacksTypeOK' /\ CP!HeldInOnePlace'
        /\ \A m \in Messages : Panics(m)
    BY ChannelKept DEF SmsInv
  <1>1. ASSUME NEW m \in Messages, Begin(m) \/ SendStep(m) \/ ClientLeaves(m) PROVE SmsInv'
    <2>1. SendTypes' /\ OthersKept(m)
      BY <1>1, SendStepTypes DEF SmsInv, Path
    <2>2. Path(m)'
      BY <1>0, <1>1, SendStepPath
    <2>3. ASSUME NEW x \in Messages, x # m PROVE Path(x)'
      BY <1>0, <2>1, <2>3 DEF SmsInv, OthersKept, Path
    <2> QED
      BY <1>0, <2>1, <2>2, <2>3 DEF SmsInv
  <1>2. ASSUME NEW d \in Reports, CarrierReports(d) \/ ReportStep(d) PROVE SmsInv'
    <2>1. SendTypes' /\ UNCHANGED <<wallet, pc, cancelled, outcome, accepted, result>>
      BY <1>2, ReportStepTypes DEF SmsInv
    <2> QED
      BY <1>0, <2>1 DEF SmsInv, Path, wallet
  <1>3. CASE Background \/ Exit \/ UNCHANGED vars
    <2>1. /\ SendTypes'
          /\ UNCHANGED <<wallet, cancelled, outcome, doc, accepted, result>>
          /\ \A x \in Messages : pc'[x] \in {pc[x], "dead"}
      BY <1>3, EndTypes DEF SmsInv
    <2> QED
      BY <1>0, <2>1 DEF SmsInv, Path, wallet
  <1> QED
    BY <1>1, <1>2, <1>3 DEF Next

\* Where every refund succeeds, or fails only because the client has gone.
LEMMA SendStepRefunds ==
    ASSUME BillingAnswers, SmsInv, NEW m \in Messages, Refunded(m),
           Begin(m) \/ SendStep(m) \/ ClientLeaves(m)
    PROVE  Refunded(m)'
  <1> USE DEF Goto, Answer
  <1>0. SendTypes /\ Path(m)
    BY DEF SmsInv
  <1>1. CASE Begin(m) \/ Reject(m) \/ ClientLeaves(m)
    BY <1>0, <1>1 DEF Begin, Reject, ClientLeaves, Path, Refunded, SendTypes, wallet, documents
  <1>2. CASE DeductBalance(m)
    <2>1. \/ pc'[m] = "create"
          \/ pc'[m] = "returned" /\ status'[m] \in {"denied", "failed"}
      BY <1>0, <1>2 DEF DeductBalance, SendTypes, W!Deny, W!Fail
    <2> QED
      BY <2>1 DEF Refunded
  <1>3. CASE Create(m)
    BY <1>0, <1>3 DEF Create, InsertMessage, Refunded, SendTypes
  <1>4. CASE RefundAfterCreate(m) \/ RefundFailed(m) \/ RefundRejected(m)
    <2>1. cancelled[m] \/ status'[m] = "refunded"
      BY <1>0, <1>4
         DEF RefundAfterCreate, RefundFailed, RefundRejected, RefundIgnoringErrors, MayFail,
             BillingAnswers, SendTypes, W!Refund
    <2>2. UNCHANGED cancelled
      BY <1>4 DEF RefundAfterCreate, RefundFailed, RefundRejected
    <2> QED
      BY <2>1, <2>2 DEF Refunded
  <1>5. CASE Dispatch(m)
    <2>1. pc'[m] = "store" => result'[m] \in {"sent", "unidentified"}
      BY <1>0, <1>5 DEF Dispatch, SendTypes
    <2>2. pc'[m] \notin {"returned", "notify"}
      BY <1>0, <1>5 DEF Dispatch, SendTypes
    <2> QED
      BY <2>1, <2>2 DEF Refunded
  <1>6. CASE StoreFailed(m)
    BY <1>0, <1>6 DEF StoreFailed, Refunded, SendTypes
  <1>7. CASE StoreResult(m)
    <2>1. pc[m] = "store" /\ UNCHANGED <<status, cancelled, result>>
      BY <1>7 DEF StoreResult, wallet
    <2>2. result[m] \in {"sent", "unidentified", "failed"}
      BY <1>0, <2>1 DEF Path
    <2> QED
      BY <2>1, <2>2 DEF Refunded
  <1>8. CASE StoreCarrierId(m)
    BY <1>0, <1>8 DEF StoreCarrierId, UpdateCarrierID, Path, Refunded, wallet
  <1>9. CASE Notify(m)
    <2>1. pc[m] = "notify" /\ UNCHANGED <<status, cancelled, result>>
      BY <1>9 DEF Notify, wallet
    <2>2. result[m] \in {"sent", "unidentified", "failed"}
      BY <1>0, <2>1 DEF Path
    <2> QED
      BY <2>1, <2>2 DEF Refunded
  <1> QED
    BY <1>1, <1>2, <1>3, <1>4, <1>5, <1>6, <1>7, <1>8, <1>9 DEF SendStep

LEMMA NextRefunds ==
    ASSUME BillingAnswers, SmsInv, \A m \in Messages : Refunded(m), [Next]_vars
    PROVE  \A m \in Messages : Refunded(m)'
  <1>1. ASSUME NEW m \in Messages, Begin(m) \/ SendStep(m) \/ ClientLeaves(m)
        PROVE  \A x \in Messages : Refunded(x)'
    <2>1. OthersKept(m)
      BY <1>1, SendStepTypes DEF SmsInv, Path
    <2>2. Refunded(m)'
      BY <1>1, SendStepRefunds
    <2>3. ASSUME NEW x \in Messages, x # m PROVE Refunded(x)'
      BY <2>1, <2>3 DEF OthersKept, Refunded
    <2> QED
      BY <2>2, <2>3
  <1>2. ASSUME NEW d \in Reports, CarrierReports(d) \/ ReportStep(d)
        PROVE  \A x \in Messages : Refunded(x)'
    BY <1>2, ReportStepTypes DEF SmsInv, Refunded, wallet
  <1>3. CASE Background \/ Exit \/ UNCHANGED vars
    BY <1>3, EndTypes DEF SmsInv, Refunded, wallet
  <1> QED
    BY <1>1, <1>2, <1>3 DEF Next

-----------------------------------------------------------------------------
(* The theorems.                                                           *)

LEMMA InvariantHolds == Spec => []SmsInv
  <1>1. Init => SmsInv
    BY InitPath
  <1>2. SmsInv /\ [Next]_vars => SmsInv'
    BY NextPath
  <1> QED
    BY <1>1, <1>2, PTL DEF Spec

\* Every store, every answer and the callback channel hold values of their types,
\* for any number of messages, reports and workers.
THEOREM SmsTypeCorrect == Spec => []TypeOK
  <1>1. SmsInv => TypeOK
    BY DEF SmsInv, SendTypes, TypeOK
  <1> QED
    BY <1>1, InvariantHolds, PTL

\* Whichever calls fail, whoever leaves and whenever the process stops, Send never gives the
\* carrier a message that the billing engine did not report as paid (DeductBalance, then
\* Dispatch).
THEOREM NothingIsCarriedForFree == Spec => []CarriedWasCharged
  <1>1. SmsInv => CarriedWasCharged
    BY DEF SmsInv, SendTypes, Path, CarriedWasCharged
  <1> QED
    BY <1>1, InvariantHolds, PTL

\* Every refund Send asks for is of a charge that was made and not yet refunded: the
\* engine, which does not look, never credits money that was not taken.
THEOREM EveryRefundIsOwed == Spec => []RefundIsOwed
  <1>1. SmsInv => RefundIsOwed
    BY DEF SmsInv, Path, RefundIsOwed
  <1> QED
    BY <1>1, InvariantHolds, PTL

\* Where the billing engine answers, a client that waited has paid for exactly the
\* messages the carrier took (Send's deduction and its three refunds).
THEOREM ClientsPayForWhatIsCarried ==
    ASSUME BillingAnswers
    PROVE  Spec => []PaidIffCarried
  <1> DEFINE AllRefunded == \A m \in Messages : Refunded(m)
  <1>1. SmsInv /\ AllRefunded => PaidIffCarried
    BY DEF SmsInv, Path, Refunded, PaidIffCarried
  <1>2. SmsInv /\ AllRefunded /\ [Next]_vars => AllRefunded'
    BY NextRefunds
  <1>3. Init => AllRefunded
    BY InitPath
  <1> QED
    BY <1>1, <1>2, <1>3, InvariantHolds, PTL DEF Spec

\* The messages of an account that are paid for, and that the carrier took; and their
\* price in micro-units, counted one by one so that no induction is needed.
ChargedOf(a) == {m \in Messages : Owner[m] = a /\ status[m] = "charged"}
CarriedOf(a) == {m \in accepted : Owner[m] = a}
Units(S) == UNION {{m} \X (1..Cost[m]) : m \in S}
Price(S) == Cardinality(Units(S))

\* The wallet's books: a balance is what is left of the opening one.
Books ==
    /\ \A m \in Messages : status[m] = "charged" => Cost[m] > 0
    /\ \A a \in Accounts : /\ IsFiniteSet(Units(ChargedOf(a)))
                           /\ balance[a] = Opening[a] - Price(ChargedOf(a))

LEMMA PriceOfOneMore ==
    ASSUME NEW S, IsFiniteSet(Units(S)), NEW m, m \notin S, Cost[m] \in Nat
    PROVE  /\ IsFiniteSet(Units(S \cup {m}))
           /\ Price(S) \in Nat
           /\ Price(S \cup {m}) = Price(S) + Cost[m]
  <1> DEFINE one == {m}
             interval == 1..Cost[m]
             new == one \X interval
             old == Units(S)
  <1>1. Units(S \cup {m}) = old \cup new
    BY DEF Units
  <1>2. old \cap new = {}
    BY DEF Units
  <1>3. IsFiniteSet(one) /\ Cardinality(one) = 1
    BY FS_Singleton
  <1>4. IsFiniteSet(interval) /\ Cardinality(interval) = Cost[m]
    BY FS_Interval
  <1>5. Price(S) = Cardinality(old) /\ Price(S \cup {m}) = Cardinality(Units(S \cup {m}))
    BY DEF Price
  <1> HIDE DEF one, interval, old
  <1>6. IsFiniteSet(new) /\ Cardinality(new) = 1 * Cost[m]
    BY <1>3, <1>4, FS_Product
  <1>7. Cardinality(old \cap new) = 0
    BY <1>2, FS_EmptySet
  <1>8. IsFiniteSet(old)
    BY DEF old
  <1> HIDE DEF new
  <1>9. /\ IsFiniteSet(old \cup new)
        /\ Cardinality(old \cup new) = Cardinality(old) + Cardinality(new) - Cardinality(old \cap new)
    BY <1>6, <1>8, FS_Union
  <1>10. Cardinality(old) \in Nat
    BY <1>8, FS_CardinalityType
  <1>11. Cardinality(new) = Cost[m]
    BY <1>6
  <1>12. Cardinality(old \cup new) = Cardinality(old) + Cost[m]
    BY <1>7, <1>9, <1>10, <1>11
  <1>13. IsFiniteSet(Units(S \cup {m}))
    BY <1>1, <1>9
  <1>14. Price(S \cup {m}) = Price(S) + Cost[m]
    BY <1>1, <1>5, <1>12
  <1> QED
    BY <1>5, <1>10, <1>13, <1>14

LEMMA BooksInit == ASSUME Init PROVE Books
  <1>1. \A a \in Accounts : Units(ChargedOf(a)) = {}
    BY DEF Init, ChargedOf, Units
  <1>2. IsFiniteSet({}) /\ Cardinality({}) = 0
    BY FS_EmptySet
  <1>3. \A a \in Accounts : balance[a] = Opening[a] - 0
    BY SmsAssumption DEF Init
  <1> QED
    BY <1>1, <1>2, <1>3, SmsAssumption DEF Init, Books, Price

LEMMA BooksKept ==
    ASSUME SendTypes, Books, [W!Next]_(W!walletVars)
    PROVE  Books'
  <1>0. /\ balance \in [Accounts -> Int] /\ status \in [Messages -> {"new", "charged", "denied", "failed", "refunded"}]
        /\ \A m \in Messages : Owner[m] \in Accounts /\ Cost[m] \in Int
        /\ \A a \in Accounts : Opening[a] \in Int
    BY SmsAssumption DEF SendTypes
  <1>1. ASSUME NEW m \in Messages, W!Charge(m) PROVE Books'
    <2> DEFINE o == Owner[m]
    <2>1. /\ status[m] = "new" /\ Cost[m] > 0 /\ Cost[m] <= balance[o]
          /\ balance' = [balance EXCEPT ![o] = @ - Cost[m]]
          /\ status' = [status EXCEPT ![m] = "charged"]
      BY <1>1 DEF W!Charge
    <2>2. m \notin ChargedOf(o) /\ ChargedOf(o)' = ChargedOf(o) \cup {m}
      BY <1>0, <2>1 DEF ChargedOf
    <2>3. \A a \in Accounts : a # o => ChargedOf(a)' = ChargedOf(a) /\ balance'[a] = balance[a]
      BY <1>0, <2>1 DEF ChargedOf
    <2>4. /\ IsFiniteSet(Units(ChargedOf(o)'))
          /\ Price(ChargedOf(o)) \in Nat
          /\ Price(ChargedOf(o)') = Price(ChargedOf(o)) + Cost[m]
      <3>1. IsFiniteSet(Units(ChargedOf(o))) /\ Cost[m] \in Nat
        BY <1>0, <2>1 DEF Books
      <3>2. /\ IsFiniteSet(Units(ChargedOf(o) \cup {m}))
            /\ Price(ChargedOf(o)) \in Nat
            /\ Price(ChargedOf(o) \cup {m}) = Price(ChargedOf(o)) + Cost[m]
        BY <2>2, <3>1, PriceOfOneMore
      <3> QED
        BY <2>2, <3>2
    <2>5. balance'[o] = balance[o] - Cost[m]
      BY <1>0, <2>1
    <2>6. \A x \in Messages : status'[x] = "charged" => Cost[x] > 0
      BY <1>0, <2>1 DEF Books
    <2>7. ASSUME NEW a \in Accounts
          PROVE  /\ IsFiniteSet(Units(ChargedOf(a)'))
                 /\ balance'[a] = Opening[a] - Price(ChargedOf(a)')
      <3>1. CASE a = o
        <4>1. /\ balance[o] = Opening[o] - Price(ChargedOf(o)) /\ balance[o] \in Int
              /\ Opening[o] \in Int /\ Cost[m] \in Int /\ Cost[m] <= balance[o]
          BY <1>0, <2>1 DEF Books
        <4> QED
          BY <2>4, <2>5, <3>1, <4>1
      <3>2. CASE a # o
        BY <2>3, <3>2 DEF Books
      <3> QED
        BY <3>1, <3>2
    <2>8. \A a \in Accounts : Units(ChargedOf(a)') = Units(ChargedOf(a))' /\ Price(ChargedOf(a)') = Price(ChargedOf(a))'
      BY DEF Units, Price
    <2> QED
      BY <2>6, <2>7, <2>8 DEF Books
  <1>2. ASSUME NEW m \in Messages, W!Refund(m) PROVE Books'
    <2> DEFINE o == Owner[m]
    <2>1. /\ status[m] = "charged"
          /\ balance' = [balance EXCEPT ![o] = @ + Cost[m]]
          /\ status' = [status EXCEPT ![m] = "refunded"]
      BY <1>2 DEF W!Refund
    <2>2. m \notin ChargedOf(o)' /\ ChargedOf(o) = ChargedOf(o)' \cup {m}
      BY <1>0, <2>1 DEF ChargedOf
    <2>3. \A a \in Accounts : a # o => ChargedOf(a)' = ChargedOf(a) /\ balance'[a] = balance[a]
      BY <1>0, <2>1 DEF ChargedOf
    <2>4. Units(ChargedOf(o)') \subseteq Units(ChargedOf(o))
      BY <2>2 DEF Units
    <2>5. IsFiniteSet(Units(ChargedOf(o)'))
      BY <1>0, <2>4, FS_Subset DEF Books
    <2>6. Cost[m] > 0 /\ Cost[m] \in Nat
      BY <1>0, <2>1 DEF Books
    <2>7. /\ Price(ChargedOf(o)') \in Nat
          /\ Price(ChargedOf(o)) = Price(ChargedOf(o)') + Cost[m]
      BY <2>2, <2>5, <2>6, PriceOfOneMore
    <2>8. balance'[o] = balance[o] + Cost[m]
      BY <1>0, <2>1
    <2>9. \A x \in Messages : status'[x] = "charged" => Cost[x] > 0
      BY <1>0, <2>1 DEF Books
    <2>10. ASSUME NEW a \in Accounts
          PROVE  /\ IsFiniteSet(Units(ChargedOf(a)'))
                 /\ balance'[a] = Opening[a] - Price(ChargedOf(a)')
      <3>1. CASE a = o
        <4>1. /\ balance[o] = Opening[o] - Price(ChargedOf(o)) /\ balance[o] \in Int
          BY <1>0 DEF Books
        <4> QED
          BY <1>0, <2>5, <2>6, <2>7, <2>8, <3>1, <4>1
      <3>2. CASE a # o
        BY <2>3, <3>2 DEF Books
      <3> QED
        BY <3>1, <3>2
    <2>11. \A a \in Accounts : Units(ChargedOf(a)') = Units(ChargedOf(a))' /\ Price(ChargedOf(a)') = Price(ChargedOf(a))'
      BY DEF Units, Price
    <2> QED
      BY <2>9, <2>10, <2>11 DEF Books
  <1>3. ASSUME UNCHANGED balance,
               \A m \in Messages : status'[m] = "charged" <=> status[m] = "charged"
        PROVE  Books'
    <2>1. \A a \in Accounts : ChargedOf(a)' = ChargedOf(a)
      BY <1>3 DEF ChargedOf
    <2>2. \A a \in Accounts : Units(ChargedOf(a))' = Units(ChargedOf(a)) /\ Price(ChargedOf(a))' = Price(ChargedOf(a))
      BY <2>1 DEF Units, Price
    <2> QED
      BY <1>3, <2>2 DEF Books
  <1>4. ASSUME NEW m \in Messages, W!Deny(m) \/ W!Fail(m) PROVE Books'
    BY <1>0, <1>3, <1>4 DEF W!Deny, W!Fail
  <1>5. CASE UNCHANGED W!walletVars
    BY <1>3, <1>5 DEF W!walletVars
  <1> QED
    BY <1>1, <1>2, <1>4, <1>5 DEF W!Next

\* No send of the account is under way, every client of it stayed, and of every message
\* it took the carrier said so.
Settled(a) ==
    \A m \in Messages : Owner[m] = a =>
        /\ pc[m] \in {"idle", "returned"} /\ ~cancelled[m]
        /\ m \in accepted => result[m] \in {"sent", "unidentified"}

BooksSettle ==
    \A a \in Accounts : Settled(a) => balance[a] = Opening[a] - Price(CarriedOf(a))

\* In money, then, and over a billing engine that answers and is the wallet of the module
\* Wallet (which EngineImplementsWallet of BillingProofs says up to the account's first
\* Spoiler): once an account is settled, its balance is the opening one less the price of
\* exactly the messages the carrier took, however many sends overlapped and failed.
THEOREM AccountsSettle ==
    ASSUME BillingAnswers
    PROVE  Spec => []BooksSettle
  <1> DEFINE AllRefunded == \A m \in Messages : Refunded(m)
  <1>1. SmsInv /\ AllRefunded /\ Books => BooksSettle
    <2> SUFFICES ASSUME SmsInv, AllRefunded, Books, NEW a \in Accounts, Settled(a)
                 PROVE  ChargedOf(a) = CarriedOf(a)
      BY DEF Books, BooksSettle
    <2>1. ASSUME NEW m \in Messages, Owner[m] = a PROVE status[m] = "charged" <=> m \in accepted
      BY <2>1 DEF Settled, SmsInv, Path, Refunded
    <2>2. accepted \subseteq Messages
      BY DEF SmsInv, SendTypes
    <2> QED
      BY <2>1, <2>2 DEF ChargedOf, CarriedOf
  <1>2. SmsInv /\ AllRefunded /\ [Next]_vars => AllRefunded'
    BY NextRefunds
  <1>3. SmsInv /\ Books /\ [W!Next]_(W!walletVars) => Books'
    BY BooksKept DEF SmsInv
  <1>4. Init => AllRefunded /\ Books
    BY InitPath, BooksInit
  <1> QED
    BY <1>1, <1>2, <1>3, <1>4, InvariantHolds, SmsUsesTheWallet, PTL DEF Spec, W!Spec

\* ... and an error answer cost it nothing, unless the channel was closed under its
\* handler.
THEOREM ErrorsCostNothing ==
    ASSUME BillingAnswers
    PROVE  Spec => []ErrorsAreFree
  <1> DEFINE AllRefunded == \A m \in Messages : Refunded(m)
  <1>1. SmsInv /\ AllRefunded => ErrorsAreFree
    BY DEF SmsInv, Path, Refunded, ErrorsAreFree
  <1>2. SmsInv /\ AllRefunded /\ [Next]_vars => AllRefunded'
    BY NextRefunds
  <1>3. Init => AllRefunded
    BY InitPath
  <1> QED
    BY <1>1, <1>2, <1>3, InvariantHolds, PTL DEF Spec

-----------------------------------------------------------------------------
(* The documents.                                                          *)

\* The carrier's id is the last thing a Send stores, and a report that was found was
\* found by it.
IdIsLast ==
    /\ \A m \in Messages : doc[m].carrierId => pc[m] \in {"notify", "returned", "dead"}
    /\ \A d \in Reports :
          report[d] \in {"found", "notify", "applied"} => doc[ReportOn[d]].carrierId

LEMMA NextIdIsLast ==
    ASSUME SmsInv, IdIsLast, [Next]_vars
    PROVE  IdIsLast'
  <1>0. SendTypes /\ \A d \in Reports : ReportOn[d] \in Messages
    BY SmsAssumption DEF SmsInv
  <1>1. ASSUME NEW m \in Messages, Begin(m) \/ SendStep(m) \/ ClientLeaves(m) PROVE IdIsLast'
    <2>1. OthersKept(m)
      BY <1>1, SendStepTypes DEF SmsInv, Path
    <2>2. /\ doc[m].carrierId => doc'[m].carrierId
          /\ doc'[m].carrierId => pc'[m] \in {"notify", "returned", "dead"}
      <3> USE DEF Goto, Answer
      <3>1. CASE StoreCarrierId(m)
        BY <1>0, <3>1 DEF StoreCarrierId, UpdateCarrierID, SendTypes
      <3>2. CASE Notify(m)
        BY <1>0, <3>2 DEF Notify, IdIsLast, SendTypes, documents
      <3>3. CASE Create(m)
        BY <1>0, <3>3 DEF Create, InsertMessage, IdIsLast, SendTypes
      <3>4. CASE StoreFailed(m) \/ StoreResult(m)
        BY <1>0, <3>4 DEF StoreFailed, StoreResult, StoreStatus, IdIsLast, SendTypes
      <3>5. CASE Dispatch(m)
        BY <1>0, <3>5 DEF Dispatch, IdIsLast, SendTypes
      <3>6. CASE Begin(m) \/ Reject(m) \/ DeductBalance(m) \/ ClientLeaves(m)
                 \/ RefundAfterCreate(m) \/ RefundFailed(m) \/ RefundRejected(m)
        BY <1>0, <3>6
           DEF Begin, Reject, DeductBalance, ClientLeaves, RefundAfterCreate, RefundFailed,
               RefundRejected, IdIsLast, SendTypes, documents
      <3> QED
        BY <1>1, <3>1, <3>2, <3>3, <3>4, <3>5, <3>6 DEF SendStep
    <2> QED
      BY <1>0, <2>1, <2>2 DEF OthersKept, IdIsLast
  <1>2. ASSUME NEW d \in Reports, CarrierReports(d) \/ ReportStep(d) PROVE IdIsLast'
    <2>1. /\ UNCHANGED pc
          /\ \A x \in Messages : doc'[x].carrierId = doc[x].carrierId
          /\ \A e \in Reports : e # d => report'[e] = report[e]
      BY <1>0, <1>2, ReportStepTypes
    <2>2. report'[d] \in {"found", "notify", "applied"} => doc[ReportOn[d]].carrierId
      BY <1>0, <1>2 DEF CarrierReports, ReportStep, FindMessage, GetByCarrierID, FindNothing,
                        ApplyReport,
                        ApplyFails, NotifyReport, IdIsLast, SendTypes
    <2> QED
      BY <1>0, <2>1, <2>2 DEF IdIsLast
  <1>3. CASE Background \/ Exit \/ UNCHANGED vars
    BY <1>0, <1>3, EndTypes DEF IdIsLast
  <1> QED
    BY <1>1, <1>2, <1>3 DEF Next

\* Send never overwrites the status a delivery report has set, whatever fails and
\* however early the report comes (service.go, UpdateCarrierID after UpdateStatus).
THEOREM ReportsAreNotOverwritten == Spec => SendKeepsReports
  <1>1. Init => IdIsLast
    BY SmsAssumption DEF Init, IdIsLast, NoDocument
  <1>2. SmsInv /\ IdIsLast /\ [Next]_vars => IdIsLast'
    BY NextIdIsLast
  <1>3. SmsInv /\ IdIsLast /\ [Next]_vars
            => [\A m \in Messages : Applied(m) /\ pc'[m] # pc[m]
                    => doc'[m].status = doc[m].status]_vars
    <2> SUFFICES ASSUME SmsInv, IdIsLast, [Next]_vars, NEW x \in Messages,
                        Applied(x), pc'[x] # pc[x]
                 PROVE  doc'[x].status = doc[x].status
      OBVIOUS
    <2>0. SendTypes /\ pc[x] \in {"notify", "returned", "dead"}
      BY DEF SmsInv, IdIsLast, Applied
    <2>1. ASSUME NEW m \in Messages, Begin(m) \/ SendStep(m) \/ ClientLeaves(m)
          PROVE  doc'[x].status = doc[x].status
      <3>1. OthersKept(m)
        BY <2>1, SendStepTypes DEF SmsInv, Path
      <3>2. CASE x = m
        <4>1. Notify(m) \/ ClientLeaves(m)
          BY <2>0, <2>1, <3>2
             DEF SendStep, Begin, Reject, DeductBalance, Create, InsertMessage, RefundAfterCreate,
                 Dispatch,
                 StoreFailed, RefundFailed, RefundRejected, StoreResult, StoreCarrierId, UpdateCarrierID
        <4> QED
          BY <4>1 DEF Notify, ClientLeaves, documents
      <3> QED
        BY <3>1, <3>2 DEF OthersKept
    <2>2. ASSUME NEW d \in Reports, CarrierReports(d) \/ ReportStep(d)
          PROVE  doc'[x].status = doc[x].status
      BY <2>0, <2>2, ReportStepTypes
    <2>3. CASE Background \/ Exit \/ UNCHANGED vars
      BY <2>0, <2>3, EndTypes
    <2> QED
      BY <2>1, <2>2, <2>3 DEF Next
  <1> QED
    BY <1>1, <1>2, <1>3, InvariantHolds, PTL DEF Spec, SendKeepsReports

MongoAnswers == "mongoError" \notin Faults

Unreported(m) == \A d \in Reports : ReportOn[d] = m => report[d] = "none"

\* What Send has decided is in the document before anybody is told.
Stored(m) ==
    Unreported(m) /\ ~cancelled[m] =>
        /\ pc[m] = "refundFailed" => doc[m].status = "failed"
        /\ pc[m] \in {"storeId", "notify"} => doc[m].status = StatusOf(result[m])
        /\ pc[m] = "returned" /\ outcome[m] \in {"sent", "failed"} => doc[m].status = outcome[m]

LEMMA SendStepStores ==
    ASSUME MongoAnswers, SmsInv, NEW m \in Messages, Stored(m),
           Begin(m) \/ SendStep(m) \/ ClientLeaves(m)
    PROVE  Stored(m)'
  <1> USE DEF Goto, Answer
  <1>0. SendTypes /\ Path(m) /\ doc[m] \in [status : Statuses \cup {"none"}, carrierId : BOOLEAN]
    BY DEF SmsInv, SendTypes
  <1>1. Unreported(m)' <=> Unreported(m)
    BY SendStepTypes DEF SmsInv, Path, OthersKept, Unreported
  <1>2. CASE Begin(m) \/ ClientLeaves(m)
    BY <1>0, <1>1, <1>2 DEF Begin, ClientLeaves, Stored, SendTypes, documents
  <1>3. CASE Reject(m) \/ DeductBalance(m) \/ RefundAfterCreate(m)
    BY <1>0, <1>1, <1>3 DEF Reject, DeductBalance, RefundAfterCreate, Stored, SendTypes
  <1>4. CASE Create(m) \/ Dispatch(m) \/ RefundRejected(m)
    BY <1>0, <1>4 DEF Create, InsertMessage, Dispatch, RefundRejected, Stored, SendTypes
  <1>5. CASE StoreFailed(m)
    <2>1. cancelled[m] \/ doc'[m].status = "failed"
      BY <1>0, <1>5 DEF StoreFailed, StoreStatus, MayFail, MongoAnswers, SendTypes
    <2> QED
      BY <1>0, <1>1, <1>5, <2>1 DEF StoreFailed, Stored, SendTypes
  <1>6. CASE RefundFailed(m)
    BY <1>0, <1>1, <1>6 DEF RefundFailed, Stored, SendTypes, documents
  <1>7. CASE StoreResult(m)
    <2>1. cancelled[m] \/ doc'[m].status = StatusOf(result[m])
      BY <1>0, <1>7 DEF StoreResult, StoreStatus, MayFail, MongoAnswers, SendTypes
    <2>2. UNCHANGED <<cancelled, result>> /\ pc'[m] \in {"storeId", "notify"}
      BY <1>0, <1>7 DEF StoreResult, SendTypes
    <2> QED
      BY <2>1, <2>2 DEF Stored, StatusOf
  <1>8. CASE StoreCarrierId(m)
    <2>1. doc'[m].status = doc[m].status /\ pc[m] = "storeId"
      BY <1>0, <1>8 DEF StoreCarrierId, UpdateCarrierID, SendTypes
    <2>2. UNCHANGED <<cancelled, result>> /\ pc'[m] = "notify"
      BY <1>0, <1>8 DEF StoreCarrierId, UpdateCarrierID, SendTypes
    <2> QED
      BY <1>1, <2>1, <2>2 DEF Stored, StatusOf
  <1>9. CASE Notify(m)
    <2>1. pc[m] = "notify" /\ pc'[m] = "returned" /\ UNCHANGED <<doc, cancelled, result>>
      BY <1>0, <1>9 DEF Notify, SendTypes, documents
    <2>2. outcome'[m] \in {StatusOf(result[m]), "error"}
      BY <1>0, <1>9 DEF Notify, SendTypes
    <2> QED
      BY <1>1, <2>1, <2>2 DEF Stored
  <1> QED
    BY <1>2, <1>3, <1>4, <1>5, <1>6, <1>7, <1>8, <1>9 DEF SendStep

\* Where Mongo answers, the document says what the client was told, until the carrier
\* reports (Send, UpdateStatus before it returns on either path).
THEOREM DocumentsSayWhatWasTold ==
    ASSUME MongoAnswers
    PROVE  Spec => []StoredIsTold
  <1> DEFINE AllStored == \A m \in Messages : Stored(m)
  <1>1. Init => AllStored
    BY DEF Init, Stored
  <1>2. SmsInv /\ AllStored /\ [Next]_vars => AllStored'
    <2> SUFFICES ASSUME SmsInv, AllStored, [Next]_vars PROVE AllStored'
      OBVIOUS
    <2>1. ASSUME NEW m \in Messages, Begin(m) \/ SendStep(m) \/ ClientLeaves(m)
          PROVE  AllStored'
      <3>1. OthersKept(m)
        BY <2>1, SendStepTypes DEF SmsInv, Path
      <3>2. Stored(m)'
        BY <2>1, SendStepStores
      <3>3. ASSUME NEW x \in Messages, x # m PROVE Stored(x)'
        BY <3>1, <3>3 DEF OthersKept, Stored, Unreported, StatusOf
      <3> QED
        BY <3>2, <3>3
    <2>2. ASSUME NEW d \in Reports, CarrierReports(d) \/ ReportStep(d) PROVE AllStored'
      <3>1. /\ UNCHANGED <<pc, cancelled, outcome, result>>
            /\ \A x \in Messages : x # ReportOn[d] => doc'[x] = doc[x]
            /\ \A e \in Reports : e # d => report'[e] = report[e]
            /\ report'[d] # "none"
        BY <2>2, ReportStepTypes DEF SmsInv
      <3>2. ASSUME NEW x \in Messages, Unreported(x)' PROVE Unreported(x) /\ doc'[x] = doc[x]
        BY <3>1, <3>2 DEF Unreported
      <3> QED
        BY <3>1, <3>2 DEF Stored, StatusOf
    <2>3. CASE Background \/ Exit \/ UNCHANGED vars
      <3>1. /\ UNCHANGED <<cancelled, outcome, doc, result>>
            /\ \A x \in Messages : pc'[x] \in {pc[x], "dead"}
            /\ \A d \in Reports : report'[d] = "none" => report[d] = "none"
        BY <2>3, EndTypes DEF SmsInv
      <3> QED
        BY <3>1 DEF Stored, StatusOf, Unreported
    <2> QED
      BY <2>1, <2>2, <2>3 DEF Next
  <1>3. AllStored => StoredIsTold
    BY DEF Stored, StoredIsTold, Unreported
  <1> QED
    BY <1>1, <1>2, <1>3, InvariantHolds, PTL DEF Spec

-----------------------------------------------------------------------------
(* RetriedSend: what Send did to the message decides who has the key from  *)
(* then on.                                                                *)

Stages == I!InProgress \cup {"idle", "setnx", "get", "done", "dead"}

KeyTypes ==
    /\ key \in [state : {"free", "processing", "saved"}, by : Messages \cup {Nobody}]
    /\ stage \in [Messages -> Stages]
    /\ ended \in [Messages -> I!AllOutcomes \cup {"none"}]

HoldsKey(m) == key \in {I!Processing(m), I!Saved(m)}

\* The key went back with an error answer, from a client that was there for it.
GaveBack(m) == stage[m] = "done" /\ ended[m] = "server" /\ ~cancelled[m] /\ m \notin accepted

\* Where the middleware stands and where Send stands.
InStep(m) ==
    /\ stage[m] \in {"idle", "setnx", "get"} => pc[m] = "idle"
    /\ stage[m] = "run" <=> InSend(m)

\* The path of one Send, as far as it decides whose the key is.
Way(m) ==
    /\ pc[m] = "idle" => status[m] = "new"
    /\ pc[m] \in {"idle", "deduct", "create", "refundCreate", "dispatch"} => m \notin accepted
    /\ pc[m] = "refundRejected" => result[m] = "failed"
    /\ pc[m] \in {"store", "notify"} => result[m] \in {"sent", "unidentified", "failed"}
    /\ pc[m] = "storeId" => result[m] = "sent"

\* An attempt that paid or reached the carrier has the key, or gave it back.
Held(m) ==
    /\ stage[m] \in I!InProgress => key = I!Processing(m)
    /\ stage[m] = "release" => ended[m] = "server" /\ m \notin accepted
    /\ m \in accepted \/ status[m] = "charged" => HoldsKey(m) \/ GaveBack(m)

AttemptOK(m) == InStep(m) /\ Way(m) /\ Held(m)

ChainInv == SendTypes /\ KeyTypes /\ open /\ \A m \in Messages : AttemptOK(m)

-----------------------------------------------------------------------------
LEMMA ChainInitInv == ASSUME ChainInit PROVE ChainInv
  <1>1. Init
    BY DEF ChainInit
  <1>2. SendTypes
    BY <1>1, InitPath DEF SmsInv
  <1> QED
    BY <1>1, <1>2
       DEF ChainInit, Init, ChainInv, C!CallbacksInit, I!Init, KeyTypes, Stages, I!Free,
           AttemptOK, InStep, Way, Held, HoldsKey, InSend, I!InProgress

\* A step of Send keeps to its way, and one that ends it with the message at the
\* carrier answers 201 (Notify, RefundFailed).
LEMMA SendStepWay ==
    ASSUME ChainInv, NEW m \in Messages, SendStep(m)
    PROVE  /\ SendTypes' /\ OthersKept(m) /\ UNCHANGED <<open, cancelled>>
           /\ InSend(m) /\ pc'[m] # "idle" /\ pc'[m] # "dead"
           /\ Way(m)'
           /\ pc'[m] = "returned" /\ m \in accepted' => EndOf(outcome'[m]) = "ok"
           /\ pc'[m] = "returned" =>
                 outcome'[m] \in {"invalid", "insufficient", "error", "sent", "failed"}
  <1> USE DEF Goto, Answer
  <1>0. SendTypes /\ Way(m) /\ open
    BY DEF ChainInv, AttemptOK
  <1>1. SendTypes' /\ OthersKept(m)
    BY <1>0, SendStepTypes DEF Way
  <1>2. UNCHANGED <<open, cancelled>>
    BY DEF SendStep, Reject, DeductBalance, Create, InsertMessage, RefundAfterCreate, Dispatch,
           StoreFailed,
           RefundFailed, RefundRejected, StoreResult, StoreCarrierId, UpdateCarrierID, Notify, channel,
           C!Quit, C!Offer
  <1>3. InSend(m) /\ pc'[m] # "idle" /\ pc'[m] # "dead"
    BY <1>0 DEF SendStep, Reject, DeductBalance, Create, InsertMessage, RefundAfterCreate, Dispatch,
                StoreFailed,
           RefundFailed, RefundRejected, StoreResult, StoreCarrierId, UpdateCarrierID, Notify,
           InSend, SendTypes
  <1> DEFINE Goal == /\ Way(m)'
                     /\ pc'[m] = "returned" =>
                           /\ m \in accepted' => EndOf(outcome'[m]) = "ok"
                           /\ outcome'[m] \in {"invalid", "insufficient", "error", "sent", "failed"}
  <1>4. ASSUME Reject(m) \/ DeductBalance(m) \/ RefundAfterCreate(m) PROVE Goal
    <2>1. m \notin accepted /\ UNCHANGED <<accepted, result>>
      BY <1>0, <1>4 DEF Reject, DeductBalance, RefundAfterCreate, documents, Way
    <2>2. \/ pc'[m] = "create"
          \/ pc'[m] = "returned" /\ outcome'[m] \in {"invalid", "insufficient", "error"}
      BY <1>0, <1>4 DEF Reject, DeductBalance, RefundAfterCreate, SendTypes
    <2> QED
      BY <2>1, <2>2 DEF Way
  <1>5. ASSUME Create(m) PROVE Goal
    <2>1. pc'[m] \in {"dispatch", "refundCreate"} /\ m \notin accepted /\ UNCHANGED accepted
      BY <1>0, <1>5 DEF Create, InsertMessage, Way, SendTypes
    <2> QED
      BY <2>1 DEF Way
  <1>6. ASSUME Dispatch(m) PROVE Goal
    BY <1>0, <1>6 DEF Dispatch, Way, SendTypes
  <1>7. ASSUME StoreFailed(m) \/ RefundFailed(m) PROVE Goal
    <2>1. \/ pc'[m] = "refundFailed"
          \/ pc'[m] = "returned" /\ outcome'[m] = "failed"
      BY <1>0, <1>7 DEF StoreFailed, RefundFailed, SendTypes
    <2> QED
      BY <2>1 DEF Way, EndOf
  <1>8. ASSUME RefundRejected(m) \/ StoreResult(m) \/ StoreCarrierId(m) PROVE Goal
    <2>1. /\ pc'[m] \in {"store", "storeId", "notify"}
          /\ pc'[m] = "storeId" => result[m] = "sent"
          /\ UNCHANGED result
      BY <1>0, <1>8 DEF RefundRejected, StoreResult, StoreCarrierId, UpdateCarrierID, SendTypes,
                        documents
    <2>2. result[m] \in {"sent", "unidentified", "failed"}
      BY <1>0, <1>8 DEF RefundRejected, StoreResult, StoreCarrierId, UpdateCarrierID, Way
    <2> QED
      BY <2>1, <2>2 DEF Way
  <1>9. ASSUME Notify(m) PROVE Goal
    <2>1. pc'[m] = "returned" /\ outcome'[m] = StatusOf(result[m])
      BY <1>0, <1>9 DEF Notify, SendTypes
    <2>2. StatusOf(result[m]) \in {"sent", "failed"}
      BY <1>0, <1>9 DEF Notify, StatusOf, Way
    <2> QED
      BY <2>1, <2>2 DEF Way, EndOf
  <1>10. Goal
    BY <1>4, <1>5, <1>6, <1>7, <1>8, <1>9 DEF SendStep
  <1> QED
    BY <1>1, <1>2, <1>3, <1>10

-----------------------------------------------------------------------------
\* Only the attempt that has the key gives it up or saves to it, so the others
\* need not be looked at.
KeyMoves(m) ==
    \/ UNCHANGED key
    \/ key = I!Free /\ key' = I!Processing(m)
    \/ key = I!Processing(m) /\ key' \in {I!Free, I!Saved(m)}

LEMMA OthersStayOK ==
    ASSUME ChainInv, NEW m \in Messages, KeyMoves(m),
           NEW x \in Messages, x # m,
           /\ stage'[x] = stage[x] /\ ended'[x] = ended[x] /\ cancelled'[x] = cancelled[x]
           /\ pc'[x] = pc[x] /\ status'[x] = status[x] /\ result'[x] = result[x]
           /\ x \in accepted' <=> x \in accepted
    PROVE  AttemptOK(x)'
  <1>1. AttemptOK(x)
    BY DEF ChainInv
  <1>2. HoldsKey(x) => UNCHANGED key
    BY DEF HoldsKey, KeyMoves, I!Free, I!Processing, I!Saved
  <1>3. InStep(x)' /\ Way(x)'
    BY <1>1 DEF AttemptOK, InStep, Way, InSend
  <1>4. Held(x)'
    BY <1>1, <1>2 DEF AttemptOK, Held, HoldsKey, GaveBack, I!InProgress
  <1> QED
    BY <1>3, <1>4 DEF AttemptOK

\* What the middleware does to a request other than the run of its handler.
MiddlewareStep(m) ==
    ArriveWithKey(m) \/ SetNX(m) \/ Get(m) \/ AcquireError(m) \/ Finishing(m) \/ ClientGone(m)

LEMMA MiddlewareFrame ==
    ASSUME ChainInv, NEW m \in Messages, MiddlewareStep(m)
    PROVE  /\ SendTypes' /\ KeyTypes' /\ open' /\ KeyMoves(m)
           /\ UNCHANGED <<status, accepted, result>>
           /\ \A x \in Messages : x # m =>
                 /\ stage'[x] = stage[x] /\ ended'[x] = ended[x] /\ cancelled'[x] = cancelled[x]
                 /\ pc'[x] = pc[x]
  <1> USE DEF Goto, I!Goto, I!Answer, I!InProgress, Stages
  <1>0. SendTypes /\ KeyTypes /\ open /\ Held(m)
    BY DEF ChainInv, AttemptOK
  <1>1. UNCHANGED <<wallet, documents, outcome, result, report, open>>
    BY DEF MiddlewareStep, ArriveWithKey, SetNX, Get, AcquireError, Finishing, ClientGone,
           C!Start, C!Quit, channel, sendVars, wallet, documents
  <1>2. UNCHANGED pc \/ pc' = [pc EXCEPT ![m] = "deduct"]
    BY DEF MiddlewareStep, ArriveWithKey, SetNX, Get, AcquireError, Finishing, ClientGone, sendVars
  <1>3. UNCHANGED cancelled \/ cancelled' = [cancelled EXCEPT ![m] = TRUE]
    BY DEF MiddlewareStep, ArriveWithKey, SetNX, Get, AcquireError, Finishing, ClientGone,
           I!Arrive, I!SetNX, I!Get, I!AcquireError, I!SaveResponse, I!Release, I!ClientLeaves
  <1>4. UNCHANGED ended
    BY DEF MiddlewareStep, ArriveWithKey, SetNX, Get, AcquireError, Finishing, ClientGone,
           I!Arrive, I!SetNX, I!Get, I!AcquireError, I!SaveResponse, I!Release, I!ClientLeaves
  <1>5. \/ UNCHANGED stage
        \/ \E to \in Stages : stage' = [stage EXCEPT ![m] = to]
    BY DEF MiddlewareStep, ArriveWithKey, SetNX, Get, AcquireError, Finishing, ClientGone,
           I!Arrive, I!SetNX, I!Get, I!AcquireError, I!SaveResponse, I!Release, I!ClientLeaves
  <1>6. KeyMoves(m)
    BY <1>0 DEF MiddlewareStep, ArriveWithKey, SetNX, Get, AcquireError, Finishing, ClientGone,
           I!Arrive, I!SetNX, I!Get, I!AcquireError, I!SaveResponse, I!Release, I!ClientLeaves,
           KeyMoves, Held
  <1>7. KeyTypes'
    BY <1>0, <1>4, <1>5, <1>6 DEF KeyTypes, KeyMoves, I!Free, I!Processing, I!Saved
  <1>8. SendTypes'
    BY <1>0, <1>1, <1>2, <1>3 DEF SendTypes, SendStates, wallet, documents
  <1> QED
    BY <1>0, <1>1, <1>2, <1>3, <1>4, <1>5, <1>6, <1>7, <1>8
       DEF SendTypes, KeyTypes, wallet, documents

LEMMA MiddlewareStepOK ==
    ASSUME ChainInv, NEW m \in Messages, MiddlewareStep(m)
    PROVE  ChainInv'
  <1> USE DEF Goto, I!Goto, I!Answer, I!InProgress
  <1>0. SendTypes /\ KeyTypes /\ InStep(m) /\ Way(m) /\ Held(m)
    BY DEF ChainInv, AttemptOK
  <1>1. /\ SendTypes' /\ KeyTypes' /\ open' /\ KeyMoves(m)
        /\ UNCHANGED <<status, accepted, result>>
    BY MiddlewareFrame
  <1>2. ASSUME NEW x \in Messages, x # m PROVE AttemptOK(x)'
    BY <1>2, MiddlewareFrame, OthersStayOK
  <1>3. AttemptOK(m)'
    <2>1. CASE ArriveWithKey(m) \/ Get(m) \/ AcquireError(m)
      <3>1. /\ stage[m] \in {"idle", "setnx", "get"} /\ stage'[m] \in {"setnx", "get", "done"}
            /\ UNCHANGED <<pc, cancelled>>
        BY <1>0, <2>1 DEF ArriveWithKey, Get, AcquireError, I!Arrive, I!Get, I!AcquireError, KeyTypes
      <3>2. pc[m] = "idle" /\ status[m] = "new" /\ m \notin accepted
        BY <1>0, <3>1 DEF InStep, Way
      <3> QED
        BY <1>0, <1>1, <3>1, <3>2 DEF AttemptOK, InStep, Way, Held, InSend
    <2>2. CASE SetNX(m)
      <3>1. stage[m] = "setnx" /\ pc[m] = "idle" /\ status[m] = "new" /\ m \notin accepted
        BY <1>0, <2>2 DEF SetNX, I!SetNX, InStep, Way
      <3>2. \/ stage'[m] = "run" /\ key' = I!Processing(m) /\ pc'[m] = "deduct"
            \/ stage'[m] = "get" /\ UNCHANGED pc
        BY <1>0, <2>2 DEF SetNX, I!SetNX, KeyTypes, SendTypes
      <3> QED
        BY <1>0, <1>1, <3>1, <3>2 DEF AttemptOK, InStep, Way, Held, InSend
    <2>3. CASE Finishing(m)
      <3>1. /\ UNCHANGED <<pc, cancelled, ended>> /\ stage'[m] = "done"
            /\ stage[m] \in {"save", "release"} /\ key = I!Processing(m)
        BY <1>0, <2>3 DEF Finishing, I!SaveResponse, I!Release, sendVars, KeyTypes, Held
      <3>2. HoldsKey(m)' \/ GaveBack(m)'
        <4>1. CASE I!SaveResponse(m)
          BY <3>1, <4>1 DEF I!SaveResponse, HoldsKey
        <4>2. CASE I!Release(m)
          BY <1>0, <1>1, <3>1, <4>2 DEF I!Release, HoldsKey, GaveBack, Held
        <4> QED
          BY <2>3, <4>1, <4>2 DEF Finishing
      <3> QED
        BY <1>0, <1>1, <3>1, <3>2 DEF AttemptOK, InStep, Way, Held, InSend
    <2>4. CASE ClientGone(m)
      <3>1. UNCHANGED <<pc, stage, ended, key>> /\ stage[m] # "done"
        BY <1>0, <2>4 DEF ClientGone, I!ClientLeaves, sendVars
      <3> QED
        BY <1>0, <1>1, <3>1 DEF AttemptOK, InStep, Way, Held, InSend, HoldsKey, GaveBack
    <2> QED
      BY <2>1, <2>2, <2>3, <2>4 DEF MiddlewareStep
  <1> QED
    BY <1>1, <1>2, <1>3 DEF ChainInv

-----------------------------------------------------------------------------
LEMMA SendingOK ==
    ASSUME ChainInv, NEW m \in Messages, Sending(m) \/ SendReturns(m)
    PROVE  ChainInv'
  <1> USE DEF I!Goto, I!Answer, I!InProgress
  <1>0. SendTypes /\ KeyTypes /\ open /\ AttemptOK(m) /\ SendStep(m)
    BY DEF ChainInv, Sending, SendReturns
  <1>1. /\ SendTypes' /\ OthersKept(m) /\ UNCHANGED <<open, cancelled>>
        /\ InSend(m) /\ pc'[m] # "idle" /\ pc'[m] # "dead"
        /\ Way(m)'
        /\ pc'[m] = "returned" /\ m \in accepted' => EndOf(outcome'[m]) = "ok"
        /\ pc'[m] = "returned" =>
              outcome'[m] \in {"invalid", "insufficient", "error", "sent", "failed"}
    BY <1>0, SendStepWay
  <1>2. UNCHANGED key /\ key = I!Processing(m) /\ stage[m] = "run"
    BY <1>0, <1>1 DEF Sending, SendReturns, keyVars, I!RunHandler, AttemptOK, InStep, Held
  <1>3. /\ KeyTypes'
        /\ \A x \in Messages : x # m => stage'[x] = stage[x] /\ ended'[x] = ended[x]
        /\ \/ pc'[m] # "returned" /\ stage'[m] = "run"
           \/ /\ pc'[m] = "returned" /\ ended'[m] = EndOf(outcome'[m])
              /\ stage'[m] = I!Finish(ended'[m])
    <2>1. CASE Sending(m)
      BY <1>0, <1>2, <2>1 DEF Sending, keyVars, KeyTypes
    <2>2. CASE SendReturns(m)
      <3>1. PICK o \in {"ok", "client", "server"} :
                /\ ended' = [ended EXCEPT ![m] = o]
                /\ stage' = [stage EXCEPT ![m] = I!Finish(o)]
        BY <2>2 DEF SendReturns, I!RunHandler
      <3>2. I!Finish(o) \in {"save", "release", "done"}
        BY DEF I!Finish
      <3> QED
        BY <1>0, <1>2, <2>2, <3>1, <3>2 DEF SendReturns, KeyTypes, Stages, I!AllOutcomes
    <2> QED
      BY <2>1, <2>2
  <1>4. ASSUME NEW x \in Messages, x # m PROVE AttemptOK(x)'
    BY <1>1, <1>2, <1>3, <1>4, OthersStayOK DEF KeyMoves, OthersKept
  <1>5. AttemptOK(m)'
    <2>1. stage'[m] \in {"run", "save", "release", "done"}
      BY <1>3 DEF I!Finish
    <2>2. stage'[m] = "run" <=> pc'[m] # "returned"
      BY <1>3 DEF I!Finish
    <2>3. InStep(m)'
      BY <1>1, <2>1, <2>2 DEF InStep, InSend
    <2>4. stage'[m] = "release" => ended'[m] = "server" /\ m \notin accepted'
      BY <1>1, <1>3 DEF I!Finish
    <2>5. Held(m)'
      BY <1>2, <2>4 DEF Held, HoldsKey
    <2> QED
      BY <1>1, <2>3, <2>5 DEF AttemptOK
  <1> QED
    BY <1>0, <1>1, <1>3, <1>4, <1>5 DEF ChainInv

LEMMA EnvironmentOK ==
    ASSUME ChainInv, (\E d \in Reports : Reporting(d)) \/ Posting \/ Crash \/ UNCHANGED chainVars
    PROVE  ChainInv'
  <1>0. SendTypes /\ KeyTypes /\ open /\ \A m \in Messages : AttemptOK(m)
    BY DEF ChainInv
  <1> DEFINE Same == UNCHANGED <<open, key, stage, ended, cancelled, pc, status, accepted, result>>
  <1>1. ASSUME Same, SendTypes' PROVE ChainInv'
    BY <1>0, <1>1 DEF ChainInv, KeyTypes, AttemptOK, InStep, Way, Held, HoldsKey, GaveBack, InSend
  <1>2. ASSUME NEW d \in Reports, Reporting(d) PROVE ChainInv'
    <2>1. CarrierReports(d) \/ ReportStep(d)
      BY <1>2 DEF Reporting
    <2>2. SendTypes' /\ UNCHANGED <<wallet, pc, cancelled, outcome, accepted, result>>
      BY <1>0, <2>1, ReportStepTypes
    <2>3. UNCHANGED open
      BY <2>1 DEF CarrierReports, ReportStep, FindMessage, GetByCarrierID, FindNothing, ApplyReport,
                  ApplyFails,
             NotifyReport, channel, C!Start, C!Quit, C!Offer
    <2> QED
      BY <1>1, <1>2, <2>2, <2>3 DEF Reporting, keyVars, wallet
  <1>3. ASSUME Posting PROVE ChainInv'
    <2>1. Same /\ UNCHANGED <<balance, outcome, doc, report>>
      BY <1>3 DEF Posting, C!WorkerStep, C!Take, C!Post, C!Leave, keyVars, wallet, documents
    <2> QED
      BY <1>0, <1>1, <2>1 DEF SendTypes
  <1>4. ASSUME Crash PROVE ChainInv'
    <2>1. UNCHANGED <<wallet, open, outcome, documents, result, key, ended, cancelled>>
      BY <1>4 DEF Crash, I!Crash
    <2>2. ASSUME NEW m \in Messages
          PROVE  /\ pc'[m] = IF InSend(m) THEN "dead" ELSE pc[m]
                 /\ stage'[m] = IF stage[m] \in {"idle", "done"} THEN stage[m] ELSE "dead"
      BY <1>4 DEF Crash, I!Crash
    <2>3. SendTypes'
      <3>1. pc' \in [Messages -> SendStates]
        BY <1>0, <1>4 DEF Crash, SendTypes, SendStates
      <3>2. report' \in [Reports -> {"none", "sent", "found", "notify", "applied", "lost", "dead"}]
        BY <1>0, <1>4 DEF Crash, SendTypes
      <3> QED
        BY <1>0, <2>1, <3>1, <3>2 DEF SendTypes, wallet, documents
    <2>4. KeyTypes'
      <3>1. stage' \in [Messages -> Stages]
        BY <1>0, <1>4 DEF Crash, I!Crash, KeyTypes, Stages
      <3> QED
        BY <1>0, <2>1, <3>1 DEF KeyTypes
    <2>5. ASSUME NEW m \in Messages PROVE AttemptOK(m)'
      <3>1. InStep(m)' /\ Way(m)'
        BY <1>0, <2>1, <2>2 DEF AttemptOK, InStep, Way, InSend, wallet, documents
      <3>2. Held(m)'
        BY <1>0, <2>1, <2>2 DEF AttemptOK, Held, HoldsKey, GaveBack, wallet, documents, I!InProgress
      <3> QED
        BY <3>1, <3>2 DEF AttemptOK
    <2> QED
      BY <1>0, <2>1, <2>3, <2>4, <2>5 DEF ChainInv
  <1>5. ASSUME UNCHANGED chainVars PROVE ChainInv'
    BY <1>0, <1>1, <1>5 DEF chainVars, vars, keyVars, SendTypes
  <1> QED
    BY <1>2, <1>3, <1>4, <1>5

LEMMA ChainNextInv ==
    ASSUME ChainInv, [ChainNext]_chainVars
    PROVE  ChainInv'
  <1>1. ASSUME NEW m \in Messages,
               ArriveWithKey(m) \/ RequestStep(m) \/ AcquireError(m) \/ ClientGone(m)
        PROVE  ChainInv'
    BY <1>1, MiddlewareStepOK, SendingOK DEF RequestStep, MiddlewareStep
  <1> QED
    BY <1>1, EnvironmentOK DEF ChainNext

-----------------------------------------------------------------------------
LEMMA OneHolder ==
    ASSUME NEW m \in Messages, NEW n \in Messages, HoldsKey(m), HoldsKey(n)
    PROVE  m = n
  BY DEF HoldsKey, I!Processing, I!Saved

\* However often a client sends its request again under one key, the carrier is given
\* one message: SETNX admits one attempt, and one that ran Dispatch never lets go of
\* the key (SendSMS answers 201 for a failed message too).
THEOREM OneMessageIsCarried == ChainSpec => []CarriedOnce
  <1>1. ChainInv => CarriedOnce
    <2> SUFFICES ASSUME ChainInv, NEW m \in accepted, NEW n \in accepted PROVE m = n
      BY DEF CarriedOnce
    <2>1. m \in Messages /\ n \in Messages
      BY DEF ChainInv, SendTypes
    <2>2. HoldsKey(m) /\ HoldsKey(n)
      BY <2>1 DEF ChainInv, AttemptOK, Held, GaveBack
    <2> QED
      BY <2>1, <2>2, OneHolder
  <1> QED
    BY <1>1, ChainInitInv, ChainNextInv, PTL DEF ChainSpec

\* Nor does it pay twice, unless the billing engine failed to make a refund (the error
\* of RefundBalance, which Send ignores): an attempt whose charge stands keeps the key.
THEOREM OnePriceIsPaid == ChainSpec => []ChargedOnce
  <1>1. ChainInv => ChargedOnce
    <2> SUFFICES ASSUME ChainInv, NEW m \in Messages, NEW n \in Messages, m # n,
                        status[m] = "charged", status[n] = "charged"
                 PROVE  RefundLost(m) \/ RefundLost(n)
      BY DEF ChargedOnce
    <2>1. (HoldsKey(m) \/ GaveBack(m)) /\ (HoldsKey(n) \/ GaveBack(n))
      BY DEF ChainInv, AttemptOK, Held
    <2> QED
      BY <2>1, OneHolder DEF GaveBack, RefundLost
  <1> QED
    BY <1>1, ChainInitInv, ChainNextInv, PTL DEF ChainSpec

\* Where the billing engine answers, an attempt that ended in a server error, with a
\* client that is there for it, has its money back.
Unowed(m) ==
    /\ stage[m] \in {"idle", "setnx", "get", "run"} => ended[m] = "none"
    /\ ended[m] = "server" /\ ~cancelled[m] => status[m] # "charged"

LEMMA SendReturnsUnowed ==
    ASSUME BillingAnswers, ChainInv, NEW m \in Messages, SendReturns(m), ~cancelled[m]
    PROVE  ended'[m] = "server" => status'[m] # "charged"
  <1> USE DEF Goto, Answer
  <1>0. SendTypes /\ Way(m) /\ open /\ SendStep(m)
    BY DEF ChainInv, AttemptOK, SendReturns
  <1>1. ended'[m] = "server" => outcome'[m] = "error"
    <2>1. pc'[m] = "returned" /\ ended'[m] = EndOf(outcome'[m])
      BY DEF SendReturns
    <2>2. outcome'[m] \in {"invalid", "insufficient", "error", "sent", "failed"}
      BY <1>0, <2>1, SendStepWay
    <2> QED
      BY <2>1, <2>2 DEF EndOf
  <1>2. pc'[m] = "returned"
    BY DEF SendReturns
  <1>3. CASE Reject(m)
    BY <1>0, <1>1, <1>3 DEF Reject, SendTypes
  <1>4. CASE DeductBalance(m)
    <2>1. Goto(m, "create") \/ status'[m] \in {"denied", "failed"}
      BY <1>0, <1>4 DEF DeductBalance, W!Deny, W!Fail, SendTypes
    <2> QED
      BY <1>0, <1>2, <2>1 DEF SendTypes
  <1>5. CASE RefundAfterCreate(m)
    <2>1. status'[m] = "refunded"
      BY <1>0, <1>5 DEF RefundAfterCreate, RefundIgnoringErrors, MayFail, BillingAnswers,
                        W!Refund, SendTypes
    <2> QED
      BY <2>1
  <1>6. CASE RefundFailed(m)
    BY <1>0, <1>1, <1>6 DEF RefundFailed, SendTypes
  <1>7. CASE Notify(m)
    <2>1. outcome'[m] = StatusOf(result[m])
      BY <1>0, <1>7 DEF Notify, SendTypes
    <2>2. StatusOf(result[m]) \in {"sent", "failed"}
      BY <1>0, <1>7 DEF Notify, StatusOf, Way
    <2> QED
      BY <1>1, <2>1, <2>2
  <1>8. CASE Create(m) \/ Dispatch(m) \/ StoreFailed(m) \/ RefundRejected(m)
             \/ StoreResult(m) \/ StoreCarrierId(m)
    BY <1>0, <1>2, <1>8 DEF Create, Dispatch, StoreFailed, RefundRejected, StoreResult,
                            StoreCarrierId, SendTypes
  <1> QED
    BY <1>0, <1>3, <1>4, <1>5, <1>6, <1>7, <1>8 DEF SendStep

LEMMA NextUnowed ==
    ASSUME BillingAnswers, ChainInv, \A m \in Messages : Unowed(m), [ChainNext]_chainVars
    PROVE  \A m \in Messages : Unowed(m)'
  <1> USE DEF I!Goto, I!Answer
  <1>0. SendTypes /\ KeyTypes /\ \A x \in Messages : AttemptOK(x)
    BY DEF ChainInv
  <1>1. ASSUME NEW m \in Messages, MiddlewareStep(m), NEW x \in Messages PROVE Unowed(x)'
    <2>1. /\ UNCHANGED <<status, ended>>
          /\ cancelled'[x] = cancelled[x] \/ cancelled'[x] = TRUE
      BY <1>0, <1>1, MiddlewareFrame
         DEF MiddlewareStep, ArriveWithKey, SetNX, Get, AcquireError, Finishing, ClientGone,
             I!Arrive, I!SetNX, I!Get, I!AcquireError, I!SaveResponse, I!Release,
             I!ClientLeaves, SendTypes
    <2>2. /\ stage'[x] \in {"idle", "setnx", "get", "run"} =>
                stage[x] \in {"idle", "setnx", "get", "run"}
      BY <1>0, <1>1
         DEF MiddlewareStep, ArriveWithKey, SetNX, Get, AcquireError, Finishing, ClientGone,
             I!Arrive, I!SetNX, I!Get, I!AcquireError, I!SaveResponse, I!Release,
             I!ClientLeaves, KeyTypes
    <2> QED
      BY <2>1, <2>2 DEF Unowed
  <1>2. ASSUME NEW m \in Messages, Sending(m), NEW x \in Messages PROVE Unowed(x)'
    <2>1. SendStep(m) /\ UNCHANGED keyVars
      BY <1>2 DEF Sending
    <2>2. OthersKept(m) /\ UNCHANGED cancelled /\ InSend(m)
      BY <2>1, SendStepWay
    <2>3. ended[m] = "none"
      BY <1>0, <2>2 DEF AttemptOK, InStep, Unowed
    <2> QED
      BY <2>1, <2>2, <2>3 DEF Unowed, OthersKept, keyVars
  <1>3. ASSUME NEW m \in Messages, SendReturns(m), NEW x \in Messages PROVE Unowed(x)'
    <2>1. OthersKept(m) /\ UNCHANGED cancelled
      BY <1>3, SendStepWay DEF SendReturns
    <2>2. PICK o \in {"ok", "client", "server"} :
              /\ ended' = [ended EXCEPT ![m] = o]
              /\ stage' = [stage EXCEPT ![m] = I!Finish(o)]
      BY <1>3 DEF SendReturns, I!RunHandler
    <2>3. I!Finish(o) \in {"save", "release", "done"}
      BY DEF I!Finish
    <2>4. CASE x = m
      BY <1>0, <1>3, <2>1, <2>2, <2>3, <2>4, SendReturnsUnowed DEF Unowed, KeyTypes
    <2>5. CASE x # m
      BY <1>0, <2>1, <2>2, <2>5 DEF Unowed, OthersKept, KeyTypes
    <2> QED
      BY <2>4, <2>5
  <1>4. ASSUME NEW x \in Messages, UNCHANGED <<status, ended, cancelled>>,
               stage'[x] \in {stage[x], "dead"}
        PROVE  Unowed(x)'
    BY <1>4 DEF Unowed
  <1>5. ASSUME NEW d \in Reports, Reporting(d), NEW x \in Messages PROVE Unowed(x)'
    <2>1. UNCHANGED <<status, ended, cancelled, stage>>
      BY <1>5, ReportsLeaveTheWallet
         DEF Reporting, keyVars, wallet, CarrierReports, ReportStep, FindMessage, FindNothing,
             ApplyReport, ApplyFails, NotifyReport
    <2> QED
      BY <1>4, <2>1
  <1>6. ASSUME Posting \/ UNCHANGED chainVars, NEW x \in Messages PROVE Unowed(x)'
    <2>1. UNCHANGED <<status, ended, cancelled, stage>>
      BY <1>6 DEF Posting, keyVars, wallet, chainVars, vars
    <2> QED
      BY <1>4, <2>1
  <1>7. ASSUME Crash, NEW x \in Messages PROVE Unowed(x)'
    <2>1. UNCHANGED <<status, ended, cancelled>> /\ stage'[x] \in {stage[x], "dead"}
      BY <1>7 DEF Crash, I!Crash, wallet
    <2> QED
      BY <1>4, <2>1
  <1> QED
    BY <1>1, <1>2, <1>3, <1>5, <1>6, <1>7 DEF ChainNext, RequestStep, MiddlewareStep

\* Where the billing engine answers there is no exception: however often the request is
\* sent again, and whenever the client leaves or the process stops, at most one charge
\* stands.  (A refund that fails because the client has left leaves the key locked.)
THEOREM OneChargeStands ==
    ASSUME BillingAnswers
    PROVE  ChainSpec => [](\A m, n \in Messages :
                              status[m] = "charged" /\ status[n] = "charged" => m = n)
  <1> DEFINE AllUnowed == \A m \in Messages : Unowed(m)
             OneCharge == \A m, n \in Messages :
                             status[m] = "charged" /\ status[n] = "charged" => m = n
  <1>1. ChainInv /\ AllUnowed => OneCharge
    <2> SUFFICES ASSUME ChainInv, AllUnowed, NEW m \in Messages, NEW n \in Messages,
                        status[m] = "charged", status[n] = "charged"
                 PROVE  m = n
      OBVIOUS
    <2>1. HoldsKey(m) /\ HoldsKey(n)
      BY DEF ChainInv, AttemptOK, Held, GaveBack, Unowed
    <2> QED
      BY <2>1, OneHolder
  <1>2. ChainInit => AllUnowed
    BY DEF ChainInit, I!Init, Unowed
  <1>3. ChainInv /\ AllUnowed /\ [ChainNext]_chainVars => AllUnowed'
    BY NextUnowed
  <1> QED
    BY <1>1, <1>2, <1>3, ChainInitInv, ChainNextInv, PTL DEF ChainSpec

-----------------------------------------------------------------------------
(* RetriedSend and the specifications it is made of.                       *)

\* A request with a key does what the middleware lets a request do: what holds of one
\* key there (one handler at a time, one success, replays of successes only) holds with
\* Send as the handler, an unlucky Send included (router.go).
THEOREM ChainImplementsIdempotency == ChainSpec => I!Spec
  <1> USE DEF I!Step, I!vars, keyVars
  <1>1. ASSUME NEW m \in Messages,
               ArriveWithKey(m) \/ RequestStep(m) \/ AcquireError(m) \/ ClientGone(m)
        PROVE  [I!Next]_(I!vars)
    <2>1. CASE ArriveWithKey(m) \/ SetNX(m) \/ Get(m) \/ SendReturns(m) \/ Finishing(m)
               \/ AcquireError(m) \/ ClientGone(m)
      BY <2>1 DEF ArriveWithKey, SetNX, Get, SendReturns, Finishing, AcquireError, ClientGone, I!Next
    <2>2. CASE Sending(m)
      <3>1. UNCHANGED cancelled
        BY <2>2 DEF Sending, SendStep, Reject, DeductBalance, Create, RefundAfterCreate, Dispatch,
                    StoreFailed, RefundFailed, RefundRejected, StoreResult, StoreCarrierId, Notify
      <3> QED
        BY <2>2, <3>1 DEF Sending
    <2> QED
      BY <1>1, <2>1, <2>2 DEF RequestStep
  <1>2. ASSUME NEW d \in Reports, Reporting(d) PROVE UNCHANGED I!vars
    BY <1>2 DEF Reporting, CarrierReports, ReportStep, FindMessage, FindNothing, ApplyReport,
                ApplyFails, NotifyReport
  <1>3. ASSUME Posting \/ UNCHANGED chainVars PROVE UNCHANGED I!vars
    BY <1>3 DEF Posting, chainVars, vars
  <1>4. ASSUME Crash PROVE I!Next
    BY <1>4 DEF Crash, I!Next
  <1>5. [ChainNext]_chainVars => [I!Next]_(I!vars)
    BY <1>1, <1>2, <1>3, <1>4 DEF ChainNext
  <1> QED
    BY <1>5, PTL DEF ChainSpec, ChainInit, I!Spec

\* Nor do retries and crashes make of the wallet anything but what its callers may.
THEOREM ChainUsesTheWallet == ChainSpec => W!Spec
  <1>1. ASSUME NEW m \in Messages,
               ArriveWithKey(m) \/ RequestStep(m) \/ AcquireError(m) \/ ClientGone(m)
        PROVE  WalletStep(m) \/ UNCHANGED wallet
    <2>1. CASE Sending(m) \/ SendReturns(m)
      BY <2>1, SendsUseTheWallet DEF Sending, SendReturns
    <2>2. CASE ArriveWithKey(m) \/ SetNX(m) \/ Get(m) \/ Finishing(m) \/ AcquireError(m)
               \/ ClientGone(m)
      BY <2>2 DEF ArriveWithKey, SetNX, Get, Finishing, AcquireError, ClientGone, sendVars, wallet
    <2> QED
      BY <1>1, <2>1, <2>2 DEF RequestStep
  <1>2. ASSUME NEW d \in Reports, Reporting(d) PROVE UNCHANGED wallet
    BY <1>2, ReportsLeaveTheWallet DEF Reporting
  <1>3. ASSUME Posting \/ Crash \/ UNCHANGED chainVars PROVE UNCHANGED wallet
    BY <1>3 DEF Posting, Crash, chainVars, vars, wallet
  <1>4. [ChainNext]_chainVars => [W!Next]_(W!walletVars)
    BY <1>1, <1>2, <1>3, WalletSteps DEF ChainNext
  <1> QED
    BY <1>4, WalletInit, PTL DEF ChainSpec, ChainInit, W!Spec
=============================================================================
