------------------------------- MODULE Wallet -------------------------------
(***************************************************************************)
(* What the billing engine promises its callers, with no cache, database   *)
(* or background write in sight: one balance per account, changed in one   *)
(* step by each request, never taken below the price of what is bought,    *)
(* and read as it is.  Billing.tla is shown to implement this module.      *)
(***************************************************************************)
EXTENDS Integers

CONSTANTS
    Accounts,   \* billed accounts
    Refs,       \* reference ids: one purchase each (an SMS SID)
    Readers,    \* balance reads
    Owner,      \* the account of a purchase or of a read
    Cost,       \* the price of a purchase, in micro-units
    Opening,    \* the balance of an account at the start
    Unread      \* what a read that has not answered shows

VARIABLES
    balance,    \* the account's spendable balance
    status,     \* what the caller has been told of a purchase
    seen        \* what a read answered

walletVars == <<balance, status, seen>>

Init ==
    /\ balance = Opening
    /\ status = [r \in Refs |-> "new"]
    /\ seen = [q \in Readers |-> Unread]

\* DeductBalance succeeds: the price is taken and the caller told so.
Charge(r) ==
    /\ status[r] = "new"
    /\ Cost[r] > 0
    /\ Cost[r] <= balance[Owner[r]]
    /\ balance' = [balance EXCEPT ![Owner[r]] = @ - Cost[r]]
    /\ status' = [status EXCEPT ![r] = "charged"]
    /\ UNCHANGED seen

\* DeductBalance answers ErrInsufficientFunds: only when that is so.
Deny(r) ==
    /\ status[r] = "new"
    /\ balance[Owner[r]] < Cost[r]
    /\ status' = [status EXCEPT ![r] = "denied"]
    /\ UNCHANGED <<balance, seen>>

\* DeductBalance answers another error: the balance is as it was.
Fail(r) ==
    /\ status[r] = "new"
    /\ status' = [status EXCEPT ![r] = "failed"]
    /\ UNCHANGED <<balance, seen>>

\* RefundBalance succeeds: only for a purchase that was charged, and once.
Refund(r) ==
    /\ status[r] = "charged"
    /\ balance' = [balance EXCEPT ![Owner[r]] = @ + Cost[r]]
    /\ status' = [status EXCEPT ![r] = "refunded"]
    /\ UNCHANGED seen

\* GetBalance answers with the balance of that moment.
Observe(q) ==
    /\ seen[q] = Unread
    /\ seen' = [seen EXCEPT ![q] = balance[Owner[q]]]
    /\ UNCHANGED <<balance, status>>

Next ==
    \/ \E r \in Refs : Charge(r) \/ Deny(r) \/ Fail(r) \/ Refund(r)
    \/ \E q \in Readers : Observe(q)

Spec == Init /\ [][Next]_walletVars
=============================================================================
