----------------------------- MODULE MCBilling ------------------------------
(***************************************************************************)
(* Small instances of Billing: one account with 3, which r1 empties, r2    *)
(* almost does and r3 makes a dent in, so that some purchases fit together *)
(* and others do not; r4 costs nothing, which the configured rate allows   *)
(* and the engine refuses.                                                 *)
(***************************************************************************)
EXTENDS Billing

CONSTANTS a1, r1, r2, r3, r4, q1

OneOwner == [p \in Refs \cup Readers |-> a1]
OneCost == [r \in Refs |-> CASE r = r1 -> 3 [] r = r2 -> 2 [] r = r3 -> 1 [] r = r4 -> 0]
OneOpening == [a \in {a1} |-> 3]

\* What follows the account's first Spoiler is of no account to BillingWallet.
UpToTheFirstSpoiler == spoiled = {}
=============================================================================
