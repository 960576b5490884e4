--------------------------- MODULE MCSmsService -----------------------------
(***************************************************************************)
(* Small instances of SmsService.  m1 and m2 cost 2 each on an account     *)
(* that has 3, m3 costs nothing (a rate of 0), m4 does not validate; d1    *)
(* reports on m1 that it was delivered.                                    *)
(***************************************************************************)
EXTENDS SmsService

CONSTANTS a1, m1, m2, m3, m4, d1

MCOwner == [m \in Messages |-> a1]
MCCost == [m \in Messages |-> IF m = m3 THEN 0 ELSE 2]
MCOpening == [a \in {a1} |-> 3]
MCReportOn == [d \in Reports |-> m1]
MCReportStatus == [d \in Reports |-> "delivered"]
=============================================================================
