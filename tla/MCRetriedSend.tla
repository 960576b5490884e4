--------------------------- MODULE MCRetriedSend ----------------------------
(***************************************************************************)
(* A small instance of RetriedSend: three attempts with one key, of which  *)
(* m3 does not validate, on a balance that covers two; d1 reports on m1    *)
(* that it was delivered.                                                  *)
(***************************************************************************)
EXTENDS RetriedSend

CONSTANTS a1, m1, m2, m3, d1

MCOwner == [m \in Messages |-> a1]
MCCost == [m \in Messages |-> 2]
MCOpening == [a \in {a1} |-> 4]
MCReportOn == [d \in Reports |-> m1]
MCReportStatus == [d \in Reports |-> "delivered"]
=============================================================================
