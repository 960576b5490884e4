---------------------------- MODULE MCCallbacks -----------------------------
(***************************************************************************)
(* A small instance of Server: more handlers than the channel can hold, so *)
(* that callbacks queue and are dropped, and two scrapes of the metrics    *)
(* while they end.  The handlers are counted under one key, and so are the *)
(* scrapes.                                                                *)
(***************************************************************************)
EXTENDS Server

MCKeys == {"sms", "metrics"}
MCKeyOf == [r \in Requests |-> IF r \in Scrapes THEN "metrics" ELSE "sms"]
=============================================================================
