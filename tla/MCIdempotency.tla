--------------------------- MODULE MCIdempotency ----------------------------
(***************************************************************************)
(* A small instance of Idempotency: three requests with one key, the least *)
(* with which a key can change hands twice under a third request.          *)
(***************************************************************************)
EXTENDS Idempotency
=============================================================================
