---------------------------- MODULE Credentials -----------------------------
(***************************************************************************)
(* The Basic credentials of one account: RotateAccountCredentials of       *)
(* auth/service.go, which stores new ones and then reads the account back  *)
(* to answer, and the Basic side of middleware/auth.go, which looks the    *)
(* account up by its SID and compares the token.                           *)
(*                                                                         *)
(* Credentials are named after the rotation that generated them.  The      *)
(* names of this module are its own, so that AuthProofs can extend it      *)
(* along with Users.                                                       *)
(***************************************************************************)
EXTENDS Naturals

CONSTANTS
    Rotations,   \* requests to rotate
    Calls,       \* requests under Basic authentication
    Issued,      \* the credentials the account was created with
    Bearer,      \* whether the account also has a user who can log in
    MongoFails   \* whether a Mongo operation may fail

ASSUME CredentialsAssumption ==
    /\ Issued \notin Rotations
    /\ Bearer \in BOOLEAN
    /\ MongoFails \in BOOLEAN

VARIABLES
    credentials,  \* Mongo: the account's sid and auth_token
    known,        \* the credentials that clients have been told
    place,        \* where each request stands
    presented     \* what each Basic request presents

credentialVars == <<credentials, known, place, presented>>

Versions == Rotations \cup {Issued}
Pair(v) == [sid |-> v, token |-> v]

CredentialsInit ==
    /\ credentials = Pair(Issued)
    /\ known = {Pair(Issued)}
    /\ place = [r \in Rotations \cup Calls |-> "idle"]
    /\ presented = [r \in Rotations \cup Calls |-> Pair(Issued)]

Moves(r, where) == place' = [place EXCEPT ![r] = where]

\* A client presents credentials it was told.
Present(r) ==
    /\ place[r] = "idle"
    /\ \E k \in known : presented' = [presented EXCEPT ![r] = k]
    /\ Moves(r, "auth")
    /\ UNCHANGED <<credentials, known>>

Passed(r) == IF r \in Rotations THEN "update" ELSE "ok"

\* GetBySID, then the comparison with the token of the account it found.
AuthBasic(r) ==
    /\ place[r] = "auth"
    /\ Moves(r, IF presented[r].sid = credentials.sid /\ presented[r].token = credentials.token
               THEN Passed(r) ELSE "refused")
    /\ UNCHANGED <<credentials, known, presented>>

\* A user's token names the account, whatever its credentials are.
AuthBearer(r) ==
    /\ Bearer
    /\ place[r] = "idle"
    /\ Moves(r, Passed(r))
    /\ UNCHANGED <<credentials, known, presented>>

\* (mutant) The SID is stored first, then the token.
UpdateSidFirst(r) ==
    /\ place[r] = "update"
    /\ IF credentials.sid # r
       THEN credentials' = [credentials EXCEPT !.sid = r] /\ UNCHANGED place
       ELSE credentials' = Pair(r) /\ Moves(r, "read")
    /\ UNCHANGED <<known, presented>>

UpdateCredentials(r) ==
    /\ place[r] = "update"
    /\ credentials' = Pair(r)
    /\ Moves(r, "read")
    /\ UNCHANGED <<known, presented>>

\* GetByID: the answer is what is stored by now, of this rotation or a later one.
ReadBack(r) ==
    /\ place[r] = "read"
    /\ known' = known \cup {credentials}
    /\ Moves(r, "ok")
    /\ UNCHANGED <<credentials, presented>>

\* A Mongo operation fails (an update perhaps after it took effect): 500.
OperationFails(r) ==
    /\ MongoFails
    /\ place[r] \in {"auth", "update", "read"}
    /\ credentials' \in {credentials} \cup (IF place[r] = "update" THEN {Pair(r)} ELSE {})
    /\ Moves(r, "error")
    /\ UNCHANGED <<known, presented>>

CredentialsNext ==
    \E r \in Rotations \cup Calls :
        \/ Present(r) \/ AuthBasic(r) \/ AuthBearer(r)
        \/ UpdateCredentials(r) \/ ReadBack(r)
        \/ OperationFails(r)

CredentialsSpec == CredentialsInit /\ [][CredentialsNext]_credentialVars

-----------------------------------------------------------------------------
(* Properties.                                                             *)

\* "RotateAccountCredentials issues a new Account SID and Auth Token for API
\* basic auth" (auth/service.go:173): the credentials an account has are known
\* to a client, or a rotation is about to tell them, however rotations overlap
\* (each answers what is stored, not what it generated) and unless the one that
\* stored them failed.
CredentialsKnown ==
    \/ credentials \in known
    \/ \E r \in Rotations : place[r] = "read"
    \/ \E r \in Rotations : place[r] = "error" /\ credentials.sid = r

\* Whatever was told to a client was at some time the credentials's: no client is
\* given a SID with another one's token.
ToldAreWhole == \A k \in known : k.sid = k.token
=============================================================================
