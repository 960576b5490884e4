------------------------------ MODULE MCUsers -------------------------------
(***************************************************************************)
(* A small instance of Users.  u1 is the owner of an account and u2 a      *)
(* member of it; u3 registers with an email that u4 is invited under       *)
(* meanwhile, while u2 logs in, refreshes its token, is renamed, suspended *)
(* and deleted.                                                            *)
(***************************************************************************)
EXTENDS Users

CONSTANTS u1, u2, u3, u4, e1, e2, e3,
          register, invite, invent, rename, suspend, remove, login, refresh

MCEmailOf == [u \in {u1, u2, u3, u4} |->
                 CASE u = u1 -> e1 [] u = u2 -> e2 [] OTHER -> e3]

MCInitially ==
    [u \in {u1, u2} |-> [name |-> "old", role |-> IF u = u1 THEN "owner" ELSE "member",
                         status |-> "active", login |-> Absent]]

Asks(kind, user, arg) == [kind |-> kind, user |-> user, arg |-> arg]

MCOp == [r \in Requests |->
    CASE r = register -> Asks("register", u3, "none")
      [] r = invite -> Asks("create", u4, "developer")
      [] r = invent -> Asks("role", u2, "bogus")
      [] r = rename -> Asks("profile", u2, "new")
      [] r = suspend -> Asks("status", u2, "suspended")
      [] r = remove -> Asks("delete", u2, "none")
      [] r = login -> Asks("login", u2, "none")
      [] r = refresh -> Asks("refresh", u2, "none")]

Claim(u) == [user |-> u, role |-> "owner"]

\* One error.  A request refused because its token expired is like one that was not
\* made, so the owners' tokens last; and the request for a role there is not comes
\* first, since it should change nothing.
Instance ==
    /\ \A r, s \in Requests : pc[r] = "error" /\ pc[s] = "error" => r = s
    /\ Claim(u1) \in tokens
    /\ pc[register] = "ok" => Claim(u3) \in tokens
    /\ \A r \in Requests : pc[r] # "idle" => pc[invent] # "idle"
=============================================================================
