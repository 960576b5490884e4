------------------------------- MODULE Users --------------------------------
(***************************************************************************)
(* The users of the portal and their tokens: auth/service.go (Register,    *)
(* Login, RefreshToken), user/service.go (CreateUser, the three updates    *)
(* that read a document, change it and write all of it back, DeleteUser),  *)
(* user/mongodb/repository.go and the Bearer side of middleware/auth.go.   *)
(*                                                                         *)
(* A user id is made once, by the request that creates the user.  Each     *)
(* Mongo operation is one step.                                            *)
(***************************************************************************)
EXTENDS FiniteSets

CONSTANTS
    Users,       \* user ids, those to be created included
    Emails,
    EmailOf,     \* the (normalized) email of each user; nothing changes it
    Initially,   \* the documents there are at the start, by user id
    Requests,
    Op,          \* what each request asks: [kind, user, arg]
    Faults,      \* "mongoError"
    Absent       \* no document, no account

Roles == {"owner", "admin", "developer", "member"}
Statuses == {"active", "suspended", "pending"}
Names == {"old", "new"}
Edits == {"profile", "role", "status"}
Kinds == Edits \cup {"register", "create", "delete", "login", "refresh"}

\* A request may ask for a role or a status there is not.
Args == Roles \cup Statuses \cup Names \cup {"bogus", "none"}

Documents == [name : Names, role : Roles, status : Statuses, login : Requests \cup {Absent}]

ASSUME UsersAssumption ==
    /\ EmailOf \in [Users -> Emails]
    /\ DOMAIN Initially \subseteq Users
    /\ \A u \in DOMAIN Initially : Initially[u] \in Documents
    \* The index was there when they were made.
    /\ \A u, v \in DOMAIN Initially : EmailOf[u] = EmailOf[v] => u = v
    /\ Op \in [Requests -> [kind : Kinds, user : Users, arg : Args]]
    /\ IsFiniteSet(Requests)
    /\ Faults \subseteq {"mongoError"}
    /\ Absent \notin Documents \cup Users \cup Requests
    \* A created user has an id of its own.
    /\ \A r, s \in Requests :
          Op[r].kind \in {"register", "create"} =>
              /\ Op[r].user \notin DOMAIN Initially
              /\ Op[s].kind \in {"register", "create"} /\ Op[s].user = Op[r].user => r = s
    \* CreateUser passes a role on; Register's is "owner".
    /\ \A r \in Requests : Op[r].kind = "profile" => Op[r].arg \in Names

VARIABLES
    doc,        \* Mongo: the user documents
    account,    \* Mongo: the account with an email, by the user whose Register
                \* created it
    tokens,     \* the signed tokens that have not expired, by what they claim
    pc,         \* where each request stands
    copy,       \* the document a request has read (a local), and whose it is
    overtaken   \* (history) the updates about to write of whose user another update
                \* wrote since they read it

vars == <<doc, account, tokens, pc, copy, overtaken>>

EndStates == {"ok", "taken", "refused", "missing", "error"}
Nothing == [user |-> Absent, doc |-> Absent]

TypeOK ==
    /\ doc \in [Users -> Documents \cup {Absent}]
    /\ account \in [Emails -> Users \cup {Absent}]
    /\ tokens \subseteq [user : Users, role : Roles]
    /\ pc \in [Requests -> EndStates \cup {"idle", "account", "insert", "read", "write",
                                      "check", "login", "delete"}]
    /\ copy \in [Requests -> [user : Users, doc : Documents] \cup {Nothing}]
    /\ overtaken \subseteq Requests

Init ==
    /\ doc = [u \in Users |-> IF u \in DOMAIN Initially THEN Initially[u] ELSE Absent]
    /\ account = [e \in Emails |->
                     IF \E u \in DOMAIN Initially : EmailOf[u] = e /\ Initially[u].role = "owner"
                     THEN CHOOSE u \in DOMAIN Initially :
                              EmailOf[u] = e /\ Initially[u].role = "owner"
                     ELSE Absent]
    /\ tokens = {[user |-> u, role |-> Initially[u].role] : u \in DOMAIN Initially}
    /\ pc = [r \in Requests |-> "idle"]
    /\ copy = [r \in Requests |-> Nothing]
    /\ overtaken = {}

Kind(r) == Op[r].kind
Goto(r, where) == pc' = [pc EXCEPT ![r] = where]
Exists(u) == doc[u] # Absent
EmailTaken(e) == \E u \in Users : Exists(u) /\ EmailOf[u] = e

-----------------------------------------------------------------------------
(* A request comes in.                                                     *)

\* (mutant) No check of the role.
ValidUnlessStatus(r) == Kind(r) = "status" => Op[r].arg \in Statuses

Valid(r) ==
    /\ Kind(r) \in {"create", "role"} => Op[r].arg \in Roles
    /\ Kind(r) = "status" => Op[r].arg \in Statuses

\* The Auth middleware takes what the token claims; requireRole looks no
\* further, and the profile is that of the user it names.
Authorized(r) ==
    CASE Kind(r) \in {"register", "login"} -> TRUE
      [] Kind(r) \in {"profile", "refresh"} -> \E t \in tokens : t.user = Op[r].user
      [] OTHER -> \E t \in tokens : t.role \in {"owner", "admin"}

First(r) ==
    CASE Kind(r) = "register" -> "account"
      [] Kind(r) = "create" -> "insert"
      [] Kind(r) = "delete" -> "delete"
      [] OTHER -> "read"

Begin(r) ==
    /\ pc[r] = "idle"
    /\ Goto(r, IF Authorized(r) /\ Valid(r) THEN First(r) ELSE "refused")
    /\ UNCHANGED <<doc, account, tokens, copy, overtaken>>

\* A Mongo operation whose error ends the request, before it took effect.
MongoError(r) ==
    /\ "mongoError" \in Faults
    /\ pc[r] \in {"account", "insert", "read", "write", "check", "delete"}
    /\ Goto(r, "error")
    /\ overtaken' = overtaken \ {r}
    /\ copy' = [copy EXCEPT ![r] = Nothing]
    /\ UNCHANGED <<doc, account, tokens>>

\* One that took effect, and whose answer is lost (the client that leaves takes its
\* context along).
LosesAnswer(r) == "mongoError" \in Faults /\ Goto(r, "error")

Issue(u, role) == tokens' = tokens \cup {[user |-> u, role |-> role]}

-----------------------------------------------------------------------------
(* Register and CreateUser.                                                *)

\* accountStore.Create, under the unique index on the account's email.
InsertAccount(r) ==
    /\ pc[r] = "account"
    /\ LET e == EmailOf[Op[r].user]
       IN  IF account[e] = Absent
           THEN /\ account' = [account EXCEPT ![e] = Op[r].user]
                /\ Goto(r, "insert") \/ LosesAnswer(r)
           ELSE UNCHANGED account /\ Goto(r, "taken")
    /\ UNCHANGED <<doc, tokens, copy, overtaken>>

NewDocument(r) ==
    [name |-> "old",
     role |-> IF Kind(r) = "register" THEN "owner" ELSE Op[r].arg,
     status |-> "active", login |-> Absent]

\* (mutant) No unique index on the user's email.
InsertUserAnyway(r) ==
    /\ pc[r] = "insert"
    /\ doc' = [doc EXCEPT ![Op[r].user] = NewDocument(r)]
    /\ Goto(r, "ok")
    /\ UNCHANGED <<account, tokens, copy, overtaken>>

\* userStore.Create, under the unique index on the user's email.  The account
\* of a Register that fails here stays.
InsertUser(r) ==
    /\ pc[r] = "insert"
    /\ LET u == Op[r].user
       IN  IF EmailTaken(EmailOf[u])
           THEN Goto(r, "taken") /\ UNCHANGED <<doc, tokens>>
           ELSE /\ doc' = [doc EXCEPT ![u] = NewDocument(r)]
                /\ \/ /\ Goto(r, "ok")
                      /\ IF Kind(r) = "register" THEN Issue(u, "owner") ELSE UNCHANGED tokens
                   \/ LosesAnswer(r) /\ UNCHANGED tokens
    /\ UNCHANGED <<account, copy, overtaken>>

-----------------------------------------------------------------------------
(* UpdateProfile, UpdateRole, UpdateStatus, Login and RefreshToken all     *)
(* start with a read.                                                      *)

\* Login looks the email up, the others the id.
Found(r) ==
    {u \in Users : Exists(u) /\ IF Kind(r) = "login" THEN EmailOf[u] = EmailOf[Op[r].user]
                                                     ELSE u = Op[r].user}

\* (mutant) RefreshToken trusts its token.
AdmitsRefresh(r, d) == Kind(r) = "login" => d.status = "active"

Admits(r, d) == Kind(r) \in {"login", "refresh"} => d.status = "active"

ReadUser(r) ==
    /\ pc[r] = "read"
    /\ \/ Found(r) = {} /\ Goto(r, "missing") /\ UNCHANGED copy
       \/ \E u \in Found(r) :
             IF Admits(r, doc[u])
             THEN /\ copy' = [copy EXCEPT ![r] = [user |-> u, doc |-> doc[u]]]
                  /\ Goto(r, IF Kind(r) \in Edits THEN "write" ELSE "check")
             ELSE Goto(r, "refused") /\ UNCHANGED copy
    /\ UNCHANGED <<doc, account, tokens, overtaken>>

WrongPassword(r) ==
    /\ pc[r] = "read" /\ Kind(r) = "login"
    /\ Goto(r, "refused")
    /\ UNCHANGED <<doc, account, tokens, copy, overtaken>>

Edited(r) ==
    CASE Kind(r) = "profile" -> [copy[r].doc EXCEPT !.name = Op[r].arg]
      [] Kind(r) = "role" -> [copy[r].doc EXCEPT !.role = Op[r].arg]
      [] Kind(r) = "status" -> [copy[r].doc EXCEPT !.status = Op[r].arg]

\* The write of r takes effect: the others' copies of that user are now stale.
Overtakes(r) ==
    overtaken' = (overtaken \ {r}) \cup
                 {s \in Requests \ {r} : pc[s] = "write" /\ copy[s].user = copy[r].user}

\* (mutant) An upsert.
WriteUserUpserting(r) ==
    /\ pc[r] = "write"
    /\ doc' = [doc EXCEPT ![copy[r].user] = Edited(r)]
    /\ Goto(r, "ok")
    /\ Overtakes(r)
    /\ copy' = [copy EXCEPT ![r] = Nothing]
    /\ UNCHANGED <<account, tokens>>

\* Update: $set of every field to what was read, but for the one that changes.
WriteUser(r) ==
    /\ pc[r] = "write"
    /\ IF Exists(copy[r].user)
       THEN /\ doc' = [doc EXCEPT ![copy[r].user] = Edited(r)]
            /\ Goto(r, "ok") \/ LosesAnswer(r)
            /\ Overtakes(r)
       ELSE Goto(r, "missing") /\ overtaken' = overtaken \ {r} /\ UNCHANGED doc
    /\ copy' = [copy EXCEPT ![r] = Nothing]
    /\ UNCHANGED <<account, tokens>>

\* The account is read and, since nothing suspends one, found active.
\* RefreshToken then signs; Login has one more write to make.
CheckAccount(r) ==
    /\ pc[r] = "check"
    /\ IF Kind(r) = "refresh"
       THEN /\ Issue(copy[r].user, copy[r].doc.role)
            /\ copy' = [copy EXCEPT ![r] = Nothing]
            /\ Goto(r, "ok")
       ELSE Goto(r, "login") /\ UNCHANGED <<tokens, copy>>
    /\ UNCHANGED <<doc, account, overtaken>>

\* (mutant) The login time is written with Update, like everything else.
RecordLoginWhole(r) ==
    /\ pc[r] = "login"
    /\ doc' = IF Exists(copy[r].user)
              THEN [doc EXCEPT ![copy[r].user] = [copy[r].doc EXCEPT !.login = r]] ELSE doc
    /\ Issue(copy[r].user, copy[r].doc.role)
    /\ copy' = [copy EXCEPT ![r] = Nothing]
    /\ Goto(r, "ok")
    /\ UNCHANGED <<account, overtaken>>

\* UpdateLastLogin: $set of that field alone; if it fails the login does not.
RecordLogin(r) ==
    /\ pc[r] = "login"
    /\ \/ doc' = IF Exists(copy[r].user) THEN [doc EXCEPT ![copy[r].user].login = r] ELSE doc
       \/ "mongoError" \in Faults /\ UNCHANGED doc
    /\ Issue(copy[r].user, copy[r].doc.role)
    /\ copy' = [copy EXCEPT ![r] = Nothing]
    /\ Goto(r, "ok")
    /\ UNCHANGED <<account, overtaken>>

-----------------------------------------------------------------------------
DeleteUser(r) ==
    /\ pc[r] = "delete"
    /\ doc' = [doc EXCEPT ![Op[r].user] = Absent]
    /\ Goto(r, IF Exists(Op[r].user) THEN "ok" ELSE "missing") \/ LosesAnswer(r)
    /\ UNCHANGED <<account, tokens, copy, overtaken>>

TokenExpires ==
    /\ \E t \in tokens : tokens' = tokens \ {t}
    /\ UNCHANGED <<doc, account, pc, copy, overtaken>>

-----------------------------------------------------------------------------
Step(r) ==
    \/ InsertAccount(r) \/ InsertUser(r)
    \/ ReadUser(r) \/ WrongPassword(r) \/ WriteUser(r) \/ CheckAccount(r) \/ RecordLogin(r)
    \/ DeleteUser(r)
    \/ MongoError(r)

Next ==
    \/ \E r \in Requests : Begin(r) \/ Step(r)
    \/ TokenExpires

Spec == Init /\ [][Next]_vars

-----------------------------------------------------------------------------
(* Properties.                                                             *)

\* An email belongs to one user at most, however registrations, invitations
\* and deletions of it overlap (the unique index of repository/mongodb/db.go).
OneUserPerEmail ==
    \A u, v \in Users : Exists(u) /\ Exists(v) /\ EmailOf[u] = EmailOf[v] => u = v

\* A user comes into being by an insert only: an update that read it before it
\* was deleted does not bring it back.
DeletedStaysDeleted ==
    [][\A u \in Users : ~Exists(u) /\ doc'[u] # Absent =>
          \E r \in Requests : pc[r] = "insert" /\ pc'[r] # "insert" /\ Op[r].user = u]_vars

\* Update r of u writes.
Writes(r, u) == pc[r] = "write" /\ pc'[r] # "write" /\ Op[r].user = u

\* A user's name, role or status changes only to what an update asks, with the
\* write of that update, or with the write of one that another update overtook:
\* an update writes back the fields it was not about as it read them, which logins,
\* deletions and refreshes never make stale.  (Two updates of one user that overlap
\* do: the later write undoes the earlier one.)
OnlyTheEditedFieldChanges ==
    [][\A u \in Users : Exists(u) /\ doc'[u] \notin {doc[u], Absent} =>
          \A f \in {<<"profile", doc[u].name, doc'[u].name>>,
                    <<"role", doc[u].role, doc'[u].role>>,
                    <<"status", doc[u].status, doc'[u].status>>} :
             f[2] # f[3] => \E r \in Requests :
                               /\ Writes(r, u)
                               /\ (Kind(r) = f[1] /\ Op[r].arg = f[3]) \/ r \in overtaken]_vars

\* No update that read u while it was active is still to write it.
NoneReactivates(u) ==
    \A s \in Requests : pc[s] = "write" /\ copy[s].user = u => copy[s].doc.status # "active"

\* u is suspended for good as far as the updates under way go.
Suspended(u) == Exists(u) /\ doc[u].status = "suspended" /\ NoneReactivates(u)

\* Once a user is suspended and every update that read it active has written, no
\* login and no refresh that starts later succeeds, however deletions, invitations
\* and later updates overlap with them (nobody in this instance sets the status
\* back; an update overtaken by the suspension does, which is why it has to be over).
SuspensionHolds ==
    \A r \in Requests : Kind(r) \in {"login", "refresh"} =>
        [](pc[r] = "idle" /\ Suspended(Op[r].user) => [](pc[r] # "ok"))
=============================================================================
