----------------------------- MODULE AuthProofs -----------------------------
(***************************************************************************)
(* Proofs about the auth service: Users, for any number of users and       *)
(* requests, and at the end Credentials, for any number of rotations.      *)
(* What those about Users rest on: a request that is past Begin was valid, *)
(* a document that was read is complete, and, as long as no other update   *)
(* overtakes an update, nothing but the time of the login changes between  *)
(* its read and its write.                                                 *)
(***************************************************************************)
EXTENDS Users, Credentials, TLAPS

Ongoing == {"account", "insert", "read", "write", "check", "login", "delete"}
Creates(r) == Kind(r) \in {"register", "create"}
HasRead(r) == copy[r] \in [user : Users, doc : Documents]

\* What a request knows of itself by where it stands.
Sound(r) ==
    /\ pc[r] \in Ongoing => Valid(r)
    /\ pc[r] = "account" => Kind(r) = "register"
    /\ pc[r] = "insert" => Creates(r)
    /\ pc[r] \in {"write", "check", "login"} => HasRead(r)
    /\ pc[r] = "write" => Kind(r) \in Edits /\ copy[r].user = Op[r].user

UsersInv == TypeOK /\ \A r \in Requests : Sound(r)

-----------------------------------------------------------------------------
LEMMA ConstantTypes ==
    ASSUME NEW r \in Requests
    PROVE  /\ Op[r] \in [kind : Kinds, user : Users, arg : Args]
           /\ Op[r].user \in Users /\ Kind(r) \in Kinds /\ EmailOf[Op[r].user] \in Emails
           /\ Kind(r) = "profile" => Op[r].arg \in Names
           /\ Absent \notin Documents /\ Absent \notin Users
           /\ Creates(r) => Op[r].user \notin DOMAIN Initially
  BY UsersAssumption DEF Kind, Creates

LEMMA InitUsers == ASSUME Init PROVE UsersInv
  <1>1. doc \in [Users -> Documents \cup {Absent}]
    BY UsersAssumption DEF Init
  <1>2. account \in [Emails -> Users \cup {Absent}]
    <2>1. ASSUME NEW e \in Emails,
                 \E u \in DOMAIN Initially : EmailOf[u] = e /\ Initially[u].role = "owner"
          PROVE  (CHOOSE u \in DOMAIN Initially : EmailOf[u] = e /\ Initially[u].role = "owner") \in Users
      BY <2>1, UsersAssumption
    <2> QED
      BY <2>1 DEF Init
  <1>3. tokens \subseteq [user : Users, role : Roles]
    BY UsersAssumption DEF Init, Documents
  <1> QED
    BY <1>1, <1>2, <1>3 DEF Init, UsersInv, TypeOK, Sound, Ongoing, Nothing, EndStates

\* A new document is complete, and so is one that an update, or a login, has changed.
LEMMA NewDocumentType ==
    ASSUME NEW r \in Requests, Creates(r), Valid(r)
    PROVE  NewDocument(r) \in Documents
  BY DEF Creates, Valid, NewDocument, Documents, Names, Roles, Statuses

LEMMA EditedType ==
    ASSUME NEW r \in Requests, Valid(r), HasRead(r), Kind(r) \in Edits
    PROVE  /\ Edited(r) \in Documents
           /\ Edited(r).login = copy[r].doc.login
           /\ Kind(r) # "profile" => Edited(r).name = copy[r].doc.name
           /\ Kind(r) # "role" => Edited(r).role = copy[r].doc.role
           /\ Kind(r) # "status" => Edited(r).status = copy[r].doc.status
           /\ Kind(r) = "profile" => Edited(r).name = Op[r].arg
           /\ Kind(r) = "role" => Edited(r).role = Op[r].arg
           /\ Kind(r) = "status" => Edited(r).status = Op[r].arg
  <1> DEFINE d == copy[r].doc
             a == Op[r].arg
  <1>0. d \in Documents
    BY DEF HasRead
  <1>1. CASE Kind(r) = "profile"
    <2>1. Edited(r) = [d EXCEPT !.name = a]
      BY <1>1 DEF Edited
    <2>2. a \in Names
      BY <1>1, ConstantTypes
    <2> QED
      BY <1>0, <1>1, <2>1, <2>2 DEF Documents
  <1>2. CASE Kind(r) = "role"
    <2>1. Edited(r) = [d EXCEPT !.role = a]
      BY <1>2 DEF Edited
    <2>2. a \in Roles
      BY <1>2 DEF Valid
    <2> QED
      BY <1>0, <1>2, <2>1, <2>2 DEF Documents
  <1>3. CASE Kind(r) = "status"
    <2>1. Edited(r) = [d EXCEPT !.status = a]
      BY <1>3 DEF Edited
    <2>2. a \in Statuses
      BY <1>3 DEF Valid
    <2> QED
      BY <1>0, <1>3, <2>1, <2>2 DEF Documents
  <1> QED
    BY <1>1, <1>2, <1>3 DEF Edits

-----------------------------------------------------------------------------
(* What each step does to the documents.                                   *)

Creating(r) ==
    /\ pc[r] = "insert" /\ pc'[r] \in {"ok", "error"}
    /\ ~EmailTaken(EmailOf[Op[r].user])
    /\ doc' = [doc EXCEPT ![Op[r].user] = NewDocument(r)]

Writing(r) ==
    /\ pc[r] = "write" /\ pc'[r] \in {"ok", "error"}
    /\ Exists(copy[r].user)
    /\ Overtakes(r)
    /\ doc' = [doc EXCEPT ![copy[r].user] = Edited(r)]

LoggingIn(r) ==
    /\ pc[r] = "login"
    /\ Exists(copy[r].user)
    /\ doc' = [doc EXCEPT ![copy[r].user].login = r]

Deleting(r) == doc' = [doc EXCEPT ![Op[r].user] = Absent]

DocumentStep(r) == Creating(r) \/ Writing(r) \/ LoggingIn(r) \/ Deleting(r)

LEMMA StepsOnDocuments ==
    ASSUME UsersInv, NEW r \in Requests, Begin(r) \/ Step(r)
    PROVE  UNCHANGED doc \/ DocumentStep(r)
  <1> USE DEF Goto, DocumentStep
  <1>0. pc \in [Requests -> EndStates \cup {"idle", "account", "insert", "read", "write",
                                          "check", "login", "delete"}]
    BY DEF UsersInv, TypeOK
  <1>1. CASE InsertUser(r)
    BY <1>0, <1>1 DEF InsertUser, LosesAnswer, Creating
  <1>2. CASE WriteUser(r)
    BY <1>0, <1>2 DEF WriteUser, LosesAnswer, Writing
  <1>3. CASE RecordLogin(r)
    BY <1>0, <1>3 DEF RecordLogin, LoggingIn
  <1>4. CASE DeleteUser(r)
    BY <1>4 DEF DeleteUser, Deleting
  <1>5. CASE Begin(r) \/ InsertAccount(r) \/ ReadUser(r) \/ WrongPassword(r) \/ CheckAccount(r)
             \/ MongoError(r)
    BY <1>5 DEF Begin, InsertAccount, ReadUser, WrongPassword, CheckAccount, MongoError
  <1> QED
    BY <1>1, <1>2, <1>3, <1>4, <1>5 DEF Step

LEMMA DocumentTypes ==
    ASSUME UsersInv, NEW r \in Requests, DocumentStep(r) \/ UNCHANGED doc
    PROVE  doc' \in [Users -> Documents \cup {Absent}]
  <1>0. doc \in [Users -> Documents \cup {Absent}] /\ Sound(r)
    BY DEF UsersInv, TypeOK
  <1>1. CASE Creating(r)
    <2>1. NewDocument(r) \in Documents
      BY <1>0, <1>1, NewDocumentType DEF Creating, Sound, Ongoing
    <2> QED
      BY <1>0, <1>1, <2>1 DEF Creating
  <1>2. CASE Writing(r)
    <2>1. Edited(r) \in Documents
      BY <1>0, <1>2, EditedType DEF Writing, Sound, Ongoing
    <2> QED
      BY <1>0, <1>2, <2>1 DEF Writing
  <1>3. CASE LoggingIn(r)
    <2> DEFINE u == copy[r].user
    <2>1. u \in Users /\ doc[u] \in Documents
      BY <1>0, <1>3 DEF LoggingIn, Sound, HasRead, Exists
    <2>2. doc' = [doc EXCEPT ![u] = [doc[u] EXCEPT !.login = r]]
      BY <1>3 DEF LoggingIn
    <2>3. [doc[u] EXCEPT !.login = r] \in Documents
      BY <2>1 DEF Documents
    <2> QED
      BY <1>0, <2>2, <2>3
  <1>4. CASE Deleting(r)
    BY <1>0, <1>4 DEF Deleting
  <1> QED
    BY <1>0, <1>1, <1>2, <1>3, <1>4 DEF DocumentStep

-----------------------------------------------------------------------------
LEMMA NextUsers ==
    ASSUME UsersInv, [Next]_vars
    PROVE  UsersInv'
  <1> USE DEF Goto, LosesAnswer, EndStates
  <1> DEFINE Places == EndStates \cup Ongoing \cup {"idle"}
  <1>0. TypeOK /\ \A r \in Requests : Sound(r)
    BY DEF UsersInv
  <1>1. ASSUME NEW r \in Requests, Begin(r) \/ Step(r)
        PROVE  UsersInv'
    <2>0. doc' \in [Users -> Documents \cup {Absent}]
      BY <1>1, StepsOnDocuments, DocumentTypes
    <2>1. /\ Op[r].user \in Users /\ EmailOf[Op[r].user] \in Emails
          /\ Kind(r) \in Kinds /\ Sound(r)
      BY <1>0, ConstantTypes
    <2>2. /\ \E to \in Places : pc' = [pc EXCEPT ![r] = to]
          /\ \/ UNCHANGED copy
             \/ copy' = [copy EXCEPT ![r] = Nothing]
             \/ \E u \in Found(r) : copy' = [copy EXCEPT ![r] = [user |-> u, doc |-> doc[u]]]
      BY <1>1 DEF Begin, First, Step, InsertAccount, InsertUser, ReadUser, WrongPassword, WriteUser,
                  CheckAccount, RecordLogin, DeleteUser, MongoError, Ongoing
    <2>3. \A u \in Found(r) : u \in Users /\ doc[u] \in Documents
      BY <1>0 DEF Found, Exists, TypeOK
    <2>4. pc' \in [Requests -> Places] /\ \A s \in Requests : s # r => pc'[s] = pc[s]
      BY <1>0, <2>2 DEF TypeOK, Ongoing
    <2>5. /\ copy' \in [Requests -> [user : Users, doc : Documents] \cup {Nothing}]
          /\ \A s \in Requests : s # r => copy'[s] = copy[s]
      BY <1>0, <2>2, <2>3 DEF TypeOK
    <2>6. account' \in [Emails -> Users \cup {Absent}]
      BY <1>0, <1>1, <2>1
         DEF Begin, Step, InsertAccount, InsertUser, ReadUser, WrongPassword, WriteUser,
             CheckAccount, RecordLogin, DeleteUser, MongoError, TypeOK
    <2>7. tokens' \subseteq [user : Users, role : Roles]
      <3>1. \/ UNCHANGED tokens
            \/ Issue(Op[r].user, "owner")
            \/ pc[r] \in {"check", "login"} /\ Issue(copy[r].user, copy[r].doc.role)
        BY <1>1 DEF Begin, Step, InsertAccount, InsertUser, ReadUser, WrongPassword, WriteUser,
                    CheckAccount, RecordLogin, DeleteUser, MongoError
      <3>2. HasRead(r) => copy[r].user \in Users /\ copy[r].doc.role \in Roles
        BY DEF HasRead, Documents
      <3>3. "owner" \in Roles
        BY DEF Roles
      <3> QED
        BY <1>0, <2>1, <3>1, <3>2, <3>3 DEF Issue, TypeOK, Sound
    <2>11. overtaken' \subseteq Requests
      BY <1>0, <1>1
         DEF Begin, Step, InsertAccount, InsertUser, ReadUser, WrongPassword, WriteUser,
             CheckAccount, RecordLogin, DeleteUser, MongoError, Overtakes, TypeOK
    <2>8. TypeOK'
      BY <2>0, <2>4, <2>5, <2>6, <2>7, <2>11 DEF TypeOK, Ongoing
    <2>9. ASSUME NEW s \in Requests, s # r PROVE Sound(s)'
      BY <1>0, <2>4, <2>5, <2>9 DEF Sound, HasRead, Valid, Kind, Creates
    <2>10. Sound(r)'
      <3>1. CASE Begin(r)
        BY <1>0, <2>1, <3>1 DEF Begin, First, Sound, Ongoing, TypeOK, Kind, Creates, Valid
      <3>2. CASE InsertAccount(r)
        BY <1>0, <2>1, <3>2 DEF InsertAccount, Sound, Ongoing, TypeOK, Kind, Creates, Valid
      <3>3. CASE ReadUser(r)
        <4>1. CASE pc'[r] = "missing" \/ pc'[r] = "refused"
          BY <4>1 DEF Sound, Ongoing
        <4>2. CASE \E u \in Found(r) : /\ copy' = [copy EXCEPT ![r] = [user |-> u, doc |-> doc[u]]]
                                       /\ pc' = [pc EXCEPT ![r] = IF Kind(r) \in Edits
                                                                  THEN "write" ELSE "check"]
          <5>1. PICK u \in Found(r) : /\ copy' = [copy EXCEPT ![r] = [user |-> u, doc |-> doc[u]]]
                                      /\ pc' = [pc EXCEPT ![r] = IF Kind(r) \in Edits
                                                                 THEN "write" ELSE "check"]
            BY <4>2
          <5>2. /\ copy'[r] = [user |-> u, doc |-> doc[u]]
                /\ pc'[r] = IF Kind(r) \in Edits THEN "write" ELSE "check"
            BY <1>0, <5>1 DEF TypeOK
          <5>3. HasRead(r)'
            BY <2>3, <5>2 DEF HasRead
          <5>4. Kind(r) \in Edits => u = Op[r].user
            BY DEF Found, Edits
          <5>5. Valid(r)
            BY <2>1, <3>3 DEF ReadUser, Sound, Ongoing
          <5> QED
            BY <5>2, <5>3, <5>4, <5>5 DEF Sound, Kind, Valid, Creates
        <4> QED
          BY <1>0, <3>3, <4>1, <4>2 DEF ReadUser, TypeOK
      <3>4. CASE CheckAccount(r)
        <4>1. \/ pc'[r] = "ok"
              \/ pc'[r] = "login" /\ UNCHANGED copy
          BY <1>0, <3>4 DEF CheckAccount, TypeOK
        <4>2. pc[r] = "check"
          BY <3>4 DEF CheckAccount
        <4> QED
          BY <2>1, <4>1, <4>2 DEF Sound, HasRead, Ongoing, Valid, Kind
      <3>5. CASE InsertUser(r) \/ WrongPassword(r) \/ WriteUser(r) \/ RecordLogin(r)
                 \/ DeleteUser(r) \/ MongoError(r)
        <4>1. pc'[r] \in EndStates
          BY <1>0, <3>5 DEF InsertUser, WrongPassword, WriteUser, RecordLogin, DeleteUser,
                            MongoError, TypeOK
        <4> QED
          BY <4>1 DEF Sound, Ongoing
      <3> QED
        BY <1>1, <3>1, <3>2, <3>3, <3>4, <3>5 DEF Step
    <2> QED
      BY <2>8, <2>9, <2>10 DEF UsersInv
  <1>2. CASE TokenExpires
    BY <1>0, <1>2 DEF TokenExpires, UsersInv, TypeOK, Sound, HasRead
  <1>3. CASE UNCHANGED vars
    BY <1>0, <1>3 DEF vars, UsersInv, TypeOK, Sound, HasRead
  <1> QED
    BY <1>1, <1>2, <1>3 DEF Next

LEMMA UsersInvariant == Spec => []UsersInv
  BY InitUsers, NextUsers, PTL DEF Spec

\* Type correctness: whatever a request asks for, no document gets a role or a status
\* there is not, and every token names a user and a role (isValidRole, isValidStatus).
THEOREM UsersTypeCorrect == Spec => []TypeOK
  <1>1. UsersInv => TypeOK
    BY DEF UsersInv
  <1> QED
    BY <1>1, UsersInvariant, PTL

-----------------------------------------------------------------------------
(* Creation and deletion.                                                  *)

\* A user that was not there is one that its request has just inserted.
LEMMA OnlyInsertsCreate ==
    ASSUME UsersInv, [Next]_vars, NEW u \in Users, ~Exists(u), Exists(u)'
    PROVE  \E r \in Requests : Creating(r) /\ Op[r].user = u
  <1>0. doc \in [Users -> Documents \cup {Absent}]
    BY DEF UsersInv, TypeOK
  <1>1. PICK r \in Requests : DocumentStep(r)
    BY StepsOnDocuments DEF Next, TokenExpires, vars, Exists
  <1>2. Creating(r) /\ Op[r].user = u
    BY <1>0, <1>1 DEF DocumentStep, Creating, Writing, LoggingIn, Deleting, Exists
  <1> QED
    BY <1>2

\* One user per email, however registrations, invitations and deletions of it overlap:
\* the unique index decides.
THEOREM EmailsAreUnique == Spec => []OneUserPerEmail
  <1>1. Init => OneUserPerEmail
    BY UsersAssumption DEF Init, OneUserPerEmail, Exists
  <1>2. ASSUME UsersInv, OneUserPerEmail, [Next]_vars PROVE OneUserPerEmail'
    <2> SUFFICES ASSUME NEW u \in Users, NEW v \in Users, Exists(u)', Exists(v)',
                        EmailOf[u] = EmailOf[v], u # v
                 PROVE  FALSE
      BY DEF OneUserPerEmail
    <2>1. ASSUME NEW x \in Users, NEW y \in Users, x # y, EmailOf[x] = EmailOf[y],
                 ~Exists(x), Exists(x)', Exists(y)'
          PROVE  FALSE
      <3>1. PICK r \in Requests : Creating(r) /\ Op[r].user = x
        BY <1>2, <2>1, OnlyInsertsCreate
      <3>2. ~Exists(y)
        BY <2>1, <3>1 DEF Creating, EmailTaken
      <3>3. doc'[y] = doc[y]
        BY <1>2, <2>1, <3>1 DEF Creating, UsersInv, TypeOK
      <3> QED
        BY <2>1, <3>2, <3>3 DEF Exists
    <2> QED
      BY <1>2, <2>1 DEF OneUserPerEmail
  <1> QED
    BY <1>1, <1>2, UsersInvariant, PTL DEF Spec

\* A user that was deleted is not brought back by an update that read it before: the
\* write is an update by id, not an upsert (repository.Update).
THEOREM DeletionIsFinal == Spec => DeletedStaysDeleted
  <1>1. ASSUME UsersInv, [Next]_vars
        PROVE  [\A u \in Users : ~Exists(u) /\ doc'[u] # Absent =>
                   \E r \in Requests :
                      pc[r] = "insert" /\ pc'[r] # "insert" /\ Op[r].user = u]_vars
    <2> SUFFICES ASSUME NEW u \in Users, ~Exists(u), doc'[u] # Absent
                 PROVE  \E r \in Requests :
                           pc[r] = "insert" /\ pc'[r] # "insert" /\ Op[r].user = u
      OBVIOUS
    <2>1. PICK r \in Requests : Creating(r) /\ Op[r].user = u
      BY <1>1, OnlyInsertsCreate DEF Exists
    <2> QED
      BY <2>1 DEF Creating
  <1> QED
    BY <1>1, UsersInvariant, PTL DEF Spec, DeletedStaysDeleted

-----------------------------------------------------------------------------
(* Updates.                                                                *)

\* What the updates are about; the login time is not.
Same(d, e) == d.name = e.name /\ d.role = e.role /\ d.status = e.status

\* A user that is not made yet is not there and nobody has read it.
NotMade(r) ==
    Creates(r) /\ pc[r] \in {"idle", "account", "insert"} =>
        /\ ~Exists(Op[r].user)
        /\ \A s \in Requests : copy[s].user # Op[r].user

\* What an update has read is what is there, or the user is gone, or another update
\* wrote.
Fresh(r) ==
    pc[r] = "write" /\ Exists(copy[r].user) =>
        Same(copy[r].doc, doc[copy[r].user]) \/ r \in overtaken

EditInv == \A r \in Requests : NotMade(r) /\ Fresh(r)

LEMMA InitEdits == ASSUME Init PROVE EditInv
  BY UsersAssumption DEF Init, EditInv, NotMade, Fresh, Creates, Kind, Exists, Nothing

LEMMA NotMadeKept ==
    ASSUME UsersInv, EditInv, NEW r \in Requests, Begin(r) \/ Step(r), NEW q \in Requests
    PROVE  NotMade(q)'
  <1> USE DEF Goto, LosesAnswer
  <1> SUFFICES ASSUME Creates(q), pc'[q] \in {"idle", "account", "insert"}
               PROVE  /\ ~Exists(Op[q].user)'
                      /\ \A s \in Requests : copy'[s].user # Op[q].user
    BY DEF NotMade, Creates, Kind
  <1>0. TypeOK /\ Op[q].user \in Users
    BY ConstantTypes DEF UsersInv
  <1>1. pc[q] \in {"idle", "account", "insert"}
    BY <1>0 DEF Begin, Step, InsertAccount, InsertUser, ReadUser, WrongPassword, WriteUser,
                CheckAccount, RecordLogin, DeleteUser, MongoError, TypeOK, EndStates
  <1>2. ~Exists(Op[q].user) /\ \A s \in Requests : copy[s].user # Op[q].user
    BY <1>1 DEF EditInv, NotMade
  <1>3. ~Exists(Op[q].user)'
    <2> SUFFICES ASSUME Exists(Op[q].user)' PROVE FALSE
      OBVIOUS
    <2>1. PICK x \in Requests : Creating(x) /\ Op[x].user = Op[q].user
      BY <1>0, <1>2, OnlyInsertsCreate DEF Next
    <2>2. Creates(x)
      BY <2>1 DEF Creating, UsersInv, Sound
    <2>3. x = q
      BY <2>1, <2>2, UsersAssumption DEF Creates, Kind
    <2> QED
      BY <2>1, <2>3 DEF Creating
  <1>4. \/ UNCHANGED copy
        \/ copy' = [copy EXCEPT ![r] = Nothing]
        \/ \E u \in Found(r) : copy' = [copy EXCEPT ![r] = [user |-> u, doc |-> doc[u]]]
    BY DEF Begin, Step, InsertAccount, InsertUser, ReadUser, WrongPassword, WriteUser,
           CheckAccount, RecordLogin, DeleteUser, MongoError
  <1>5. Op[q].user \notin Found(r) /\ Op[q].user # Absent
    BY <1>0, <1>2, ConstantTypes DEF Found
  <1>6. \A s \in Requests : copy'[s].user # Op[q].user
    BY <1>0, <1>2, <1>4, <1>5 DEF TypeOK, Nothing
  <1> QED
    BY <1>3, <1>6

LEMMA FreshKept ==
    ASSUME UsersInv, EditInv, NEW r \in Requests, Begin(r) \/ Step(r), NEW q \in Requests
    PROVE  Fresh(q)'
  <1> USE DEF Goto, LosesAnswer
  <1> SUFFICES ASSUME pc'[q] = "write", Exists(copy[q].user)'
               PROVE  Same(copy'[q].doc, doc'[copy'[q].user]) \/ q \in overtaken'
    BY DEF Fresh
  <1>0. TypeOK /\ Sound(q) /\ Sound(r)
    BY DEF UsersInv
  <1>1. CASE q = r
    <2>1. ReadUser(r)
      BY <1>0, <1>1 DEF Begin, First, Step, InsertAccount, InsertUser, ReadUser, WrongPassword,
                   WriteUser, CheckAccount, RecordLogin, DeleteUser, MongoError, TypeOK, EndStates
    <2>2. PICK u \in Found(r) : copy' = [copy EXCEPT ![r] = [user |-> u, doc |-> doc[u]]]
      BY <1>0, <1>1, <2>1 DEF ReadUser, TypeOK
    <2>3. copy'[q] = [user |-> u, doc |-> doc[u]] /\ UNCHANGED doc
      BY <1>0, <1>1, <2>1, <2>2 DEF ReadUser, TypeOK
    <2> QED
      BY <2>3 DEF Same
  <1>2. CASE q # r
    <2> DEFINE u == copy[q].user
    <2>1. pc[q] = "write" /\ copy'[q] = copy[q]
      BY <1>0, <1>2 DEF Begin, Step, InsertAccount, InsertUser, ReadUser, WrongPassword, WriteUser,
                        CheckAccount, RecordLogin, DeleteUser, MongoError, TypeOK
    <2>2. u \in Users /\ HasRead(q) /\ Kind(q) \in Edits
      BY <1>0, <2>1 DEF Sound, HasRead
    <2>8. q \in overtaken => q \in overtaken'
      BY <1>2, <2>1 DEF Begin, Step, InsertAccount, InsertUser, ReadUser, WrongPassword, WriteUser,
                        CheckAccount, RecordLogin, DeleteUser, MongoError, Overtakes
    <2>3. CASE UNCHANGED doc
      BY <2>1, <2>3, <2>8 DEF EditInv, Fresh, Exists
    <2>4. CASE Creating(r)
      <3>1. Op[r].user # u
        BY <1>0, <2>4 DEF Creating, EditInv, NotMade, Sound
      <3>2. doc'[u] = doc[u]
        BY <1>0, <2>2, <2>4, <3>1 DEF Creating, TypeOK
      <3> QED
        BY <2>1, <2>8, <3>2 DEF EditInv, Fresh, Exists
    <2>5. CASE Writing(r)
      <3>1. CASE copy[r].user = u
        BY <1>2, <2>1, <2>5, <3>1 DEF Writing, Overtakes
      <3>2. CASE copy[r].user # u
        <4>1. doc'[u] = doc[u]
          BY <1>0, <2>2, <2>5, <3>2 DEF Writing, TypeOK
        <4> QED
          BY <2>1, <2>8, <4>1 DEF EditInv, Fresh, Exists
      <3> QED
        BY <3>1, <3>2
    <2>6. CASE LoggingIn(r)
      <3>1. doc'[u] = doc[u] \/ doc'[u] = [doc[u] EXCEPT !.login = r]
        BY <1>0, <2>2, <2>6 DEF LoggingIn, TypeOK
      <3>2. Exists(u)
        BY <1>0, <2>1, <2>2, <2>6 DEF LoggingIn, TypeOK, Exists
      <3>3. doc[u] \in Documents
        BY <1>0, <2>2, <3>2 DEF TypeOK, Exists
      <3>4. Same(doc[u], doc'[u])
        BY <3>1, <3>3 DEF Same, Documents
      <3> QED
        BY <2>1, <2>8, <3>2, <3>4 DEF EditInv, Fresh, Same
    <2>7. CASE Deleting(r)
      <3>1. doc'[u] = doc[u]
        BY <1>0, <2>1, <2>2, <2>7 DEF Deleting, TypeOK, Exists
      <3> QED
        BY <2>1, <2>8, <3>1 DEF EditInv, Fresh, Exists
    <2> QED
      BY <2>3, <2>4, <2>5, <2>6, <2>7, StepsOnDocuments DEF DocumentStep
  <1> QED
    BY <1>1, <1>2

LEMMA NextEdits ==
    ASSUME UsersInv, EditInv, [Next]_vars
    PROVE  EditInv'
  <1>1. ASSUME NEW r \in Requests, Begin(r) \/ Step(r) PROVE EditInv'
    BY <1>1, NotMadeKept, FreshKept DEF EditInv
  <1>2. CASE TokenExpires \/ UNCHANGED vars
    BY <1>2 DEF TokenExpires, vars, EditInv, NotMade, Fresh, Creates, Kind,
                Exists, Same
  <1> QED
    BY <1>1, <1>2 DEF Next

\* However many updates, logins, deletions and invitations overlap, a user's name, role
\* and status change only to what an update asks for, with the write of that update,
\* or with the write of one that another update overtook: nothing but an update makes
\* stale what the full write of user/service.go writes back.
THEOREM EditsKeepTheRest == Spec => OnlyTheEditedFieldChanges
  <1> DEFINE Changes(u) == {<<"profile", doc[u].name, doc'[u].name>>,
                            <<"role", doc[u].role, doc'[u].role>>,
                            <<"status", doc[u].status, doc'[u].status>>}
  <1>1. ASSUME UsersInv, EditInv, [Next]_vars,
               NEW u \in Users, Exists(u), doc'[u] \notin {doc[u], Absent}, NEW f \in Changes(u), f[2] # f[3]
        PROVE  \E r \in Requests :
                  Writes(r, u) /\ ((Kind(r) = f[1] /\ Op[r].arg = f[3]) \/ r \in overtaken)
    <2>0. TypeOK /\ doc[u] \in Documents
      BY <1>1 DEF UsersInv, TypeOK, Exists
    <2>1. doc'[u] # doc[u]
      BY <1>1
    <2>2. PICK r \in Requests : DocumentStep(r)
      BY <1>1, <2>1, StepsOnDocuments DEF Next, TokenExpires, vars
    <2>3. ~Creating(r)
      BY <1>1, <2>0, <2>1 DEF Creating, EmailTaken, TypeOK, Exists
    <2>4. ~Deleting(r)
      BY <1>1, <2>0, <2>1 DEF Deleting, TypeOK
    <2>5. ~LoggingIn(r)
      <3>1. LoggingIn(r) => doc'[u] = doc[u] \/ doc'[u] = [doc[u] EXCEPT !.login = r]
        BY <2>0 DEF LoggingIn, TypeOK
      <3>2. doc'[u] = [doc[u] EXCEPT !.login = r] => Same(doc[u], doc'[u])
        BY <2>0 DEF Same, Documents
      <3>3. ~Same(doc[u], doc'[u])
        BY <1>1 DEF Same
      <3> QED
        BY <2>1, <3>1, <3>2, <3>3
    <2>6. Writing(r) /\ Sound(r)
      BY <1>1, <2>2, <2>3, <2>4, <2>5 DEF DocumentStep, UsersInv
    <2>7. copy[r].user = u /\ Op[r].user = u /\ doc'[u] = Edited(r)
      BY <2>0, <2>1, <2>6 DEF Writing, TypeOK, Sound
    <2>8. Same(copy[r].doc, doc[u]) \/ r \in overtaken
      BY <1>1, <2>6, <2>7 DEF Writing, EditInv, Fresh
    <2>9. /\ Kind(r) # "profile" => Edited(r).name = copy[r].doc.name
          /\ Kind(r) # "role" => Edited(r).role = copy[r].doc.role
          /\ Kind(r) # "status" => Edited(r).status = copy[r].doc.status
          /\ Kind(r) = "profile" => Edited(r).name = Op[r].arg
          /\ Kind(r) = "role" => Edited(r).role = Op[r].arg
          /\ Kind(r) = "status" => Edited(r).status = Op[r].arg
      BY <2>6, EditedType DEF Writing, Sound, Ongoing
    <2>10. (Kind(r) = f[1] /\ Op[r].arg = f[3]) \/ r \in overtaken
      BY <1>1, <2>7, <2>8, <2>9 DEF Same
    <2> QED
      BY <2>6, <2>7, <2>10 DEF Writes, Writing
  <1>2. ASSUME UsersInv, EditInv, [Next]_vars
        PROVE  [\A u \in Users : Exists(u) /\ doc'[u] \notin {doc[u], Absent} =>
                   \A f \in Changes(u) :
                      f[2] # f[3] =>
                          \E r \in Requests :
                             /\ Writes(r, u)
                             /\ (Kind(r) = f[1] /\ Op[r].arg = f[3]) \/ r \in overtaken]_vars
    BY <1>1, <1>2
  <1>3. Init => EditInv
    BY InitEdits
  <1>4. UsersInv /\ EditInv /\ [Next]_vars => EditInv'
    BY NextEdits
  <1> QED
    BY <1>2, <1>3, <1>4, UsersInvariant, PTL DEF Spec, OnlyTheEditedFieldChanges

-----------------------------------------------------------------------------
(* Suspension.                                                             *)

\* What SuspensionHolds takes for granted of the requests: no update makes a user
\* active again, and nobody else is ever given the email that a login asks for.
SuspensionAssumption ==
    /\ \A s \in Requests : Kind(s) = "status" => Op[s].arg # "active"
    /\ \A r, s \in Requests :
          Kind(r) = "login" /\ Creates(s) /\ EmailOf[Op[s].user] = EmailOf[Op[r].user]
              => Op[s].user = Op[r].user

\* From then on a request of that user is shut out: the user is not active, no update
\* is about to write that it is, and no insert of it or of its email is to come.
Inactive(u) == Exists(u) => doc[u].status # "active"
NoneRecreates(u) ==
    \A s \in Requests : Creates(s) /\ Op[s].user = u => pc[s] \notin {"idle", "account", "insert"}
AloneUnderEmail(u) == \A v \in Users : Exists(v) /\ EmailOf[v] = EmailOf[u] => v = u

ShutOut(r) ==
    /\ pc[r] \in {"idle", "read"} \cup (EndStates \ {"ok"})
    /\ Inactive(Op[r].user)
    /\ NoneReactivates(Op[r].user)
    /\ NoneRecreates(Op[r].user)
    /\ Kind(r) = "login" => AloneUnderEmail(Op[r].user)

LEMMA SuspensionShutsOut ==
    ASSUME UsersInv, EditInv, OneUserPerEmail, NEW r \in Requests,
           pc[r] = "idle", Suspended(Op[r].user)
    PROVE  ShutOut(r)
  <1> DEFINE u == Op[r].user
  <1>1. u \in Users /\ Exists(u) /\ Inactive(u)
    BY ConstantTypes DEF Suspended, Inactive
  <1>2. NoneReactivates(u)
    BY DEF Suspended
  <1>3. NoneRecreates(u)
    BY <1>1 DEF NoneRecreates, EditInv, NotMade
  <1>4. AloneUnderEmail(u)
    BY <1>1 DEF AloneUnderEmail, OneUserPerEmail
  <1> QED
    BY <1>1, <1>2, <1>3, <1>4 DEF ShutOut

\* An insert would be of that user, or of its email, and none is to come.
LEMMA NoneIsInserted ==
    ASSUME SuspensionAssumption, UsersInv, NEW r \in Requests, ShutOut(r),
           NEW s \in Requests, Creating(s)
    PROVE  /\ Op[s].user # Op[r].user
           /\ Kind(r) = "login" => EmailOf[Op[s].user] # EmailOf[Op[r].user]
  <1>1. Creates(s) /\ pc[s] = "insert"
    BY DEF Creating, UsersInv, Sound
  <1>2. Op[s].user # Op[r].user
    BY <1>1 DEF ShutOut, NoneRecreates
  <1> QED
    BY <1>1, <1>2 DEF SuspensionAssumption

LEMMA StaysInactive ==
    ASSUME SuspensionAssumption, UsersInv, NEW r \in Requests, ShutOut(r),
           NEW s \in Requests, Begin(s) \/ Step(s)
    PROVE  Inactive(Op[r].user)' /\ (Kind(r) = "login" => AloneUnderEmail(Op[r].user)')
  <1> DEFINE u == Op[r].user
  <1>0. /\ u \in Users /\ doc \in [Users -> Documents \cup {Absent}] /\ Sound(s)
        /\ Inactive(u) /\ NoneReactivates(u)
    BY ConstantTypes DEF UsersInv, TypeOK, ShutOut
  <1>1. CASE UNCHANGED doc
    BY <1>1 DEF ShutOut, Inactive, AloneUnderEmail, Exists
  <1>2. CASE Creating(s)
    <2>1. Op[s].user \in Users /\ Op[s].user # u
          /\ (Kind(r) = "login" => EmailOf[Op[s].user] # EmailOf[u])
      BY <1>2, NoneIsInserted, ConstantTypes
    <2>2. \A v \in Users : v # Op[s].user => doc'[v] = doc[v]
      BY <1>0, <1>2 DEF Creating
    <2> QED
      BY <1>0, <2>1, <2>2 DEF ShutOut, Inactive, AloneUnderEmail, Exists
  <1>3. CASE Writing(s)
    <2>1. /\ Kind(s) \in Edits /\ copy[s].user = Op[s].user /\ HasRead(s) /\ Valid(s)
          /\ copy[s].user \in Users
      BY <1>0, <1>3 DEF Writing, Sound, Ongoing, HasRead
    <2>2. copy[s].user = u => Edited(s).status # "active"
      BY <1>0, <1>3, <2>1, EditedType DEF Writing, NoneReactivates, SuspensionAssumption
    <2>3. doc'[u] = IF copy[s].user = u THEN Edited(s) ELSE doc[u]
      BY <1>0, <1>3 DEF Writing
    <2>4. \A v \in Users : Exists(v)' => Exists(v)
      BY <1>0, <1>3 DEF Writing, Exists
    <2> QED
      BY <1>0, <2>2, <2>3, <2>4 DEF ShutOut, Inactive, AloneUnderEmail, Exists
  <1>4. CASE LoggingIn(s)
    <2>1. \A v \in Users : \/ doc'[v] = doc[v]
                           \/ Exists(v) /\ doc'[v] = [doc[v] EXCEPT !.login = s]
      BY <1>0, <1>4 DEF LoggingIn
    <2>2. Exists(u) => doc[u] \in Documents
      BY <1>0 DEF Exists
    <2>3. Exists(u) => [doc[u] EXCEPT !.login = s].status = doc[u].status
      BY <2>2 DEF Documents
    <2>4. \A v \in Users : Exists(v)' => Exists(v)
      BY <2>1 DEF Exists
    <2> QED
      BY <1>0, <2>1, <2>3, <2>4 DEF ShutOut, Inactive, AloneUnderEmail, Exists
  <1>5. CASE Deleting(s)
    <2>1. \A v \in Users : doc'[v] = doc[v] \/ doc'[v] = Absent
      BY <1>0, <1>5 DEF Deleting
    <2> QED
      BY <1>0, <2>1 DEF ShutOut, Inactive, AloneUnderEmail, Exists
  <1> QED
    BY <1>1, <1>2, <1>3, <1>4, <1>5, StepsOnDocuments DEF DocumentStep

LEMMA StaysShutOut ==
    ASSUME SuspensionAssumption, UsersInv, NEW r \in Requests, Kind(r) \in {"login", "refresh"},
           ShutOut(r), NEW s \in Requests, Begin(s) \/ Step(s)
    PROVE  ShutOut(r)'
  <1> USE DEF Goto, LosesAnswer
  <1> DEFINE u == Op[r].user
  <1>0. /\ TypeOK /\ Sound(r) /\ Sound(s) /\ u \in Users
        /\ Inactive(u) /\ NoneReactivates(u) /\ NoneRecreates(u)
    BY ConstantTypes DEF UsersInv, ShutOut
  \* A read finds nobody, or a user who is not active.
  <1>1. \A v \in Found(r) : ~Admits(r, doc[v])
    <2>1. \A v \in Found(r) : v = u /\ Exists(u)
      BY DEF Found, ShutOut, AloneUnderEmail
    <2> QED
      BY <1>0, <2>1 DEF Inactive, Admits
  <1>2. pc'[r] \in {"idle", "read"} \cup (EndStates \ {"ok"})
    <2>1. CASE s # r
      BY <1>0, <2>1 DEF Begin, Step, InsertAccount, InsertUser, ReadUser, WrongPassword, WriteUser,
                        CheckAccount, RecordLogin, DeleteUser, MongoError, TypeOK, ShutOut
    <2>2. CASE s = r
      <3>1. pc[r] \in {"idle", "read"}
        BY <2>2 DEF ShutOut, EndStates, Begin, Step, InsertAccount, InsertUser, ReadUser,
                    WrongPassword, WriteUser, CheckAccount, RecordLogin, DeleteUser, MongoError
      <3>2. CASE Begin(r)
        BY <1>0, <3>2 DEF Begin, First, TypeOK, EndStates
      <3>3. CASE ReadUser(r)
        BY <1>0, <1>1, <3>3 DEF ReadUser, TypeOK, EndStates
      <3>4. CASE WrongPassword(r) \/ MongoError(r)
        BY <1>0, <3>4 DEF WrongPassword, MongoError, TypeOK, EndStates
      <3> QED
        BY <2>2, <3>1, <3>2, <3>3, <3>4 DEF Step, InsertAccount, InsertUser, WriteUser,
                    CheckAccount, RecordLogin, DeleteUser
    <2> QED
      BY <2>1, <2>2
  \* A new reader finds the user as it is.
  <1>3. NoneReactivates(u)'
    <2> SUFFICES ASSUME NEW x \in Requests, pc'[x] = "write", copy'[x].user = u
                 PROVE  copy'[x].doc.status # "active"
      BY DEF NoneReactivates
    <2>1. CASE x = s
      <3>1. ReadUser(s)
        BY <1>0, <2>1 DEF Begin, First, Step, InsertAccount, InsertUser, ReadUser, WrongPassword,
                     WriteUser, CheckAccount, RecordLogin, DeleteUser, MongoError, TypeOK, EndStates
      <3>2. PICK v \in Found(s) : copy' = [copy EXCEPT ![s] = [user |-> v, doc |-> doc[v]]]
        BY <1>0, <2>1, <3>1 DEF ReadUser, TypeOK
      <3>3. v = u /\ Exists(u) /\ copy'[x].doc = doc[u]
        BY <1>0, <2>1, <3>2 DEF Found, TypeOK
      <3> QED
        BY <1>0, <3>3 DEF Inactive
    <2>2. CASE x # s
      <3>1. pc[x] = "write" /\ copy'[x] = copy[x]
        BY <1>0, <2>2 DEF Begin, Step, InsertAccount, InsertUser, ReadUser, WrongPassword, WriteUser,
                          CheckAccount, RecordLogin, DeleteUser, MongoError, TypeOK
      <3> QED
        BY <1>0, <3>1 DEF NoneReactivates
    <2> QED
      BY <2>1, <2>2
  <1>4. NoneRecreates(u)'
    <2> SUFFICES ASSUME NEW x \in Requests, Creates(x), Op[x].user = u
                 PROVE  pc'[x] \notin {"idle", "account", "insert"}
      BY DEF NoneRecreates, Creates, Kind
    <2>1. pc[x] \notin {"idle", "account", "insert"}
      BY <1>0 DEF NoneRecreates
    <2> QED
      BY <1>0, <2>1 DEF Begin, Step, InsertAccount, InsertUser, ReadUser, WrongPassword, WriteUser,
                        CheckAccount, RecordLogin, DeleteUser, MongoError, TypeOK, EndStates
  <1>5. Inactive(u)' /\ (Kind(r) = "login" => AloneUnderEmail(u)')
    BY StaysInactive
  <1> QED
    BY <1>2, <1>3, <1>4, <1>5 DEF ShutOut, Kind

\* Once a user is suspended and every update that read it active has written, no login
\* and no refresh that starts later succeeds, however many logins, refreshes, updates,
\* invitations and deletions are under way: the status is checked on a document that is
\* read after the request began (auth/service.go).
THEOREM SuspensionIsRespected ==
    ASSUME SuspensionAssumption
    PROVE  Spec => SuspensionHolds
  <1>1. ASSUME NEW r \in Requests, Kind(r) \in {"login", "refresh"}
        PROVE  Spec => [](pc[r] = "idle" /\ Suspended(Op[r].user) => [](pc[r] # "ok"))
    <2>1. UsersInv /\ EditInv /\ OneUserPerEmail
             /\ pc[r] = "idle" /\ Suspended(Op[r].user)
             => ShutOut(r)
      BY SuspensionShutsOut
    <2>2. UsersInv /\ ShutOut(r) /\ [Next]_vars => ShutOut(r)'
      <3>1. ASSUME UsersInv, ShutOut(r), NEW s \in Requests, Begin(s) \/ Step(s) PROVE ShutOut(r)'
        BY <1>1, <3>1, StaysShutOut
      <3>2. ASSUME ShutOut(r), TokenExpires \/ UNCHANGED vars PROVE ShutOut(r)'
        BY <3>2 DEF TokenExpires, vars, ShutOut, Inactive, NoneReactivates, NoneRecreates,
                    AloneUnderEmail, Creates, Kind, Exists
      <3> QED
        BY <3>1, <3>2 DEF Next
    <2>3. ShutOut(r) => pc[r] # "ok"
      BY DEF ShutOut, EndStates
    <2>4. Init => EditInv
      BY InitEdits
    <2>5. UsersInv /\ EditInv /\ [Next]_vars => EditInv'
      BY NextEdits
    <2> QED
      BY <2>1, <2>2, <2>3, <2>4, <2>5, UsersInvariant, EmailsAreUnique, PTL DEF Spec
  <1> QED
    BY <1>1 DEF SuspensionHolds

-----------------------------------------------------------------------------
(* Credentials.                                                            *)

\* What is stored and what was told are whole; only a rotation updates; and if
\* nobody was told what is stored, the rotation that stored it is about to read it
\* back, or it failed.
CredentialsInv ==
    /\ place \in [Rotations \cup Calls -> {"idle", "auth", "update", "read", "ok",
                                           "refused", "error"}]
    /\ \A r \in Rotations \cup Calls : place[r] \in {"update", "read"} => r \in Rotations
    /\ credentials = Pair(credentials.sid)
    /\ ToldAreWhole
    /\ \/ credentials \in known
       \/ \E r \in Rotations : credentials.sid = r /\ place[r] \in {"read", "error"}

LEMMA NextCredentials ==
    ASSUME CredentialsInv, [CredentialsNext]_credentialVars
    PROVE  CredentialsInv'
  <1> USE DEF CredentialsInv, Pair, ToldAreWhole, Moves
  <1>1. ASSUME NEW r \in Rotations \cup Calls,
               Present(r) \/ AuthBasic(r) \/ AuthBearer(r)
        PROVE  CredentialsInv'
    BY <1>1 DEF Present, AuthBasic, AuthBearer, Passed
  <1>2. ASSUME NEW r \in Rotations \cup Calls, UpdateCredentials(r)
        PROVE  CredentialsInv'
    BY <1>2 DEF UpdateCredentials
  <1>3. ASSUME NEW r \in Rotations \cup Calls, ReadBack(r)
        PROVE  CredentialsInv'
    BY <1>3 DEF ReadBack
  <1>4. ASSUME NEW r \in Rotations \cup Calls, OperationFails(r)
        PROVE  CredentialsInv'
    BY <1>4 DEF OperationFails
  <1>5. CASE UNCHANGED credentialVars
    BY <1>5 DEF credentialVars
  <1> QED
    BY <1>1, <1>2, <1>3, <1>4, <1>5 DEF CredentialsNext

LEMMA CredentialsInvariant == CredentialsSpec => []CredentialsInv
  <1>1. CredentialsInit => CredentialsInv
    BY DEF CredentialsInit, CredentialsInv, Pair, ToldAreWhole
  <1> QED
    BY <1>1, NextCredentials, PTL DEF CredentialsSpec

\* However many rotations of an account overlap, some client was told its credentials,
\* or a rotation is about to tell them, or the one that stored them failed
\* (RotateAccountCredentials answers what it reads back, not what it generated).
THEOREM SomebodyKnowsTheCredentials == CredentialsSpec => []CredentialsKnown
  <1>1. CredentialsInv => CredentialsKnown
    BY DEF CredentialsInv, CredentialsKnown
  <1> QED
    BY <1>1, CredentialsInvariant, PTL

\* No client is told the SID of one rotation with the token of another.
THEOREM CredentialsAreToldWhole == CredentialsSpec => []ToldAreWhole
  <1>1. CredentialsInv => ToldAreWhole
    BY DEF CredentialsInv
  <1> QED
    BY <1>1, CredentialsInvariant, PTL
=============================================================================
