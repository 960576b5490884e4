SPECIFICATION Spec
CONSTANTS
  u1 = u1
  u2 = u2
  u3 = u3
  u4 = u4
  e1 = e1
  e2 = e2
  e3 = e3
  register = register
  invite = invite
  invent = invent
  rename = rename
  suspend = suspend
  remove = remove
  login = login
  refresh = refresh
  Absent = Absent
  Users = {u1, u2, u3, u4}
  Emails = {e1, e2, e3}
  EmailOf <- MCEmailOf
  Initially <- MCInitially
  Requests = {register, invite, invent, rename, suspend, remove, login, refresh}
  Op <- MCOp
  Faults = {"mongoError"}
CONSTRAINT Instance
INVARIANT TypeOK
INVARIANT OneUserPerEmail
PROPERTY DeletedStaysDeleted
PROPERTY OnlyTheEditedFieldChanges
PROPERTY SuspensionHolds
CHECK_DEADLOCK FALSE
