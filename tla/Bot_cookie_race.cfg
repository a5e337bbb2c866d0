SPECIFICATION Spec
CONSTANTS
  u1 = u1
  u2 = u2
  f1 = f1
  f2 = f2
  c1 = c1
  c2 = c2
  NoAccount = NoAccount
  NoJob = NoJob
  NoCookie = NoCookie
  User = {u1}
  ForumUser = {f1}
  Cookie = {c1, c2}
  Owner <- OneUid
  Id <- Distinct
  PageSize = 2
  MaxFeed = 4
  MaxPages = 2
  MaxUsers = 1
  SeenLimit = 3
  Commands = {"bind"}
  MaxBinds = 2
  MaxFaults = 0
INVARIANTS RebindIsDeserved
