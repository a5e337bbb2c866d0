SPECIFICATION Spec
CONSTANTS
  u1 = u1
  u2 = u2
  f1 = f1
  f2 = f2
  c1 = c1
  c2 = c2
  NoAccount = NoAccount
  NoJob = NoJob
  NoCookie = NoCookie
  User = {u1, u2}
  ForumUser = {f1}
  Cookie = {c1}
  Owner <- OneCookie
  Id <- FirstIsThird
  PageSize = 3
  MaxFeed = 3
  MaxPages = 2
  MaxUsers = 1
  SeenLimit = 1
  Commands = {"bind", "status"}
  MaxBinds = 2
  MaxFaults = 1
INVARIANTS RepeatsAreFaults HistoryIsNotSent WithinCapacity
