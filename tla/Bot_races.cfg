SPECIFICATION Spec
CONSTANTS
  u1 = u1
  u2 = u2
  f1 = f1
  f2 = f2
  c1 = c1
  c2 = c2
  NoAccount = NoAccount
  NoJob = NoJob
  NoCookie = NoCookie
  User = {u1}
  ForumUser = {f1,f2}
  Cookie={c1,c2}
  Owner <- TwoUids
  Id <- SameReplies
  PageSize = 2
  MaxFeed = 2
  MaxPages = 2
  MaxUsers = 1
  SeenLimit = 1
  Commands = {"bind", "unbind", "ban"}
  MaxBinds = 2
  MaxFaults = 0
INVARIANTS TypeOK SeenWasSent NothingSkipped OneWarningPerBinding NoHistoryWithoutAccount FewStrays HistoryIsBounded
SYMMETRY Swap
