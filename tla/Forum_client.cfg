SPECIFICATION FairClientSpec
CONSTANTS
  p = p
  q = q
  Client = {p, q}
  Burst = 2
  Second = 1
  Minute = 2
  Half = 4
  Window = 3
  NoReply = NoReply
  NoTarget = NoTarget
  Answers <- AllAnswers
  MaxMessage = 24
  MaxName = 4
  MaxLink = 5
  Ellipsis = 3
  InBold = 1
  Dot = 1
  InLink = 1
  Gap = 1
  Nothing = Nothing
INVARIANTS ClientTypeOK RateIsKept LoggedOutIsNotStructure PageIsWhole MessageFits ContentIsShown
PROPERTIES OwnRetryAfterIsKept OnceDuringCooldown EveryFetchEnds
