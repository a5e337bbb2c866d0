SPECIFICATION FairSpec
CONSTANTS
  Worker = {1, 2}
  MaxUpdate = 3
  From <- Senders
  Kinds <- Texts
  Locks = 64
  Limit = 1
  Period = 1
  MaxStops = 1
INVARIANTS TypeOK NothingIsOverlooked TwiceTheLimit OneHandlerPerUser CloseIsLast
PROPERTIES OffsetNeverFalls RecordedIsOver ShutdownEnds EveryUpdateEnds
