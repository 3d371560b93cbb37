SPECIFICATION PSpec
CONSTANTS
  app1 = app1  root = root
  Uid <- OneUid
  Root = root
  Threshold = 2
  Window = 3
  TTL = 1
  Devices <- AllDevices
  PollEvery = 2
  x = x  y = y  r1 = r1  r2 = r2
  Ids <- RuleIds
  RPkg = {x, y}
  NoId = NoId
  Junk = Junk
  Files <- Texts
  Edits <- TwoTexts
  LastDay = 2
  LastTick = 2
  Capacity = 2
  RotateAt = 1
  Logs = 3
  LastEvent = 5
  TornLines = 1
  Daemon = {d1, d2}
  Nobody = Nobody
  Dead = Dead
  MaxStarts = 3
  MaxStops = 1
  Workers = {w1, w2}
  MainLoop = m
  Commands <- Unnested
  Free = Free
  Idle = Idle
  Releases = {1, 2, 3}
  Sound = {1, 2}
  Installed = 1
  MaxReboots = 2
  MaxCalls = 2
INVARIANTS
  UTypeOK
  NTypeOK
  ATypeOK
  ParsedAsWritten
  BestAnswers
  LostIsOld
  AppendedOnce
  HistoryIsSuffix
  OneServes
  HoldsInOrder
  
  AppliedAgrees
  
PROPERTIES
  DaemonReturns
  NoPhantomTraffic
  SomeoneServes
  LoserLeaves
CHECK_DEADLOCK FALSE
