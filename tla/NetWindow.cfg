SPECIFICATION NSpec
CONSTANTS
  app1 = app1  root = root
  Uid <- OneUid
  Root = root
  Threshold = 2
  Window = 3
  TTL = 1
  Devices <- AllDevices
  PollEvery = 2
PROPERTIES
  TrafficWakes
