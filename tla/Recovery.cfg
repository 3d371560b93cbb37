SPECIFICATION RSpec
CONSTANTS
  a = a  b = b  l = l  n1 = n1  n2 = n2
  Pkg <- OneApp
  Uid <- OneApp
  UidOf <- OwnUid
  NoPkg = NoPkg
  Critical = {l}
  Flags = {"fg"}
  Sources = {"broadcast"}
  StrictGrace = 1
  Policies <- ForcedCritical
  Preset = {}
  NoPreset = NoPreset
  Overlay <- NoOverlay
  RuleTables = {}
  SystemSets <- NoSystem
  TunOwners = {}
  NetPkgs = {}
  ThrottledRules = {}
  ExemptPkgs = {}
  Faulty = {a}
  Meddling = {"freeze","thaw"}
  Zombies = TRUE
  DiskFails = TRUE
  Boots = FALSE
  Horizon = 0
  BootDelay = 1
  LockEvery = 2
  CheckEvery = 1
  MemEvery = 1
  BootEvery = 2
INVARIANTS
  ForegroundIsFree
  CriticalIsSpared
  CriticalIsForgotten
PROPERTIES
  ThawsOwn
