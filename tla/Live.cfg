SPECIFICATION Spec
CONSTANTS
  a = a  b = b  l = l  n1 = n1  n2 = n2
  Pkg <- OneApp
  Uid <- OneApp
  UidOf <- OwnUid
  NoPkg = NoPkg
  Critical = {l}
  Flags = {"fg"}
  Sources = {"broadcast"}
  StrictGrace = 1
  Policies <- LivePolicies
  Preset = {}
  NoPreset = NoPreset
  Overlay <- NoOverlay
  RuleTables = {}
  SystemSets <- NoSystem
  TunOwners = {}
  NetPkgs = {}
  ThrottledRules = {}
  ExemptPkgs = {a}
  Faulty = {}
  Meddling = {"freeze","thaw","adj"}
  Zombies = FALSE
  DiskFails = FALSE
  Boots = FALSE
  Horizon = 1
  BootDelay = 1
  LockEvery = 2
  CheckEvery = 2
  MemEvery = 1
  BootEvery = 2
PROPERTIES
  GraceEnds
  ForegroundUnlocks
  
  FrozenEnds
