SPECIFICATION RSpec
CONSTANTS
  a = a  b = b  l = l  n1 = n1  n2 = n2
  Pkg <- OneApp
  Uid <- OneApp
  UidOf <- OwnUid
  NoPkg = NoPkg
  Critical = {l}
  Flags = {"fg"}
  Sources = {"broadcast"}
  StrictGrace = 1
  Policies <- DiscardPolicies
  Preset = {}
  NoPreset = NoPreset
  Overlay <- NoOverlay
  RuleTables <- DiscardRules
  SystemSets <- NoSystem
  TunOwners = {}
  NetPkgs = {}
  ThrottledRules = {}
  ExemptPkgs = {a}
  Faulty = {}
  Meddling = {}
  Zombies = FALSE
  DiskFails = TRUE
  Boots = TRUE
  Horizon = 2
  BootDelay = 1
  LockEvery = 1
  CheckEvery = 1
  MemEvery = 1
  BootEvery = 1
INVARIANTS
  ForegroundRuns

  
  
