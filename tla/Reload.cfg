SPECIFICATION Spec
CONSTANTS
  a = a  b = b  l = l  n1 = n1  n2 = n2
  Pkg <- OneApp
  Uid <- OneApp
  UidOf <- OwnUid
  NoPkg = NoPkg
  Critical = {l}
  Flags = {"fg"}
  Sources = {"broadcast"}
  StrictGrace = 1
  Policies <- ReloadPolicies
  Preset = {n1, n2}
  NoPreset = NoPreset
  Overlay <- Presets
  RuleTables <- SomeRules
  SystemSets <- AppOrNone
  TunOwners = {a}
  NetPkgs = {a}
  ThrottledRules = {a}
  ExemptPkgs = {}
  Faulty = {}
  Meddling = {}
  Zombies = FALSE
  DiskFails = FALSE
  Boots = FALSE
  Horizon = 0
  BootDelay = 1
  LockEvery = 1
  CheckEvery = 1
  MemEvery = 1
  BootEvery = 1
INVARIANTS
  
  FrozenIsNotWaiting
