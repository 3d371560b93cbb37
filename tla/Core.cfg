SPECIFICATION Spec
CONSTANTS
  a = a  b = b  l = l  n1 = n1  n2 = n2
  Pkg <- TwoApps
  Uid <- TwoApps
  UidOf <- OwnUid
  NoPkg = NoPkg
  Critical = {l}
  Flags = {"fg"}
  Sources = {"broadcast"}
  StrictGrace = 1
  Policies <- CorePolicies
  Preset = {}
  NoPreset = NoPreset
  Overlay <- NoOverlay
  RuleTables = {}
  SystemSets <- NoSystem
  TunOwners = {}
  NetPkgs = {}
  ThrottledRules = {}
  ExemptPkgs = {a}
  Faulty = {}
  Meddling = {}
  Zombies = FALSE
  DiskFails = FALSE
  Boots = FALSE
  Horizon = 1
  BootDelay = 1
  LockEvery = 1
  CheckEvery = 1
  MemEvery = 1
  BootEvery = 1
INVARIANTS
  TypeOK
  HeldIsRecorded
  LockedIsPooled
  LockedHasBackup
PROPERTIES
  CooldownHolds
  LifeSpec
