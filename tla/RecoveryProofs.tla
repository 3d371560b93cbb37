--------------------------- MODULE RecoveryProofs ---------------------------
(***************************************************************************)
(* Theorems about Recovery: the safety of the engine through deaths and    *)
(* restarts of the daemon, for every value of the constants.               *)
(***************************************************************************)
EXTENDS Recovery, EngineProofs

(* A daemon that is down has an empty memory.                              *)
Down == ~up => Keys(frozen) = {} /\ Keys(grace) = {} /\ last_focus = NoPkg

(* The invariant of the engine, the memory of a daemon that is down, and   *)
(* what the file may list: a restart enters what it lists into the frozen  *)
(* table, so CriticalIsSpared is not inductive without it.                 *)
RInv == IInv /\ up \in BOOLEAN /\ Down /\ CriticalIsForgotten

(* The file changes only to the frozen table of the same step, and the     *)
(* candidates of the last session do not change while the daemon runs.     *)
LEMMA NextSaves ==
    ASSUME Next
    PROVE  /\ disk' \in {disk, Keys(frozen')}
           /\ boot_reclaim_candidates' = boot_reclaim_candidates
<1> DEFINE Goal == /\ disk' \in {disk, Keys(frozen')}
                   /\ boot_reclaim_candidates' = boot_reclaim_candidates
<1>1. CASE Events
  <2>1. ASSUME UNCHANGED <<tickVars, saveVars>> PROVE Goal
    BY <2>1 DEF saveVars, tickVars, bootVars
  <2>2. ASSUME NEW p, NEW e, NEW clock, NEW io, Focus(p, e, clock, io)
        PROVE  UNCHANGED <<tickVars, saveVars>>
    BY <2>2, Zenon DEF Focus
  <2>3. ASSUME NEW p, NEW s, NEW listed, NEW e, NEW io, Wakeup(p, s, listed, e, io)
        PROVE  UNCHANGED <<tickVars, saveVars>>
    BY <2>3, Zenon DEF Wakeup
  <2>4. ASSUME NEW p, NEW fl, Exempt(p, fl)
        PROVE  UNCHANGED <<tickVars, saveVars>>
    BY <2>4, Zenon DEF Exempt
  <2>5. ASSUME NEW p, NEW io, ForceStop(p, io)
        PROVE  UNCHANGED <<tickVars, saveVars>>
    BY <2>5, Zenon DEF ForceStop
  <2> HIDE DEF Goal
  <2>6. Goal
    BY <1>1, <2>1, <2>2, <2>3, <2>4, <2>5, Zenon DEF Events
  <2> QED BY <2>6 DEF Goal
<1>2. CASE Config
  BY <1>2 DEF Config, Reload, ReloadFails, ApplyPreset, ClearPreset, saveVars, tickVars,
              bootVars
<1>3. CASE Tick
  <2>1. ASSUME NEW io, TickDisabled(io) PROVE Goal
    BY <2>1 DEF TickDisabled, persist, tickVars, bootVars
  <2>2. ASSUME NEW e, NEW any, NEW io, NEW at, TickEnabled(e, any, io, at) PROVE Goal
    <3>1. boot_reclaim_candidates' = boot_reclaim_candidates
      BY <2>2 DEF TickEnabled
    <3>2. \E fz, k, K : TickEnds(fz, k, K, any, io)
      BY <2>2, TickStages, Zenon
    <3>3. disk' \in {disk, Keys(frozen')}
      BY <3>2 DEF TickEnds, persist
    <3> QED BY <3>1, <3>3
  <2> HIDE DEF Goal
  <2>3. Goal
    BY <1>3, <2>1, <2>2 DEF Tick
  <2> QED BY <2>3 DEF Goal
<1>4. CASE Environment
  BY <1>4 DEF Environment, Elapse, ProcessStart, ProcessEnd, SystemFreeze, SystemThaw,
              SystemAdj, World, TunChange, saveVars, tickVars, bootVars
<1> QED BY <1>1, <1>2, <1>3, <1>4 DEF Next

(* The system around a daemon that is down does not fill its memory.       *)
LEMMA EnvironmentDown ==
    ASSUME Environment, Keys(frozen) = {}, Keys(grace) = {}, last_focus = NoPkg
    PROVE  Keys(frozen') = {} /\ Keys(grace') = {} /\ last_focus' = NoPkg
<1>1. CASE Elapse
  BY <1>1 DEF Elapse, Older, Less, Keys, Absent
<1>2. CASE frozen' = frozen /\ grace' = grace /\ last_focus' = last_focus
  BY <1>2
<1>3. ASSUME NEW k, World(k)
      PROVE  frozen' = frozen /\ grace' = grace /\ last_focus' = last_focus
  BY <1>3 DEF World, tableVars
<1>4. ASSUME NEW o, TunChange(o)
      PROVE  frozen' = frozen /\ grace' = grace /\ last_focus' = last_focus
  BY <1>4 DEF TunChange, tableVars
<1> QED BY <1>1, <1>2, <1>3, <1>4
        DEF Environment, ProcessStart, ProcessEnd, SystemFreeze, SystemThaw, SystemAdj

LEMMA CrashKeeps ==
    ASSUME RInv, Crash
    PROVE  RInv'
<1>1. kernel' \in KernelType
  BY DEF Crash, RInv, IInv, TypeOK, KernelType
<1>2. /\ frozen' \in [Pkg -> Timer] /\ Keys(frozen') = {}
      /\ grace' \in [Pkg -> Timer] /\ Keys(grace') = {}
      /\ cooldown' \in [Pkg -> Timer]
  BY DEF Crash, Without, Keys, Timer, RInv, IInv, TypeOK
<1>3. rules' \in RulesType
  BY DEF Crash, NoRules, RulesType, RuleAct, Timer, Absent
<1>4. TypeOK'
  BY <1>1, <1>2, <1>3 DEF Crash, RInv, IInv, TypeOK, Timer, Absent
<1>5. (ForegroundIsFree /\ FrozenIsNotWaiting /\ CriticalIsSpared)'
  BY <1>2 DEF ForegroundIsFree, FrozenIsNotWaiting, CriticalIsSpared
<1>6. Down' /\ (up \in BOOLEAN)'
  BY <1>2 DEF Crash, Down
<1>7. CriticalIsForgotten'
  BY DEF Crash, RInv, CriticalIsForgotten
<1> QED BY <1>4, <1>5, <1>6, <1>7 DEF RInv, IInv

(* The frozen table a restart begins with lists only what the file listed. *)
LEMMA StartKeeps ==
    ASSUME RInv, NEW pol \in Policies, NEW ps \in SUBSET Preset, NEW sys \in SystemSets,
           NEW io, Start(pol, ps, sys, io)
    PROVE  RInv'
<1>1. /\ Restored \subseteq disk /\ Restored \subseteq Pkg
  BY DEF Restored, Held_recorded, RInv, IInv, TypeOK
<1>2. frozen' \in [Pkg -> Timer] /\ Keys(frozen') = Restored
  <2>1. frozen' = With(frozen, Restored, 0) /\ Keys(frozen) = {}
    BY DEF Start, RInv, Down
  <2>2. frozen \in [Pkg -> Timer] /\ 0 \in Timer /\ 0 # Absent
    BY DEF RInv, IInv, TypeOK, Timer, Absent
  <2>3. /\ With(frozen, Restored, 0) \in [Pkg -> Timer]
        /\ Keys(With(frozen, Restored, 0)) = Keys(frozen) \cup (Restored \cap Pkg)
    BY <2>2, TableTypes
  <2> QED BY <1>1, <2>1, <2>3
<1>3. Keys(grace') = {} /\ last_focus' = NoPkg
  BY DEF Start, RInv, Down, Keys
<1>4. kernel' \in KernelType
  BY HelperTypes DEF Start, RInv, IInv, TypeOK
<1>5. policy' \in PolicyType /\ presets' \subseteq Preset /\ system_apps' \subseteq Pkg
  BY PolicyAssumption, EngineAssumption DEF Start
<1>6. TypeOK'
  BY <1>2, <1>4, <1>5 DEF Start, RInv, IInv, TypeOK
<1>7. CriticalIsForgotten'
  BY DEF Start, RInv, CriticalIsForgotten
<1>8. (ForegroundIsFree /\ FrozenIsNotWaiting /\ CriticalIsSpared)'
  BY <1>1, <1>2, <1>3, EngineAssumption
     DEF ForegroundIsFree, FrozenIsNotWaiting, CriticalIsSpared, RInv, CriticalIsForgotten
<1>9. Down' /\ (up \in BOOLEAN)'
  BY DEF Start, Down
<1> QED BY <1>6, <1>7, <1>8, <1>9 DEF RInv, IInv

LEMMA RNextKeeps == RInv /\ [RNext]_rvars => RInv'
<1> SUFFICES ASSUME RInv, [RNext]_rvars PROVE RInv'
  OBVIOUS
<1>1. CASE up /\ Next /\ UNCHANGED up
  <2>1. IInv'
    BY <1>1, NextKeeps DEF RInv
  <2>2. CriticalIsForgotten'
    BY <1>1, <2>1, NextSaves DEF RInv, IInv, CriticalIsSpared, CriticalIsForgotten
  <2> QED BY <1>1, <2>1, <2>2 DEF RInv, Down
<1>2. CASE ~up /\ Environment /\ UNCHANGED up
  <2>1. Next
    BY <1>2 DEF Next
  <2>2. IInv'
    BY <2>1, NextKeeps DEF RInv
  <2>3. CriticalIsForgotten'
    BY <2>1, <2>2, NextSaves DEF RInv, IInv, CriticalIsSpared, CriticalIsForgotten
  <2>4. Down'
    BY <1>2, EnvironmentDown DEF RInv, Down
  <2> QED BY <1>2, <2>2, <2>3, <2>4 DEF RInv
<1>3. CASE Crash
  BY <1>3, CrashKeeps
<1>4. CASE Starts
  BY <1>4, StartKeeps DEF Starts
<1>5. CASE UNCHANGED rvars
  <2>1. UNCHANGED vars /\ up' = up
    BY <1>5 DEF rvars
  <2>2. IInv'
    BY <2>1, NextKeeps DEF RInv
  <2>3. Keys(frozen') = Keys(frozen) /\ Keys(grace') = Keys(grace) /\ last_focus' = last_focus
    BY <2>1 DEF vars, tableVars, Keys
  <2>4. disk' = disk /\ boot_reclaim_candidates' = boot_reclaim_candidates
    BY <2>1 DEF vars, saveVars, tickVars, bootVars
  <2> QED BY <2>1, <2>2, <2>3, <2>4 DEF RInv, Down, CriticalIsForgotten
<1> QED BY <1>1, <1>2, <1>3, <1>4, <1>5 DEF RNext

LEMMA RInductive == RSpec => []RInv
<1>1. RInit => RInv
  BY InitSafe DEF RInit, RInv, Down, CriticalIsForgotten, Init
<1> QED BY <1>1, RNextKeeps, PTL DEF RSpec

(* Through crashes and restarts at any point the package in the foreground *)
(* is in neither table that leads to a freeze.                             *)
THEOREM ForegroundSurvives == RSpec => []ForegroundIsFree
<1>1. RInv => ForegroundIsFree
  BY DEF RInv, IInv
<1> QED BY <1>1, RInductive, PTL

(* No restart takes over a critical package, so none is ever in a table    *)
(* that leads to a freeze.                                                 *)
THEOREM CriticalSurvives == RSpec => []CriticalIsSpared
<1>1. RInv => CriticalIsSpared
  BY DEF RInv, IInv
<1> QED BY <1>1, RInductive, PTL

(* The file and the candidates of the last session never list a critical   *)
(* package.                                                                *)
THEOREM CriticalNeverListed == RSpec => []CriticalIsForgotten
<1>1. RInv => CriticalIsForgotten
  BY DEF RInv
<1> QED BY <1>1, RInductive, PTL

-----------------------------------------------------------------------------
(* What another freezer froze is left alone.  A helper that is asked to    *)
(* thaw the uids us leaves every other uid held.                           *)
OnlyThaws(h, k, us) == k.held \ us \subseteq h.held

LEMMA HelpersOnlyThaw ==
    ASSUME NEW k \in KernelType, NEW us, NEW io
    PROVE  /\ protect_oom(k, us).held = k.held
           /\ restore_oom(k, us).held = k.held
           /\ OnlyThaws(unfreeze_keep_oom(k, us, io), k, us)
           /\ OnlyThaws(unfreeze(k, us, io), k, us)
           /\ OnlyThaws(freeze(k, us, io), k, {})
           /\ OnlyThaws(discard(k, us, io), k, us)
<1>1. \A j, vs : j \in KernelType => /\ protect_oom(j, vs).held = j.held
                                     /\ restore_oom(j, vs).held = j.held
  BY DEF protect_oom, restore_oom, KernelType
<1>2. OnlyThaws(unfreeze_keep_oom(k, us, io), k, us)
  BY DEF unfreeze_keep_oom, KernelType, OnlyThaws
<1>3. OnlyThaws(unfreeze(k, us, io), k, us)
  BY <1>1, <1>2, HelperTypes DEF unfreeze, OnlyThaws
<1>4. OnlyThaws(freeze(k, us, io), k, {})
  BY DEF freeze, protect_oom, KernelType, OnlyThaws
<1>5. OnlyThaws(discard(k, us, io), k, us)
  <2> DEFINE w == unfreeze(k, us, io)
  <2>1. w \in KernelType /\ OnlyThaws(w, k, us)
    BY <1>3, HelperTypes
  <2>2. discard(k, us, io) = [w EXCEPT !.alive = @ \ us, !.locked = @ \ us]
    BY DEF discard
  <2> HIDE DEF w
  <2> QED BY <2>1, <2>2 DEF KernelType, OnlyThaws
<1> QED BY <1>1, <1>2, <1>3, <1>4, <1>5

(* The packages a tick may thaw on its own account.                        *)
TickMayThaw == Keys(frozen) \cup Expired \cup boot_reclaim_candidates \cup Critical

LEMMA SystemChainOnlyThaws ==
    ASSUME TypeOK, NEW io
    PROVE  /\ lock_system_chain_oom(kernel, io) \in KernelType
           /\ OnlyThaws(lock_system_chain_oom(kernel, io), kernel, U(Critical))
<1> DEFINE lk == protect_oom(kernel, U(Critical))
<1>1. lk \in KernelType /\ lk.held = kernel.held
  BY HelperTypes, HelpersOnlyThaw DEF TypeOK
<1>2. \/ lock_system_chain_oom(kernel, io) = kernel
      \/ lock_system_chain_oom(kernel, io) = unfreeze_keep_oom(lk, U(Critical), io)
  BY DEF lock_system_chain_oom
<1> HIDE DEF lk
<1> QED BY <1>1, <1>2, HelperTypes, HelpersOnlyThaw DEF OnlyThaws, TypeOK

LEMMA TickDisabledOnlyThaws ==
    ASSUME TypeOK, NEW io, TickDisabled(io)
    PROVE  OnlyThaws(kernel', kernel, U(TickMayThaw))
<1> DEFINE k1 == lock_system_chain_oom(kernel, io)
<1>1. k1 \in KernelType /\ OnlyThaws(k1, kernel, U(Critical))
  BY SystemChainOnlyThaws
<1>2. kernel' = unfreeze(k1, U(Keys(frozen)), io)
  BY DEF TickDisabled
<1> HIDE DEF k1
<1>3. OnlyThaws(kernel', k1, U(Keys(frozen)))
  BY <1>1, <1>2, HelpersOnlyThaw
<1> QED BY <1>1, <1>3 DEF OnlyThaws, TickMayThaw, U

LEMMA TickEnabledOnlyThaws ==
    ASSUME TypeOK, NEW e, NEW any, NEW io, NEW at, TickEnabled(e, any, io, at)
    PROVE  OnlyThaws(kernel', kernel, U(TickMayThaw))
<1> DEFINE k1    == lock_system_chain_oom(kernel, io)
           fresh == Frozen_now({p \in Expired : ~TickSpares(p, e)}, k1, io)
           k2    == freeze(k1, U(fresh), io)
           fz    == LiveOnly(With(frozen, fresh, 0), k2)
<1>1. PICK V, K : /\ TickEnds(Without(fz, V), discard(k2, U(V), io), K, any, io)
                  /\ V \subseteq Keys(fz) \cup boot_reclaim_candidates
  BY TickStages, Zenon
<1>2. k1 \in KernelType /\ OnlyThaws(k1, kernel, U(Critical))
  BY SystemChainOnlyThaws
<1>3. k2 \in KernelType /\ OnlyThaws(k2, k1, {})
  <2> HIDE DEF k1, fresh
  <2> QED BY <1>2, HelperTypes, HelpersOnlyThaw
<1>4. Keys(fz) \subseteq Keys(frozen) \cup Expired
  <2>1. fresh \subseteq Expired
    BY DEF Frozen_now
  <2> HIDE DEF fresh, k2
  <2> QED BY <2>1 DEF LiveOnly, Without, With, Keys
<1> DEFINE rest     == Without(fz, V)
           k3       == discard(k2, U(V), io)
           back     == (adj_keep \ K) \cap Returned
           wakes    == NetWakes(rest, any)
           relocked == IF Due(LockEvery) THEN protect_oom(k3, U(Keys(rest))) ELSE k3
           j        == restore_oom(relocked, U(back))
<1> HIDE DEF k1, fresh, k2, fz
<1>5. k3 \in KernelType /\ OnlyThaws(k3, k2, U(V))
  BY <1>3, HelperTypes, HelpersOnlyThaw
<1>6. wakes \subseteq Keys(fz)
  BY DEF NetWakes, Without, Keys
<1>7. kernel' = unfreeze_keep_oom(j, U(wakes), io)
  BY <1>1 DEF TickEnds
<1>8. j \in KernelType /\ j.held = k3.held
  <2> HIDE DEF k3, rest, back
  <2>1. relocked \in KernelType /\ relocked.held = k3.held
    BY <1>5, HelperTypes, HelpersOnlyThaw
  <2> HIDE DEF relocked
  <2> QED BY <2>1, HelperTypes, HelpersOnlyThaw
<1> HIDE DEF j, k3, rest, wakes
<1>9. OnlyThaws(kernel', j, U(wakes))
  BY <1>7, <1>8, HelpersOnlyThaw
<1>10. V \cup wakes \cup Critical \subseteq TickMayThaw
  BY <1>1, <1>4, <1>6 DEF TickMayThaw
<1> QED BY <1>2, <1>3, <1>5, <1>8, <1>9, <1>10 DEF OnlyThaws, U

(* Neither the tick nor the reconciliation of a restart thaws a uid that   *)
(* no record in memory or on disk calls the daemon's own, unless it is     *)
(* critical: what another freezer froze is left alone.                     *)
THEOREM OthersStayFrozen == RSpec => ThawsOwn
<1> DEFINE Own == U(Keys(frozen) \cup Expired \cup boot_reclaim_candidates
                    \cup Critical \cup disk)
<1>1. ASSUME TypeOK, Tick
      PROVE  kernel.held \ kernel'.held \subseteq Own
  <2>1. OnlyThaws(kernel', kernel, U(TickMayThaw))
    BY <1>1, TickDisabledOnlyThaws, TickEnabledOnlyThaws, Zenon DEF Tick
  <2> QED BY <2>1 DEF OnlyThaws, TickMayThaw, U
<1>2. ASSUME TypeOK, Starts
      PROVE  kernel.held \ kernel'.held \subseteq Own
  <2>1. PICK io : kernel' = unfreeze(kernel, U(Zombie), io)
    BY <1>2 DEF Starts, Start
  <2>2. OnlyThaws(kernel', kernel, U(Zombie))
    BY <1>2, <2>1, HelpersOnlyThaw DEF TypeOK
  <2>3. Zombie \subseteq disk
    BY DEF Zombie, Held_recorded
  <2> QED BY <2>2, <2>3 DEF OnlyThaws, U
<1>3. RInv /\ [RNext]_rvars =>
        [~ kernel.held \ kernel'.held \subseteq
              U(Keys(frozen) \cup Expired \cup boot_reclaim_candidates \cup Critical \cup disk)
          => ~ (Tick \/ Starts)]_rvars
  BY <1>1, <1>2 DEF RInv, IInv
<1> QED BY <1>3, RInductive, PTL DEF RSpec, ThawsOwn
-----------------------------------------------------------------------------
(* What a tick kills.  Only a discard ends processes.                      *)
LEMMA HelpersSpare ==
    ASSUME NEW k \in KernelType, NEW us, NEW io
    PROVE  /\ protect_oom(k, us).alive = k.alive
           /\ restore_oom(k, us).alive = k.alive
           /\ unfreeze_keep_oom(k, us, io).alive = k.alive
           /\ unfreeze(k, us, io).alive = k.alive
           /\ freeze(k, us, io).alive = k.alive
           /\ discard(k, us, io).alive = k.alive \ us
<1>1. \A j, vs : j \in KernelType => SameReach(protect_oom(j, vs), j)
                                     /\ SameReach(restore_oom(j, vs), j)
  BY LockReach
<1>2. unfreeze_keep_oom(k, us, io).alive = k.alive
  BY DEF unfreeze_keep_oom, KernelType
<1>3. unfreeze(k, us, io).alive = k.alive
  BY <1>1, <1>2, HelperTypes DEF unfreeze, SameReach
<1>4. freeze(k, us, io).alive = k.alive
  BY FreezeReach DEF Freezes
<1>5. discard(k, us, io).alive = k.alive \ us
  <2> DEFINE w == unfreeze(k, us, io)
  <2>1. w \in KernelType /\ w.alive = k.alive
    BY <1>3, HelperTypes
  <2>2. discard(k, us, io) = [w EXCEPT !.alive = @ \ us, !.locked = @ \ us]
    BY DEF discard
  <2> HIDE DEF w
  <2> QED BY <2>1, <2>2 DEF KernelType
<1> QED BY <1>1, <1>2, <1>3, <1>4, <1>5 DEF SameReach

(* The packages a tick with the readings e may discard.  A discard kills   *)
(* the whole uid and asks its guards about one package only: for shared    *)
(* uids nothing more than TickEnabledKills holds.                          *)
Discardable(p, e) ==
    p \in Keys(frozen) \cup Expired \cup boot_reclaim_candidates /\ ~discard_ineligible(p, e)

LEMMA SystemChainSpares ==
    ASSUME TypeOK, NEW io
    PROVE  LET k1 == lock_system_chain_oom(kernel, io)
           IN  k1 \in KernelType /\ k1.alive = kernel.alive
<1> DEFINE lk == protect_oom(kernel, U(Critical))
<1>1. lk \in KernelType /\ lk.alive = kernel.alive
  BY HelperTypes, HelpersSpare DEF TypeOK
<1>2. \/ lock_system_chain_oom(kernel, io) = kernel
      \/ lock_system_chain_oom(kernel, io) = unfreeze_keep_oom(lk, U(Critical), io)
  BY DEF lock_system_chain_oom
<1> HIDE DEF lk
<1> QED BY <1>1, <1>2, HelperTypes, HelpersSpare DEF TypeOK

LEMMA TickDisabledSpares ==
    ASSUME TypeOK, NEW io, TickDisabled(io)
    PROVE  kernel'.alive = kernel.alive
BY SystemChainSpares, HelpersSpare DEF TickDisabled

LEMMA TickEnabledKills ==
    ASSUME TypeOK, NEW e, NEW any, NEW io, NEW at, TickEnabled(e, any, io, at)
    PROVE  \A u \in kernel.alive \ kernel'.alive :
              \E p \in Pkg : UidOf[p] = u /\ Discardable(p, e)
<1> DEFINE k1    == lock_system_chain_oom(kernel, io)
           fresh == Frozen_now({p \in Expired : ~TickSpares(p, e)}, k1, io)
           k2    == freeze(k1, U(fresh), io)
           fz    == LiveOnly(With(frozen, fresh, 0), k2)
<1>1. PICK V, K : /\ TickEnds(Without(fz, V), discard(k2, U(V), io), K, any, io)
                  /\ V \subseteq Keys(fz) \cup boot_reclaim_candidates
                  /\ \A p \in V : ~discard_ineligible(p, e)
  BY TickStages, Zenon
<1>2. k1 \in KernelType /\ k1.alive = kernel.alive
  BY SystemChainSpares
<1>3. k2 \in KernelType /\ k2.alive = kernel.alive
  <2> HIDE DEF k1, fresh
  <2> QED BY <1>2, HelperTypes, HelpersSpare
<1>4. Keys(fz) \subseteq Keys(frozen) \cup Expired
  <2>1. fresh \subseteq Expired
    BY DEF Frozen_now
  <2> HIDE DEF fresh, k2
  <2> QED BY <2>1 DEF LiveOnly, Without, With, Keys
<1> DEFINE rest     == Without(fz, V)
           k3       == discard(k2, U(V), io)
           back     == (adj_keep \ K) \cap Returned
           wakes    == NetWakes(rest, any)
           relocked == IF Due(LockEvery) THEN protect_oom(k3, U(Keys(rest))) ELSE k3
           j        == restore_oom(relocked, U(back))
<1>5. kernel' = unfreeze_keep_oom(j, U(wakes), io)
  BY <1>1 DEF TickEnds
<1> HIDE DEF k1, fresh, k2, fz
<1>6. k3 \in KernelType /\ k3.alive = kernel.alive \ U(V)
  BY <1>3, HelperTypes, HelpersSpare
<1> HIDE DEF k3, rest, back, wakes
<1>7. relocked \in KernelType /\ relocked.alive = k3.alive
  BY <1>6, HelperTypes, HelpersSpare
<1> HIDE DEF relocked
<1>8. j \in KernelType /\ j.alive = k3.alive
  BY <1>7, HelperTypes, HelpersSpare
<1> HIDE DEF j
<1>9. kernel'.alive = kernel.alive \ U(V)
  BY <1>5, <1>6, <1>8, HelpersSpare
<1>10. V \subseteq Pkg
  BY <1>1 DEF Keys, TypeOK
<1> QED BY <1>1, <1>4, <1>9, <1>10 DEF Discardable, U

(* With uids of their own no tick kills the foreground, a critical, system *)
(* or whitelisted package, an exempt or important one, or one that is busy *)
(* with something its policy keeps; and it kills only what was frozen,     *)
(* about to be frozen, or frozen in the last session.                      *)
THEOREM KillsOwn == OwnUids => (RSpec => TickKillsOwn)
<1> SUFFICES ASSUME OwnUids PROVE RSpec => TickKillsOwn
  OBVIOUS
<1>1. ASSUME TypeOK, NEW p \in Pkg, NEW e, Discardable(p, e)
      PROVE  MayKill(UidOf[p])
  <2>1. /\ p # last_focus
        /\ p \notin Critical \cup system_apps \cup policy.whitelist
        /\ policy.mode[p] \notin {"exempt", "important"}
        /\ keep_flags(policy, p) \cap exempt[p] = {}
    BY <1>1 DEF Discardable, discard_ineligible, never_freeze, ExemptHit
  <2>2. UidOf[p] \in U(Keys(frozen) \cup Expired \cup boot_reclaim_candidates)
    BY <1>1 DEF Discardable, U
  <2>3. \A q \in Pkg : UidOf[q] = UidOf[p] => q = p
    BY DEF OwnUids
  <2> QED BY <2>1, <2>2, <2>3, Zenon DEF MayKill
<1>2. ASSUME TypeOK, Tick, NEW u \in kernel.alive \ kernel'.alive
      PROVE  MayKill(u)
  <2>1. PICK io \in Answers :
           \/ TickDisabled(io)
           \/ \E e \in Readings, any \in SUBSET NetPkgs, at \in BootPoll :
                 TickEnabled(e, any, io, at)
    BY <1>2, Zenon DEF Tick
  <2>2. ~TickDisabled(io)
    BY <1>2, TickDisabledSpares
  <2>3. PICK e, any, at : TickEnabled(e, any, io, at)
    BY <2>1, <2>2
  <2>4. PICK p \in Pkg : UidOf[p] = u /\ Discardable(p, e)
    BY <1>2, <2>3, TickEnabledKills
  <2> QED BY <1>1, <1>2, <2>4
<1>3. RInv /\ [RNext]_rvars =>
        [(\E u \in kernel.alive \ kernel'.alive : ~MayKill(u)) => ~Tick]_vars
  BY <1>2 DEF RInv, IInv
<1> QED BY <1>3, RInductive, PTL DEF RSpec, TickKillsOwn

-----------------------------------------------------------------------------
(* The foreground runs.  With uids of their own, thaws that do not fail    *)
(* and no other freezer at work, no step holds the uid of the foreground:  *)
(* opening a package thaws its uid whether or not a record says it is      *)
(* frozen, and a freeze reaches the uids of other packages only.           *)
Undisturbed == Faulty = {} /\ "freeze" \notin Meddling

(* What a helper that is obeyed does to the held uids.                     *)
LEMMA HelpersHold ==
    ASSUME NEW k \in KernelType, NEW us, NEW io, io.deaf = {}
    PROVE  /\ unfreeze_keep_oom(k, us, io).held = k.held \ us
           /\ unfreeze(k, us, io).held = k.held \ us
           /\ freeze(k, us, io).held \subseteq k.held \cup us
           /\ discard(k, us, io).held = k.held \ us
<1>1. freeze(k, us, io).held \subseteq k.held \cup us
  BY DEF freeze, protect_oom, Freezable, KernelType
<1> QED BY <1>1, ThawReach, DiscardReach DEF Thaws

LEMMA FocusRuns ==
    ASSUME TypeOK, OwnUids, Undisturbed, NEW p \in Pkg, NEW e, NEW clock, NEW io \in Answers,
           Focus(p, e, clock, io)
    PROVE  UidOf[p] \notin kernel'.held
<1> DEFINE tries == p \in Keys(frozen) \/ Residual(p)
           k1    == IF tries THEN unfreeze_keep_oom(kernel, {UidOf[p]}, io) ELSE kernel
           acted == {q \in Leaving(p) : ~LeaveSpares(q, e, clock)}
           now   == {q \in acted : LeaveForces(q, e)}
           froze == Frozen_now(now, k1, io)
           wait  == acted \ now
           k2    == freeze(k1, U(froze), io)
<1>1. io.deaf = {}
  BY DEF Undisturbed, Answers
<1>2. k1 \in KernelType /\ UidOf[p] \notin k1.held
  <2>1. CASE tries
    BY <1>1, <2>1, HelperTypes, HelpersHold DEF TypeOK
  <2>2. CASE ~tries
    BY <2>2 DEF Residual, TypeOK
  <2> QED BY <2>1, <2>2
<1>3. UidOf[p] \notin U(froze)
  BY DEF Frozen_now, Leaving, U, OwnUids, TypeOK
<1>4. kernel' = protect_oom(k2, U(wait))
  BY DEF Focus
<1> HIDE DEF k1, froze, wait
<1>5. k2 \in KernelType /\ UidOf[p] \notin k2.held
  BY <1>1, <1>2, <1>3, HelperTypes, HelpersHold
<1> HIDE DEF k2
<1> QED BY <1>4, <1>5, LockReach DEF SameReach

LEMMA TickEnabledRuns ==
    ASSUME TypeOK, OwnUids, Undisturbed, ForegroundRuns, last_focus # NoPkg,
           NEW e, NEW any, NEW io \in Answers, NEW at, TickEnabled(e, any, io, at)
    PROVE  UidOf[last_focus] \notin kernel'.held
<1> DEFINE k1    == lock_system_chain_oom(kernel, io)
           fresh == Frozen_now({p \in Expired : ~TickSpares(p, e)}, k1, io)
           k2    == freeze(k1, U(fresh), io)
           fz    == LiveOnly(With(frozen, fresh, 0), k2)
<1>1. PICK V, K : TickEnds(Without(fz, V), discard(k2, U(V), io), K, any, io)
  BY TickStages, Zenon
<1>2. io.deaf = {}
  BY DEF Undisturbed, Answers
<1>3. k1 \in KernelType /\ k1.held \subseteq kernel.held
  <2> DEFINE lk == protect_oom(kernel, U(Critical))
  <2>1. lk \in KernelType /\ lk.held = kernel.held
    BY HelperTypes, LockReach DEF SameReach, TypeOK
  <2>2. k1 = kernel \/ k1 = unfreeze_keep_oom(lk, U(Critical), io)
    BY DEF lock_system_chain_oom
  <2> HIDE DEF lk, k1
  <2> QED BY <1>2, <2>1, <2>2, HelperTypes, HelpersHold DEF TypeOK
<1>4. UidOf[last_focus] \notin U(fresh)
  BY DEF Frozen_now, TickSpares, Expired, Keys, U, OwnUids, TypeOK
<1>5. k2 \in KernelType /\ UidOf[last_focus] \notin k2.held
  <2> HIDE DEF k1, fresh
  <2> QED BY <1>2, <1>3, <1>4, HelperTypes, HelpersHold DEF ForegroundRuns
<1> DEFINE rest     == Without(fz, V)
           k3       == discard(k2, U(V), io)
           back     == (adj_keep \ K) \cap Returned
           wakes    == NetWakes(rest, any)
           relocked == IF Due(LockEvery) THEN protect_oom(k3, U(Keys(rest))) ELSE k3
           j        == restore_oom(relocked, U(back))
<1>6. kernel' = unfreeze_keep_oom(j, U(wakes), io)
  BY <1>1 DEF TickEnds
<1> HIDE DEF k1, fresh, k2, fz
<1>7. k3 \in KernelType /\ k3.held \subseteq k2.held
  BY <1>2, <1>5, HelperTypes, HelpersHold
<1> HIDE DEF k3, rest, back, wakes
<1>8. relocked \in KernelType /\ relocked.held = k3.held
  BY <1>7, HelperTypes, LockReach DEF SameReach
<1> HIDE DEF relocked
<1>9. j \in KernelType /\ j.held = k3.held
  BY <1>8, HelperTypes, LockReach DEF SameReach
<1> HIDE DEF j
<1> QED BY <1>2, <1>5, <1>6, <1>7, <1>9, HelpersHold

(* Every other step keeps the foreground and thaws at most.                *)
LEMMA NextRuns ==
    ASSUME TypeOK, OwnUids, Undisturbed, ForegroundRuns, Next
    PROVE  ForegroundRuns'
<1> DEFINE OnlyThaw == last_focus' = last_focus /\ kernel'.held \subseteq kernel.held
<1>0. OnlyThaw => ForegroundRuns'
  BY DEF ForegroundRuns
<1>k. kernel \in KernelType
  BY DEF TypeOK
<1>d. \A io \in Answers : io.deaf = {}
  BY DEF Undisturbed, Answers
<1>1. CASE Events
  <2>1. ASSUME NEW p \in Pkg, NEW e, NEW clock, NEW io \in Answers, Focus(p, e, clock, io)
        PROVE  ForegroundRuns'
    <3>1. last_focus' = p
      BY <2>1, Zenon DEF Focus
    <3> QED BY <2>1, <3>1, FocusRuns DEF ForegroundRuns
  <2>2. ASSUME NEW p, NEW s, NEW listed, NEW e, NEW io \in Answers,
               Wakeup(p, s, listed, e, io)
        PROVE  OnlyThaw
    BY <1>k, <1>d, <2>2, HelpersHold DEF Wakeup
  <2>3. ASSUME NEW p, NEW fl, Exempt(p, fl)
        PROVE  OnlyThaw
    BY <2>3 DEF Exempt
  <2>4. ASSUME NEW p, NEW io \in Answers, ForceStop(p, io)
        PROVE  OnlyThaw
    BY <1>k, <1>d, <2>4, HelpersHold DEF ForceStop
  <2> HIDE DEF OnlyThaw
  <2> QED BY <1>0, <1>1, <2>1, <2>2, <2>3, <2>4 DEF Events
<1>2. CASE Config
  <2>1. ASSUME NEW pol, NEW sys, NEW ps, NEW rul, NEW e, NEW io \in Answers,
               Reload(pol, sys, ps, rul, e, io)
        PROVE  OnlyThaw
    <3>1. PICK us : kernel' = unfreeze(kernel, us, io) /\ last_focus' = last_focus
      BY <2>1, Zenon DEF Reload
    <3> QED BY <1>k, <1>d, <3>1, HelpersHold
  <2>2. ASSUME kernel' = kernel, last_focus' = last_focus
        PROVE  OnlyThaw
    BY <2>2
  <2> HIDE DEF OnlyThaw
  <2> QED BY <1>0, <1>2, <2>1, <2>2 DEF Config, ReloadFails, ApplyPreset, ClearPreset
<1>3. CASE Tick
  <2>1. ASSUME NEW io \in Answers, TickDisabled(io)
        PROVE  OnlyThaw
    <3> DEFINE k1 == lock_system_chain_oom(kernel, io)
               lk == protect_oom(kernel, U(Critical))
    <3>1. lk \in KernelType /\ lk.held = kernel.held
      BY <1>k, HelperTypes, LockReach DEF SameReach
    <3>2. k1 = kernel \/ k1 = unfreeze_keep_oom(lk, U(Critical), io)
      BY DEF lock_system_chain_oom
    <3>3. kernel' = unfreeze(k1, U(Keys(frozen)), io) /\ last_focus' = last_focus
      BY <2>1 DEF TickDisabled
    <3> HIDE DEF lk, k1
    <3>4. k1 \in KernelType /\ k1.held \subseteq kernel.held
      BY <1>k, <1>d, <3>1, <3>2, HelperTypes, HelpersHold
    <3> QED BY <1>d, <3>3, <3>4, HelpersHold
  <2>2. ASSUME NEW e, NEW any, NEW io \in Answers, NEW at, TickEnabled(e, any, io, at)
        PROVE  ForegroundRuns'
    <3>1. last_focus' = last_focus
      BY <2>2, Zenon DEF TickEnabled
    <3> QED BY <2>2, <3>1, TickEnabledRuns DEF ForegroundRuns
  <2> HIDE DEF OnlyThaw
  <2> QED BY <1>0, <1>3, <2>1, <2>2 DEF Tick
<1>4. CASE Environment
  <2>1. ASSUME NEW u \in Uid,
               ProcessStart(u) \/ ProcessEnd(u) \/ SystemFreeze(u) \/ SystemThaw(u) \/ SystemAdj(u)
        PROVE  OnlyThaw
    <3>1. ~SystemFreeze(u)
      BY DEF SystemFreeze, Undisturbed
    <3>2. /\ last_focus' = last_focus
          /\ \E z : \/ kernel' = start_process(kernel, u)
                    \/ kernel' = end_process(kernel, u, z)
                    \/ kernel' = system_thaw(kernel, u)
                    \/ kernel' = system_adj(kernel, u)
      BY <2>1, <3>1 DEF ProcessStart, ProcessEnd, SystemThaw, SystemAdj, World
    <3> QED BY <1>k, <3>2 DEF KernelType, start_process, end_process, system_thaw, system_adj
  <2>2. ASSUME kernel' = kernel, last_focus' = last_focus
        PROVE  OnlyThaw
    BY <2>2
  <2> HIDE DEF OnlyThaw
  <2> QED BY <1>0, <1>4, <2>1, <2>2 DEF Environment, Elapse, TunChange
<1> QED BY <1>1, <1>2, <1>3, <1>4 DEF Next

(* Through crashes and restarts at any point no process of the package in  *)
(* the foreground is held: not by a freeze that raced its return, not by   *)
(* one whose record the restart lost.                                      *)
THEOREM ForegroundKeepsRunning == OwnUids /\ Undisturbed => (RSpec => []ForegroundRuns)
<1> SUFFICES ASSUME OwnUids, Undisturbed PROVE RSpec => []ForegroundRuns
  OBVIOUS
<1>1. RInit => ForegroundRuns
  BY DEF RInit, Init, ForegroundRuns
<1>2. RInv /\ ForegroundRuns /\ [RNext]_rvars => ForegroundRuns'
  <2> SUFFICES ASSUME RInv, ForegroundRuns, [RNext]_rvars PROVE ForegroundRuns'
    OBVIOUS
  <2>1. CASE Next
    BY <2>1, NextRuns DEF RInv, IInv
  <2>2. CASE Environment
    BY <2>2, NextRuns DEF RInv, IInv, Next
  <2>3. CASE Crash
    BY <2>3 DEF Crash, ForegroundRuns
  <2>4. CASE Starts
    BY <2>4 DEF Starts, Start, RInv, Down, ForegroundRuns
  <2>5. CASE UNCHANGED rvars
    BY <2>5 DEF rvars, vars, ForegroundRuns
  <2> QED BY <2>1, <2>2, <2>3, <2>4, <2>5 DEF RNext
<1> QED BY <1>1, <1>2, RInductive, PTL DEF RSpec
-----------------------------------------------------------------------------
(* No step renews the age of a freeze, a crash and a restart included: the *)
(* table a restart fills begins empty.                                     *)
THEOREM FreezeClockSurvives == RSpec => FreezeClockRuns
<1>1. ASSUME IInv, Next, NEW p \in Keys(frozen) \cap Keys(frozen')
      PROVE  frozen'[p] >= frozen[p]
  <2>1. frozen[p] \in Nat
    BY <1>1 DEF IInv, TypeOK, Keys, Timer
  <2>2. frozen'[p] = frozen[p] \/ frozen'[p] = Older(frozen[p])
    BY <1>1, NextAges DEF Ages
  <2> QED BY <2>1, <2>2 DEF Older, Absent
<1>2. ASSUME RInv, RNext, NEW p \in Keys(frozen) \cap Keys(frozen')
      PROVE  frozen'[p] >= frozen[p]
  <2>1. CASE Next
    BY <1>1, <1>2, <2>1 DEF RInv
  <2>2. CASE Environment
    BY <1>1, <1>2, <2>2 DEF RInv, Next
  <2>3. CASE Crash
    BY <1>2, <2>3 DEF Crash, Keys, Without
  <2>4. CASE Starts
    BY <1>2, <2>4 DEF Starts, Start, RInv, Down
  <2> QED BY <1>2, <2>1, <2>2, <2>3, <2>4 DEF RNext
<1>3. RInv /\ [RNext]_rvars =>
        [\A p \in Keys(frozen) \cap Keys(frozen') : frozen'[p] >= frozen[p]]_vars
  <2> SUFFICES ASSUME RInv, [RNext]_rvars, vars' # vars
               PROVE  \A p \in Keys(frozen) \cap Keys(frozen') : frozen'[p] >= frozen[p]
    OBVIOUS
  <2>1. RNext
    BY DEF rvars
  <2> QED BY <1>2, <2>1
<1> QED BY <1>3, RInductive, PTL DEF RSpec, FreezeClockRuns
=============================================================================
