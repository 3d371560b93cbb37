---------------------------- MODULE EngineProofs ----------------------------
(***************************************************************************)
(* Theorems about Engine for every value of its constants.                 *)
(***************************************************************************)
EXTENDS Engine, TLAPS

-----------------------------------------------------------------------------
(* The helpers on the kernel record.                                       *)

(* Every helper of the freezer returns a kernel state.                     *)
LEMMA HelperTypes ==
    ASSUME NEW k \in KernelType, NEW us, NEW io
    PROVE  /\ protect_oom(k, us) \in KernelType
           /\ restore_oom(k, us) \in KernelType
           /\ unfreeze_keep_oom(k, us, io) \in KernelType
           /\ unfreeze(k, us, io) \in KernelType
           /\ freeze(k, us, io) \in KernelType
           /\ discard(k, us, io) \in KernelType
<1>1. \A j \in KernelType : protect_oom(j, us) \in KernelType
  BY DEF KernelType, protect_oom
<1>2. \A j \in KernelType : restore_oom(j, us) \in KernelType
  BY DEF KernelType, restore_oom
<1>3. unfreeze_keep_oom(k, us, io) \in KernelType
  BY DEF KernelType, unfreeze_keep_oom
<1>4. unfreeze(k, us, io) \in KernelType
  BY <1>2, <1>3 DEF unfreeze
<1>5. freeze(k, us, io) \in KernelType
  <2> DEFINE got == Freezable(k, us, io)
             j == [k EXCEPT !.held = @ \cup (got \ io.sig),
                            !.stopped = @ \cup (got \cap io.sig)]
  <2>1. got \subseteq Uid
    BY DEF Freezable, KernelType
  <2>2. j \in KernelType
    BY <2>1 DEF KernelType
  <2>3. protect_oom(j, got) \in KernelType
    <3> HIDE DEF j, got
    <3> QED BY <2>2 DEF KernelType, protect_oom
  <2> QED BY <2>3 DEF freeze
<1>6. discard(k, us, io) \in KernelType
  BY <1>4 DEF discard, KernelType
<1> QED BY <1>1, <1>2, <1>3, <1>4, <1>5, <1>6

(* So do the steps of the system around the daemon.                        *)
LEMMA WorldTypes ==
    ASSUME NEW k \in KernelType, NEW u \in Uid, NEW z
    PROVE  /\ start_process(k, u) \in KernelType
           /\ end_process(k, u, z) \in KernelType
           /\ system_freeze(k, u) \in KernelType
           /\ system_thaw(k, u) \in KernelType
           /\ system_adj(k, u) \in KernelType
BY DEF KernelType, start_process, end_process, system_freeze, system_thaw, system_adj

-----------------------------------------------------------------------------
(* Tables.                                                                 *)

(* Dropping or setting entries keeps a table a table, and says which       *)
(* packages have an entry afterwards.                                      *)
LEMMA TableTypes ==
    ASSUME NEW m \in [Pkg -> Timer], NEW S, NEW v \in Timer
    PROVE  /\ Without(m, S) \in [Pkg -> Timer]
           /\ With(m, S, v) \in [Pkg -> Timer]
           /\ Keys(Without(m, S)) = Keys(m) \ S
           /\ v # Absent => Keys(With(m, S, v)) = Keys(m) \cup (S \cap Pkg)
BY DEF Without, With, Keys, Timer, Absent

(* Laying a preset over a policy gives a policy.                           *)
LEMMA OverlayTypes ==
    ASSUME NEW pol \in PolicyType, NEW n \in Preset
    PROVE  overlay_preset(pol, n) \in PolicyType
<1>1. Overlay[n] \in OverlayType
  BY PolicyAssumption
<1>2. /\ Overlay[n].enabled \in BOOLEAN
      /\ Overlay[n].grace \in Nat
      /\ Overlay[n].cooldown \in Nat
      /\ Overlay[n].keep \subseteq Flags
  BY <1>1 DEF OverlayType
<1>3. (pol.keep \ {"fg", "media"}) \cup Overlay[n].keep \subseteq Flags
  BY <1>2 DEF PolicyType
<1> QED BY <1>2, <1>3 DEF overlay_preset, PolicyType

(* The grace period of a package is a number of ticks.                     *)
LEMMA GraceTypes ==
    ASSUME NEW pol \in PolicyType, NEW p \in Pkg
    PROVE  effective_grace(pol, p) \in Nat
<1>1. /\ pol.grace \in Nat /\ pol.over[p] \in Timer /\ pol.mode[p] \in Mode
  BY DEF PolicyType
<1>2. StrictGrace \in Nat
  BY PolicyAssumption
<1>3. 2 * pol.grace \in Nat
  BY <1>1
<1> QED BY <1>1, <1>2, <1>3 DEF effective_grace, Timer, Absent, Mode

-----------------------------------------------------------------------------
(* Type correctness.                                                       *)

LEMMA InitTypes == Init => TypeOK
<1> SUFFICES ASSUME Init PROVE TypeOK
  OBVIOUS
<1>1. policy \in PolicyType /\ presets \subseteq Preset
  BY PolicyAssumption DEF Init
<1>2. rules \in RulesType
  BY DEF Init, NoRules, RulesType, RuleAct, Timer, Absent
<1>3. system_apps \subseteq Pkg /\ tun_owner \in Pkg \cup {NoPkg}
  BY EngineAssumption DEF Init
<1>4. frozen \in [Pkg -> Timer] /\ grace \in [Pkg -> Timer] /\ cooldown \in [Pkg -> Timer]
  BY DEF Init, Without, Timer
<1>5. kernel \in KernelType
  BY DEF Init, KernelType
<1> QED BY <1>1, <1>2, <1>3, <1>4, <1>5 DEF Init, TypeOK, Timer, Absent

(* The tables after a focus, a wakeup or a force-stop.                     *)
LEMMA FocusTypes ==
    ASSUME TypeOK, NEW p \in Pkg, NEW e, NEW clock, NEW io, Focus(p, e, clock, io)
    PROVE  TypeOK'
<1> DEFINE was   == p \in Keys(frozen)
           tries == was \/ Residual(p)
           ok    == tries /\ UidOf[p] \notin io.err
           k1    == IF tries THEN unfreeze_keep_oom(kernel, {UidOf[p]}, io) ELSE kernel
           acted == {q \in Leaving(p) : ~LeaveSpares(q, e, clock)}
           now   == {q \in acted : LeaveForces(q, e)}
           froze == Frozen_now(now, k1, io)
           wait  == acted \ now
           k2    == freeze(k1, U(froze), io)
<1>1. k1 \in KernelType
  BY HelperTypes DEF TypeOK
<1>2. k2 \in KernelType
  <2> HIDE DEF k1, froze
  <2> QED BY <1>1, HelperTypes
<1>3. kernel' \in KernelType
  <2>1. kernel' = protect_oom(k2, U(wait))
    BY DEF Focus
  <2> HIDE DEF k2, wait
  <2> QED BY <1>2, <2>1, HelperTypes
<1>4. frozen' \in [Pkg -> Timer]
  <2>1. frozen' = With(Without(frozen, {p}), froze, 0)
    BY DEF Focus
  <2> HIDE DEF froze
  <2>2. Without(frozen, {p}) \in [Pkg -> Timer]
    BY TableTypes DEF TypeOK, Timer
  <2> QED BY <2>1, <2>2, TableTypes DEF Timer
<1>5. cooldown' \in [Pkg -> Timer]
  BY DEF Focus, TypeOK, PolicyType, Timer
<1>6. grace' \in [Pkg -> Timer]
  <2>1. grace' = [q \in Pkg |-> IF q \in wait THEN effective_grace(policy, q)
                                ELSE IF q = p THEN Absent ELSE grace[q]]
    BY DEF Focus
  <2>2. \A q \in Pkg : effective_grace(policy, q) \in Timer
    BY GraceTypes DEF TypeOK, Timer
  <2> HIDE DEF wait
  <2> QED BY <2>1, <2>2 DEF TypeOK, Timer
<1>7. wait \subseteq Pkg
  BY DEF Leaving, TypeOK
<1>8. adj_keep' \subseteq Pkg
  <2>1. adj_keep' = adj_keep \cup wait \cup (IF ok THEN {p} ELSE {})
    BY DEF Focus
  <2> HIDE DEF wait, ok
  <2> QED BY <1>7, <2>1 DEF TypeOK
<1>9. /\ last_focus' = p
      /\ UNCHANGED <<confVars, tun_owner, wake_throttle, exempt, tickVars, saveVars>>
  BY DEF Focus
<1> QED BY <1>3, <1>4, <1>5, <1>6, <1>8, <1>9
        DEF TypeOK, confVars, tickVars, bootVars, saveVars

LEMMA WakeupTypes ==
    ASSUME TypeOK, NEW p \in Pkg, NEW s, NEW listed, NEW e, NEW io,
           Wakeup(p, s, listed, e, io)
    PROVE  TypeOK'
<1>1. frozen' \in [Pkg -> Timer] /\ grace' \in [Pkg -> Timer]
  BY TableTypes DEF Wakeup, TypeOK, Timer
<1>2. cooldown' \in [Pkg -> Timer] /\ wake_throttle' \in [Pkg -> Nat]
  BY DEF Wakeup, TypeOK, PolicyType, Timer
<1>3. kernel' \in KernelType
  BY HelperTypes DEF Wakeup, TypeOK
<1>4. adj_keep' \subseteq Pkg
  BY DEF Wakeup, TypeOK
<1>5. UNCHANGED <<confVars, tun_owner, exempt, last_focus, tickVars, saveVars>>
  BY DEF Wakeup
<1> QED BY <1>1, <1>2, <1>3, <1>4, <1>5
        DEF TypeOK, confVars, tickVars, bootVars, saveVars

LEMMA ForceStopTypes ==
    ASSUME TypeOK, NEW p \in Pkg, NEW io, ForceStop(p, io)
    PROVE  TypeOK'
<1>1. /\ frozen' \in [Pkg -> Timer] /\ grace' \in [Pkg -> Timer]
      /\ cooldown' \in [Pkg -> Timer]
  BY TableTypes DEF ForceStop, TypeOK, Timer
<1>2. kernel' \in KernelType
  BY HelperTypes DEF ForceStop, TypeOK
<1>3. /\ adj_keep' \subseteq Pkg
      /\ UNCHANGED <<confVars, tun_owner, wake_throttle, exempt, last_focus, tickVars, saveVars>>
  BY DEF ForceStop, TypeOK
<1> QED BY <1>1, <1>2, <1>3 DEF TypeOK, confVars, tickVars, bootVars, saveVars

LEMMA ExemptTypes ==
    ASSUME TypeOK, NEW p \in Pkg, NEW fl \in SUBSET Flags, Exempt(p, fl)
    PROVE  TypeOK'
<1>1. exempt' \in [Pkg -> SUBSET Flags]
  BY DEF Exempt, TypeOK
<1>2. UNCHANGED <<confVars, tun_owner, tableVars, last_focus, tickVars, saveVars, kernel>>
  BY DEF Exempt
<1> QED BY <1>1, <1>2 DEF TypeOK, confVars, tableVars, tickVars, bootVars, saveVars

(* A reload of the configuration and the two preset commands.              *)
LEMMA ReloadTypes ==
    ASSUME TypeOK, NEW pol \in Policies, NEW sys \in SystemSets,
           NEW ps \in SUBSET Preset, NEW rul \in RuleTables \cup {rules},
           NEW e, NEW io, Reload(pol, sys, ps, rul, e, io)
    PROVE  TypeOK'
<1> DEFINE thaw == ReloadThaws(reloaded(pol, ps), sys, rul, e)
<1>1. pol \in PolicyType /\ rul \in RulesType /\ sys \subseteq Pkg
  BY PolicyAssumption, EngineAssumption DEF TypeOK
<1>2. policy' \in PolicyType
  <2>1. policy' = reloaded(pol, ps)
    BY DEF Reload
  <2>2. CASE active_preset \in ps
    BY <1>1, <2>1, <2>2, OverlayTypes DEF reloaded
  <2>3. CASE active_preset \notin ps
    BY <1>1, <2>1, <2>3 DEF reloaded
  <2> QED BY <2>2, <2>3
<1>3. active_preset' \in Preset \cup {NoPreset} /\ presets' \subseteq Preset
  BY DEF Reload
<1>4. rules' \in RulesType /\ system_apps' \subseteq Pkg
  BY <1>1 DEF Reload
<1>5. frozen' = Without(frozen, thaw) /\ grace' = Without(grace, thaw)
  BY DEF Reload
<1>6. frozen' \in [Pkg -> Timer] /\ grace' \in [Pkg -> Timer]
  <2> HIDE DEF thaw
  <2> QED BY <1>5, TableTypes DEF TypeOK, Timer
<1>7. kernel' \in KernelType
  <2>1. kernel' = unfreeze(kernel, U(thaw), io)
    BY DEF Reload
  <2> HIDE DEF thaw
  <2> QED BY <2>1, HelperTypes DEF TypeOK
<1>8. UNCHANGED <<tun_owner, cooldown, wake_throttle, adj_keep, exempt, last_focus,
                  tickVars, saveVars>>
  BY DEF Reload
<1> QED BY <1>2, <1>3, <1>4, <1>6, <1>7, <1>8
        DEF TypeOK, tickVars, bootVars, saveVars

LEMMA ConfigTypes ==
    ASSUME TypeOK, Config
    PROVE  TypeOK'
<1>1. ASSUME NEW sys \in SystemSets, NEW ps \in SUBSET Preset,
             NEW rul \in RuleTables \cup {rules}, ReloadFails(sys, ps, rul)
      PROVE  TypeOK'
  <2>1. rules' \in RulesType /\ system_apps' \subseteq Pkg /\ presets' \subseteq Preset
    BY <1>1, PolicyAssumption, EngineAssumption DEF ReloadFails, TypeOK
  <2>2. UNCHANGED <<policy, active_preset, tun_owner, tableVars, exempt, last_focus,
                    tickVars, saveVars, kernel>>
    BY <1>1 DEF ReloadFails
  <2> QED BY <2>1, <2>2 DEF TypeOK, tableVars, tickVars, bootVars, saveVars
<1>2. ASSUME NEW n \in Preset, ApplyPreset(n)
      PROVE  TypeOK'
  <2>1. policy' \in PolicyType /\ active_preset' \in Preset \cup {NoPreset}
    BY <1>2, OverlayTypes DEF ApplyPreset, TypeOK
  <2>2. UNCHANGED <<presets, rules, system_apps, tun_owner, tableVars, exempt, last_focus,
                    tickVars, saveVars, kernel>>
    BY <1>2 DEF ApplyPreset
  <2> QED BY <2>1, <2>2 DEF TypeOK, tableVars, tickVars, bootVars, saveVars
<1>3. ASSUME NEW pol \in Policies, ClearPreset(pol)
      PROVE  TypeOK'
  <2>1. policy' \in PolicyType /\ active_preset' \in Preset \cup {NoPreset}
    BY <1>3, PolicyAssumption DEF ClearPreset
  <2>2. UNCHANGED <<presets, rules, system_apps, tun_owner, tableVars, exempt, last_focus,
                    tickVars, saveVars, kernel>>
    BY <1>3 DEF ClearPreset
  <2> QED BY <2>1, <2>2 DEF TypeOK, tableVars, tickVars, bootVars, saveVars
<1> QED BY <1>1, <1>2, <1>3, ReloadTypes DEF Config

(* The tick.                                                               *)
LEMMA TickDisabledTypes ==
    ASSUME TypeOK, NEW io, TickDisabled(io)
    PROVE  TypeOK'
<1>1. kernel' \in KernelType
  <2>1. lock_system_chain_oom(kernel, io) \in KernelType
    BY HelperTypes DEF lock_system_chain_oom, TypeOK
  <2> QED BY <2>1, HelperTypes DEF TickDisabled
<1>2. /\ frozen' \in [Pkg -> Timer] /\ grace' \in [Pkg -> Timer]
      /\ cooldown' \in [Pkg -> Timer]
  BY TableTypes DEF TickDisabled, TypeOK, Timer
<1>3. last_persist' \subseteq Pkg \cup NeverSaved /\ disk' \subseteq Pkg
  BY DEF TickDisabled, TypeOK, persist, Keys
<1>4. /\ adj_keep' = {}
      /\ UNCHANGED <<confVars, tun_owner, wake_throttle, exempt, last_focus, tickVars>>
  BY DEF TickDisabled
<1> QED BY <1>1, <1>2, <1>3, <1>4 DEF TypeOK, confVars, tickVars, bootVars

LEMMA TickEndsTypes ==
    ASSUME TypeOK, NEW fz \in [Pkg -> Timer], NEW k \in KernelType, NEW K, NEW any,
           NEW io, TickEnds(fz, k, K, any, io)
    PROVE  /\ frozen' \in [Pkg -> Timer] /\ grace' \in [Pkg -> Timer]
           /\ cooldown' \in [Pkg -> Timer] /\ adj_keep' \subseteq Pkg
           /\ kernel' \in KernelType
           /\ last_persist' \subseteq Pkg \cup NeverSaved /\ disk' \subseteq Pkg
<1> DEFINE relocked == IF Due(LockEvery) THEN protect_oom(k, U(Keys(fz))) ELSE k
           back     == (adj_keep \ K) \cap Returned
           wakes    == NetWakes(fz, any)
           thawed   == {p \in wakes : UidOf[p] \notin io.err}
<1>1. wakes \subseteq Pkg
  BY DEF NetWakes, Keys
<1>2. frozen' \in [Pkg -> Timer] /\ grace' \in [Pkg -> Timer]
  BY TableTypes DEF TickEnds, TypeOK, Timer
<1>3. cooldown' \in [Pkg -> Timer]
  <2>1. cooldown' = [p \in Pkg |-> IF p \in wakes THEN policy.cooldown
                                   ELSE IF p \in K \/ cooldown[p] <= 0 THEN Absent
                                   ELSE cooldown[p]]
    BY DEF TickEnds
  <2>2. policy.cooldown \in Timer
    BY DEF TypeOK, PolicyType, Timer
  <2> HIDE DEF wakes
  <2> QED BY <2>1, <2>2 DEF TypeOK, Timer
<1>4. adj_keep' \subseteq Pkg
  <2>1. adj_keep' = ((adj_keep \ K) \ back) \cup thawed
    BY DEF TickEnds
  <2> HIDE DEF back, wakes
  <2> QED BY <1>1, <2>1 DEF TypeOK
<1>5. kernel' \in KernelType
  <2>1. kernel' = unfreeze_keep_oom(restore_oom(relocked, U(back)), U(wakes), io)
    BY DEF TickEnds
  <2>2. relocked \in KernelType
    BY HelperTypes
  <2> HIDE DEF relocked, back, wakes
  <2>3. restore_oom(relocked, U(back)) \in KernelType
    BY <2>2, HelperTypes
  <2> QED BY <2>1, <2>3, HelperTypes
<1>6. last_persist' \subseteq Pkg \cup NeverSaved /\ disk' \subseteq Pkg
  BY DEF TickEnds, TypeOK, persist, Keys
<1> QED BY <1>2, <1>3, <1>4, <1>5, <1>6

(* The stages of the tick, named outside the quantifiers of TickEnabled.   *)
LEMMA TickStages ==
    ASSUME NEW e, NEW any, NEW io, NEW at, TickEnabled(e, any, io, at)
    PROVE  LET k1    == lock_system_chain_oom(kernel, io)
               fresh == Frozen_now({p \in Expired : ~TickSpares(p, e)}, k1, io)
               k2    == freeze(k1, U(fresh), io)
               fz    == LiveOnly(With(frozen, fresh, 0), k2)
           IN  \E V, K : /\ TickEnds(Without(fz, V), discard(k2, U(V), io), K, any, io)
                         /\ V \subseteq Keys(fz) \cup boot_reclaim_candidates
                         /\ \A p \in V : ~discard_ineligible(p, e)
                         /\ K \subseteq V
<1>1. \A fz, k : TickDiscards(fz, k, e, any, io, at)
                  => \E V, K : /\ TickEnds(Without(fz, V), discard(k, U(V), io), K, any, io)
                               /\ V \subseteq Keys(fz) \cup boot_reclaim_candidates
                               /\ \A p \in V : ~discard_ineligible(p, e)
                               /\ K \subseteq V
  <2> SUFFICES ASSUME NEW fz, NEW k, TickDiscards(fz, k, e, any, io, at)
               PROVE  \E V, K : /\ TickEnds(Without(fz, V), discard(k, U(V), io), K, any, io)
                                /\ V \subseteq Keys(fz) \cup boot_reclaim_candidates
                                /\ \A p \in V : ~discard_ineligible(p, e)
                                /\ K \subseteq V
    OBVIOUS
  <2> DEFINE Due4(M, B) == RuleDiscards(fz, e) \cup TimeoutDiscards(fz) \cup M \cup B
  <2>1. PICK M \in MemoryDiscards(fz), B \in BootDiscards(fz, k, at) :
          \E K \in Killed(Victims(Due4(M, B), e)) :
             TickEnds(Without(fz, Victims(Due4(M, B), e)),
                      discard(k, U(Victims(Due4(M, B), e)), io), K, any, io)
    BY Zenon DEF TickDiscards
  <2>2. M \subseteq Keys(fz)
    BY <2>1 DEF MemoryDiscards
  <2>3. B \subseteq Keys(fz) \cup boot_reclaim_candidates
    BY <2>1 DEF BootDiscards
  <2>4. RuleDiscards(fz, e) \cup TimeoutDiscards(fz) \subseteq Keys(fz)
    BY DEF RuleDiscards, TimeoutDiscards
  <2>5. Victims(Due4(M, B), e) \subseteq Keys(fz) \cup boot_reclaim_candidates
    BY <2>2, <2>3, <2>4 DEF Victims
  <2>6. \A p \in Victims(Due4(M, B), e) : ~discard_ineligible(p, e)
    BY DEF Victims
  <2>7. \A W : \A K \in Killed(W) : K \subseteq W
    BY DEF Killed
  <2> HIDE DEF Due4
  <2> QED BY <2>1, <2>5, <2>6, <2>7
<1> QED BY <1>1, Zenon DEF TickEnabled

LEMMA TickEnabledTypes ==
    ASSUME TypeOK, NEW e, NEW any, NEW io, NEW at \in BootPoll,
           TickEnabled(e, any, io, at)
    PROVE  TypeOK'
<1> DEFINE k1    == lock_system_chain_oom(kernel, io)
           fresh == Frozen_now({p \in Expired : ~TickSpares(p, e)}, k1, io)
           k2    == freeze(k1, U(fresh), io)
           fz    == LiveOnly(With(frozen, fresh, 0), k2)
<1>1. k1 \in KernelType
  BY HelperTypes DEF lock_system_chain_oom, TypeOK
<1>2. k2 \in KernelType
  <2> HIDE DEF k1, fresh
  <2> QED BY <1>1, HelperTypes
<1>3. fz \in [Pkg -> Timer]
  <2> HIDE DEF fresh, k2
  <2>1. With(frozen, fresh, 0) \in [Pkg -> Timer]
    BY TableTypes DEF TypeOK, Timer
  <2> QED BY <2>1, TableTypes DEF LiveOnly, Timer
<1>4. PICK V, K : TickEnds(Without(fz, V), discard(k2, U(V), io), K, any, io)
  BY TickStages, Zenon
<1>5. /\ frozen' \in [Pkg -> Timer] /\ grace' \in [Pkg -> Timer]
      /\ cooldown' \in [Pkg -> Timer] /\ adj_keep' \subseteq Pkg
      /\ kernel' \in KernelType
      /\ last_persist' \subseteq Pkg \cup NeverSaved /\ disk' \subseteq Pkg
  <2> HIDE DEF fz, k2
  <2>1. Without(fz, V) \in [Pkg -> Timer] /\ discard(k2, U(V), io) \in KernelType
    BY <1>2, <1>3, TableTypes, HelperTypes DEF Timer
  <2> QED BY <1>4, <2>1, TickEndsTypes
<1>6. tick_count' \in Nat
  BY EngineAssumption DEF TickEnabled, TypeOK
<1>7. boot_completed_at' \in Timer /\ boot_reclaim_done' \in BOOLEAN
  BY DEF TickEnabled, BootPoll, TypeOK, Timer
<1>8. UNCHANGED <<confVars, tun_owner, wake_throttle, exempt, last_focus,
                  boot_reclaim_candidates>>
  BY DEF TickEnabled
<1> QED BY <1>5, <1>6, <1>7, <1>8 DEF TypeOK, confVars

LEMMA EnvironmentTypes ==
    ASSUME TypeOK, Environment
    PROVE  TypeOK'
<1>1. ASSUME Elapse
      PROVE  TypeOK'
  <2>1. Horizon \in Nat
    BY EngineAssumption
  <2>2. \A t \in Timer : Older(t) \in Timer /\ Less(t) \in Timer
    BY <2>1 DEF Older, Less, Timer, Absent
  <2>3. \A t \in Nat : Less(t) \in Nat
    BY DEF Less
  <2>4. /\ frozen' \in [Pkg -> Timer] /\ grace' \in [Pkg -> Timer]
        /\ cooldown' \in [Pkg -> Timer] /\ wake_throttle' \in [Pkg -> Nat]
        /\ boot_completed_at' \in Timer
    BY <1>1, <2>2, <2>3 DEF Elapse, TypeOK
  <2>5. UNCHANGED <<confVars, tun_owner, adj_keep, exempt, last_focus, tick_count,
                    boot_reclaim_done, boot_reclaim_candidates, saveVars, kernel>>
    BY <1>1 DEF Elapse
  <2> QED BY <2>4, <2>5 DEF TypeOK, confVars, saveVars
<1>2. ASSUME NEW k \in KernelType, World(k)
      PROVE  TypeOK'
  BY <1>2 DEF World, TypeOK, confVars, tableVars, tickVars, bootVars, saveVars
<1>3. ASSUME NEW u \in Uid,
             ProcessStart(u) \/ ProcessEnd(u) \/ SystemFreeze(u) \/ SystemThaw(u) \/ SystemAdj(u)
      PROVE  TypeOK'
  <2>1. kernel \in KernelType
    BY DEF TypeOK
  <2> QED BY <1>2, <1>3, <2>1, WorldTypes
          DEF ProcessStart, ProcessEnd, SystemFreeze, SystemThaw, SystemAdj
<1>4. ASSUME NEW o \in TunOwners \cup {NoPkg}, TunChange(o)
      PROVE  TypeOK'
  BY <1>4, EngineAssumption
     DEF TunChange, TypeOK, confVars, tableVars, tickVars, bootVars, saveVars
<1> QED BY <1>1, <1>3, <1>4 DEF Environment

(* Every step of the engine keeps the types.                               *)
LEMMA NextTypes == TypeOK /\ [Next]_vars => TypeOK'
<1> SUFFICES ASSUME TypeOK, [Next]_vars PROVE TypeOK'
  OBVIOUS
<1>1. CASE Events
  BY <1>1, EngineAssumption, FocusTypes, WakeupTypes, ExemptTypes, ForceStopTypes
     DEF Events
<1>2. CASE Config
  BY <1>2, ConfigTypes
<1>3. CASE Tick
  BY <1>3, TickDisabledTypes, TickEnabledTypes DEF Tick
<1>4. CASE Environment
  BY <1>4, EnvironmentTypes
<1>5. CASE UNCHANGED vars
  BY <1>5 DEF vars, TypeOK, confVars, tableVars, tickVars, bootVars, saveVars
<1> QED BY <1>1, <1>2, <1>3, <1>4, <1>5 DEF Next

(* Every variable keeps its shape, in every behaviour of the engine and of *)
(* the system around it.                                                   *)
THEOREM TypeCorrect == Spec => []TypeOK
BY NextTypes, InitTypes, PTL DEF Spec

-----------------------------------------------------------------------------
(* Safety.  The three invariants about the tables are inductive together,  *)
(* with the types: a focus needs ForegroundIsFree to know that the package *)
(* it sends away is in neither table, and FrozenIsNotWaiting then to keep  *)
(* them apart.                                                             *)
IInv == TypeOK /\ ForegroundIsFree /\ FrozenIsNotWaiting /\ CriticalIsSpared

(* What any step does to the two tables, package by package: an entry is   *)
(* there before, or it comes from a countdown or from leaving the          *)
(* foreground, and then neither a critical nor a cooling package gets it.  *)
KeepsFrozen(p) == p \in Keys(frozen) /\ p # last_focus'
NewlyFrozen(p) ==
    /\ p \in Keys(grace) \/ p = last_focus
    /\ p # last_focus'
    /\ p \notin Critical \cup Keys(cooldown) \cup Keys(grace')
    /\ p \notin Keys(frozen)
KeepsWaiting(p) == p \in Keys(grace) /\ p # last_focus'
NewlyWaiting(p) == p = last_focus /\ p # last_focus' /\ p \notin Critical \cup Keys(frozen')

Moves == /\ last_focus' \in Pkg \cup {last_focus}
         /\ \A p \in Keys(frozen') : KeepsFrozen(p) \/ NewlyFrozen(p)
         /\ \A p \in Keys(grace')  : KeepsWaiting(p) \/ NewlyWaiting(p)

(* Where the foreground stays and the tables only shrink there is nothing  *)
(* to show.                                                                *)
LEMMA Shrinking ==
    ASSUME IInv, last_focus' = last_focus,
           Keys(frozen') \subseteq Keys(frozen), Keys(grace') \subseteq Keys(grace)
    PROVE  Moves
BY DEF IInv, ForegroundIsFree, Moves, KeepsFrozen, KeepsWaiting

LEMMA FocusMoves ==
    ASSUME IInv, NEW p \in Pkg, NEW e, NEW clock, NEW io, Focus(p, e, clock, io)
    PROVE  Moves
<1> DEFINE tries == p \in Keys(frozen) \/ Residual(p)
           k1    == IF tries THEN unfreeze_keep_oom(kernel, {UidOf[p]}, io) ELSE kernel
           acted == {q \in Leaving(p) : ~LeaveSpares(q, e, clock)}
           now   == {q \in acted : LeaveForces(q, e)}
           froze == Frozen_now(now, k1, io)
           wait  == acted \ now
<1>1. last_focus' = p
  BY DEF Focus
<1>2. \A q \in acted : /\ q = last_focus /\ q \in Pkg /\ q # p
                       /\ q \notin Critical \cup Keys(cooldown)
  BY DEF Leaving, LeaveSpares, HardExempt, Cooling, IInv, TypeOK
<1>3. froze \subseteq now /\ now \subseteq acted /\ froze \cap wait = {}
  BY DEF Frozen_now
<1>4. Keys(frozen') = (Keys(frozen) \ {p}) \cup froze
  <2>1. frozen' = With(Without(frozen, {p}), froze, 0)
    BY DEF Focus
  <2>2. Without(frozen, {p}) \in [Pkg -> Timer]
    BY TableTypes DEF IInv, TypeOK, Timer
  <2>3. Keys(Without(frozen, {p})) = Keys(frozen) \ {p}
    BY TableTypes DEF IInv, TypeOK, Timer
  <2>4. froze \subseteq Pkg
    BY <1>2, <1>3
  <2> HIDE DEF froze
  <2> QED BY <2>1, <2>2, <2>3, <2>4, TableTypes DEF Timer, Absent
<1>5. Keys(grace') \subseteq (Keys(grace) \ {p}) \cup wait
  <2>1. grace' = [q \in Pkg |-> IF q \in wait THEN effective_grace(policy, q)
                                ELSE IF q = p THEN Absent ELSE grace[q]]
    BY DEF Focus
  <2> HIDE DEF wait
  <2> QED BY <2>1 DEF Keys
<1>6. last_focus \notin Keys(frozen) \cup Keys(grace)
  BY DEF IInv, ForegroundIsFree
<1> HIDE DEF acted, now, froze, wait
<1>7. ASSUME NEW q \in froze PROVE NewlyFrozen(q)
  <2>1. q \in acted /\ q \notin wait
    BY <1>3
  <2> QED BY <1>1, <1>2, <1>5, <1>6, <2>1 DEF NewlyFrozen
<1>8. ASSUME NEW q \in wait PROVE NewlyWaiting(q)
  <2>1. q \in acted /\ q \notin froze
    BY <1>3 DEF wait
  <2> QED BY <1>1, <1>2, <1>4, <1>6, <2>1 DEF NewlyWaiting
<1> QED BY <1>1, <1>4, <1>5, <1>7, <1>8 DEF Moves, KeepsFrozen, KeepsWaiting

LEMMA TickEnabledMoves ==
    ASSUME IInv, NEW e, NEW any, NEW io, NEW at, TickEnabled(e, any, io, at)
    PROVE  Moves
<1> DEFINE k1    == lock_system_chain_oom(kernel, io)
           fresh == Frozen_now({p \in Expired : ~TickSpares(p, e)}, k1, io)
           k2    == freeze(k1, U(fresh), io)
           fz    == LiveOnly(With(frozen, fresh, 0), k2)
<1>1. PICK V, K : TickEnds(Without(fz, V), discard(k2, U(V), io), K, any, io)
  BY TickStages, Zenon
<1>2. last_focus' = last_focus
  BY DEF TickEnabled
<1>3. \A p \in fresh : /\ p \in Expired /\ p \notin Keys(frozen) /\ p # last_focus
                       /\ p \notin Critical \cup Keys(cooldown)
  BY DEF Frozen_now, TickSpares, Cooling
<1>4. Keys(frozen') \subseteq Keys(frozen) \cup fresh
  <2>1. frozen' = Without(Without(fz, V), NetWakes(Without(fz, V), any))
    BY <1>1 DEF TickEnds
  <2>2. Keys(frozen') \subseteq Keys(With(frozen, fresh, 0))
    <3> HIDE DEF fresh
    <3> QED BY <2>1 DEF Keys, Without, LiveOnly
  <2>3. Keys(With(frozen, fresh, 0)) \subseteq Keys(frozen) \cup fresh
    <3> HIDE DEF fresh
    <3> QED BY DEF Keys, With
  <2> QED BY <2>2, <2>3
<1>5. Keys(grace') \subseteq Keys(grace) \ Expired
  BY <1>1 DEF TickEnds, GraceDone, Keys, Without
<1>6. Expired \subseteq Keys(grace)
  BY DEF Expired
<1> HIDE DEF fresh
<1>7. ASSUME NEW p \in fresh PROVE NewlyFrozen(p)
  BY <1>2, <1>3, <1>5, <1>6 DEF NewlyFrozen
<1>8. last_focus \notin Keys(frozen) \cup Keys(grace)
  BY DEF IInv, ForegroundIsFree
<1> QED BY <1>2, <1>4, <1>5, <1>7, <1>8 DEF Moves, KeepsFrozen, KeepsWaiting

(* Every other step lets the tables shrink.                                *)
LEMMA NextMoves == IInv /\ Next => Moves
<1> SUFFICES ASSUME IInv, Next PROVE Moves
  OBVIOUS
<1>1. CASE Events
  <2>1. ASSUME NEW p, NEW s, NEW listed, NEW e, NEW io, Wakeup(p, s, listed, e, io)
        PROVE  Moves
    BY <2>1, Shrinking DEF Wakeup, Without, Keys
  <2>2. ASSUME NEW p, NEW fl, Exempt(p, fl)
        PROVE  Moves
    BY <2>2, Shrinking DEF Exempt, tableVars
  <2>3. ASSUME NEW p, NEW io, ForceStop(p, io)
        PROVE  Moves
    BY <2>3, Shrinking DEF ForceStop, Without, Keys
  <2> QED BY <1>1, <2>1, <2>2, <2>3, FocusMoves DEF Events
<1>2. CASE Config
  <2>1. ASSUME NEW pol, NEW sys, NEW ps, NEW rul, NEW e, NEW io,
               Reload(pol, sys, ps, rul, e, io)
        PROVE  Moves
    BY <2>1, Shrinking DEF Reload, Without, Keys
  <2>2. ASSUME NEW sys, NEW ps, NEW rul, ReloadFails(sys, ps, rul)
        PROVE  Moves
    BY <2>2, Shrinking DEF ReloadFails, tableVars
  <2>3. ASSUME NEW n, ApplyPreset(n)
        PROVE  Moves
    BY <2>3, Shrinking DEF ApplyPreset, tableVars
  <2>4. ASSUME NEW pol, ClearPreset(pol)
        PROVE  Moves
    BY <2>4, Shrinking DEF ClearPreset, tableVars
  <2> QED BY <1>2, <2>1, <2>2, <2>3, <2>4 DEF Config
<1>3. CASE Tick
  <2>1. ASSUME NEW io, TickDisabled(io)
        PROVE  Moves
    BY <2>1, Shrinking DEF TickDisabled, Without, Keys
  <2> QED BY <1>3, <2>1, TickEnabledMoves DEF Tick
<1>4. CASE Environment
  <2>1. ASSUME Elapse
        PROVE  Moves
    <3>1. Keys(frozen') \subseteq Keys(frozen)
      BY <2>1 DEF Elapse, Older, Keys
    <3>2. Keys(grace') \subseteq Keys(grace)
      BY <2>1 DEF Elapse, Less, Keys, Absent
    <3>3. last_focus' = last_focus
      BY <2>1 DEF Elapse
    <3> QED BY <3>1, <3>2, <3>3, Shrinking
  <2>2. ASSUME NEW k, World(k)
        PROVE  Moves
    BY <2>2, Shrinking DEF World, tableVars
  <2>3. ASSUME NEW o, TunChange(o)
        PROVE  Moves
    BY <2>3, Shrinking DEF TunChange, tableVars
  <2> QED BY <1>4, <2>1, <2>2, <2>3
          DEF Environment, ProcessStart, ProcessEnd, SystemFreeze, SystemThaw, SystemAdj
<1> QED BY <1>1, <1>2, <1>3, <1>4 DEF Next

LEMMA StutterMoves == IInv /\ UNCHANGED vars => Moves
BY Shrinking DEF vars, tableVars

LEMMA MovesKeep == IInv /\ Moves => (ForegroundIsFree /\ FrozenIsNotWaiting /\ CriticalIsSpared)'
<1> SUFFICES ASSUME IInv, Moves
             PROVE  (ForegroundIsFree /\ FrozenIsNotWaiting /\ CriticalIsSpared)'
  OBVIOUS
<1>1. ForegroundIsFree'
  BY DEF Moves, KeepsFrozen, NewlyFrozen, KeepsWaiting, NewlyWaiting, ForegroundIsFree
<1>2. FrozenIsNotWaiting'
  BY DEF Moves, KeepsFrozen, NewlyFrozen, KeepsWaiting, NewlyWaiting,
         FrozenIsNotWaiting, IInv
<1>3. CriticalIsSpared'
  BY DEF Moves, KeepsFrozen, NewlyFrozen, KeepsWaiting, NewlyWaiting,
         CriticalIsSpared, IInv
<1> QED BY <1>1, <1>2, <1>3

LEMMA InitSafe == Init => IInv
<1>1. Init => Keys(frozen) = {} /\ Keys(grace) = {}
  BY DEF Init, Keys, Without, Absent
<1> QED BY <1>1, InitTypes DEF IInv, ForegroundIsFree, FrozenIsNotWaiting, CriticalIsSpared

(* Every step of the engine keeps the invariant.                           *)
LEMMA NextKeeps == IInv /\ [Next]_vars => IInv'
BY NextTypes, NextMoves, StutterMoves, MovesKeep DEF IInv

LEMMA Inductive == Spec => []IInv
BY NextKeeps, InitSafe, PTL DEF Spec

(* The package in the foreground is in neither table that leads to a       *)
(* freeze, whatever events, reloads, ticks and failing writes came before. *)
THEOREM ForegroundSafe == Spec => []ForegroundIsFree
<1>1. IInv => ForegroundIsFree
  BY DEF IInv
<1> QED BY <1>1, Inductive, PTL

(* No package is frozen and waiting to be frozen.                          *)
THEOREM TablesApart == Spec => []FrozenIsNotWaiting
<1>1. IInv => FrozenIsNotWaiting
  BY DEF IInv
<1> QED BY <1>1, Inductive, PTL

(* The compiled-in critical packages are in no table that leads to a       *)
(* freeze.                                                                 *)
THEOREM CriticalSafe == Spec => []CriticalIsSpared
<1>1. IInv => CriticalIsSpared
  BY DEF IInv
<1> QED BY <1>1, Inductive, PTL

(* No path freezes a package that has a cooldown entry.                    *)
THEOREM CooldownSafe == Spec => CooldownHolds
<1>1. IInv /\ [Next]_vars =>
        [\A p \in Keys(frozen') \ Keys(frozen) : p \notin Keys(cooldown)]_vars
  BY NextMoves DEF Moves, KeepsFrozen, NewlyFrozen
<1> QED BY <1>1, Inductive, PTL DEF Spec, CooldownHolds

(* The engine implements the abstract life of a package: a package is sent *)
(* towards a freeze only in the step in which it leaves the foreground,    *)
(* nothing goes back from frozen to leaving, and the foreground and the    *)
(* critical packages run.                                                  *)
THEOREM LifeImplemented == Spec => LifeSpec
<1>1. Init => Life!Init
  <2>1. Init => Keys(frozen) = {} /\ Keys(grace) = {} /\ last_focus = NoPkg
    BY DEF Init, Keys, Without, Absent
  <2> QED BY <2>1 DEF Life!Init, Phase
<1>2. IInv /\ IInv' /\ [Next]_vars => [Life!Next]_(Life!vars)
  <2> SUFFICES ASSUME IInv, IInv', [Next]_vars
               PROVE  Life!Next
    OBVIOUS
  <2>1. Moves
    BY NextMoves, StutterMoves
  <2>2. Phase' \in [Pkg -> Life!Phases]
    BY DEF Phase, Life!Phases
  <2>3. last_focus' \in Pkg \cup {last_focus}
    BY <2>1 DEF Moves
  <2>4. ASSUME NEW p \in Pkg PROVE Life!MayBecome(p, Phase'[p])
    <3>1. p \in Keys(frozen') => p \in Keys(frozen) \/ NewlyFrozen(p)
      BY <2>1 DEF Moves, KeepsFrozen
    <3>2. p \in Keys(grace') => KeepsWaiting(p) \/ NewlyWaiting(p)
      BY <2>1 DEF Moves
    <3> QED BY <3>1, <3>2
            DEF Phase, Life!MayBecome, Life!Leaves, NewlyFrozen, KeepsWaiting, NewlyWaiting,
                IInv, FrozenIsNotWaiting
  <2>5. ASSUME NEW p \in Pkg, p \in Critical \/ p = last_focus'
        PROVE  Phase'[p] = "running"
    BY <2>5 DEF Phase, IInv, ForegroundIsFree, CriticalIsSpared
  <2> QED BY <2>2, <2>3, <2>4, <2>5 DEF Life!Next
<1> QED BY <1>1, <1>2, Inductive, PTL DEF Spec, LifeSpec, Life!Spec

-----------------------------------------------------------------------------
(* What is frozen has a record.  With a kernel that does what it is told   *)
(* and no other freezer at work, the uids that are held or stopped are     *)
(* alive and belong to packages of the frozen table.  That they are alive  *)
(* is what makes this inductive: the tick drops the records of uids with   *)
(* no process left.                                                        *)
Reliable == Faulty = {} /\ "freeze" \notin Meddling /\ Zombies = FALSE

HeldInv == /\ TypeOK
           /\ kernel.held \cup kernel.stopped \subseteq kernel.alive \cap U(Keys(frozen))

(* How the helpers move the held, the stopped and the living uids.         *)
SameReach(h, k)  == h.held = k.held /\ h.stopped = k.stopped /\ h.alive = k.alive
Thaws(h, k, us)  == h.held = k.held \ us /\ h.stopped = k.stopped \ us /\ h.alive = k.alive
Freezes(h, k, us) ==
    /\ h.held \cup h.stopped \subseteq (k.held \cup k.stopped) \cup (us \cap k.alive)
    /\ h.alive = k.alive

LEMMA LockReach ==
    ASSUME NEW k \in KernelType, NEW us
    PROVE  SameReach(protect_oom(k, us), k) /\ SameReach(restore_oom(k, us), k)
BY DEF protect_oom, restore_oom, KernelType, SameReach

LEMMA ThawReach ==
    ASSUME NEW k \in KernelType, NEW us, NEW io, io.deaf = {}
    PROVE  Thaws(unfreeze_keep_oom(k, us, io), k, us) /\ Thaws(unfreeze(k, us, io), k, us)
<1>1. Thaws(unfreeze_keep_oom(k, us, io), k, us)
  BY DEF unfreeze_keep_oom, KernelType, Thaws
<1>2. SameReach(unfreeze(k, us, io), unfreeze_keep_oom(k, us, io))
  BY HelperTypes, LockReach DEF unfreeze
<1> QED BY <1>1, <1>2 DEF Thaws, SameReach

LEMMA FreezeReach ==
    ASSUME NEW k \in KernelType, NEW us, NEW io
    PROVE  Freezes(freeze(k, us, io), k, us)
BY DEF freeze, protect_oom, Freezable, KernelType, Freezes

LEMMA DiscardReach ==
    ASSUME NEW k \in KernelType, NEW us, NEW io, io.deaf = {}
    PROVE  LET h == discard(k, us, io)
           IN  /\ h.held = k.held \ us /\ h.stopped = k.stopped \ us
               /\ h.alive = k.alive \ us
<1> DEFINE w == unfreeze(k, us, io)
<1>1. w \in KernelType /\ Thaws(w, k, us)
  BY ThawReach, HelperTypes
<1>2. discard(k, us, io) = [w EXCEPT !.alive = @ \ us, !.locked = @ \ us]
  BY DEF discard
<1> HIDE DEF w
<1> QED BY <1>1, <1>2 DEF KernelType, Thaws

LEMMA ReliableAnswers ==
    ASSUME Reliable, NEW io \in Answers
    PROVE  io.deaf = {}
BY DEF Reliable, Answers

LEMMA FocusHeld ==
    ASSUME HeldInv, Reliable, NEW p \in Pkg, NEW e, NEW clock, NEW io \in Answers,
           Focus(p, e, clock, io)
    PROVE  kernel'.held \cup kernel'.stopped \subseteq kernel'.alive \cap U(Keys(frozen'))
<1> DEFINE tries == p \in Keys(frozen) \/ Residual(p)
           k1    == IF tries THEN unfreeze_keep_oom(kernel, {UidOf[p]}, io) ELSE kernel
           acted == {q \in Leaving(p) : ~LeaveSpares(q, e, clock)}
           now   == {q \in acted : LeaveForces(q, e)}
           froze == Frozen_now(now, k1, io)
           wait  == acted \ now
           k2    == freeze(k1, U(froze), io)
<1>1. kernel \in KernelType /\ io.deaf = {}
  BY ReliableAnswers DEF HeldInv, TypeOK
<1>2. /\ k1 \in KernelType /\ k1.alive = kernel.alive
      /\ k1.held \cup k1.stopped \subseteq kernel.held \cup kernel.stopped
      /\ tries => UidOf[p] \notin k1.held \cup k1.stopped
  <2>1. CASE tries
    BY <1>1, <2>1, HelperTypes, ThawReach DEF Thaws
  <2>2. CASE ~tries
    BY <1>1, <2>2
  <2> QED BY <2>1, <2>2
<1>3. k1.held \cup k1.stopped \subseteq k1.alive \cap U(Keys(frozen) \ {p})
  <2> HIDE DEF k1
  <2> QED BY <1>2 DEF HeldInv, U
<1>4. k2 \in KernelType /\ k2.alive = k1.alive
      /\ k2.held \cup k2.stopped \subseteq (k1.held \cup k1.stopped) \cup (U(froze) \cap k1.alive)
  <2> HIDE DEF k1, froze
  <2> QED BY <1>1, <1>2, HelperTypes, FreezeReach DEF Freezes
<1>5. Keys(frozen') = (Keys(frozen) \ {p}) \cup froze
  <2>1. frozen' = With(Without(frozen, {p}), froze, 0)
    BY DEF Focus
  <2>2. Without(frozen, {p}) \in [Pkg -> Timer]
    BY TableTypes DEF HeldInv, TypeOK, Timer
  <2>3. Keys(Without(frozen, {p})) = Keys(frozen) \ {p}
    BY TableTypes DEF HeldInv, TypeOK, Timer
  <2>4. froze \subseteq Pkg
    BY DEF Frozen_now, Leaving, HeldInv, TypeOK
  <2> HIDE DEF froze
  <2> QED BY <2>1, <2>2, <2>3, <2>4, TableTypes DEF Timer, Absent
<1>6. /\ kernel'.alive = k2.alive
      /\ kernel'.held = k2.held /\ kernel'.stopped = k2.stopped
  <2>1. kernel' = protect_oom(k2, U(wait))
    BY DEF Focus
  <2> HIDE DEF k2, wait
  <2> QED BY <1>1, <1>4, <2>1, LockReach DEF SameReach
<1> HIDE DEF k1, k2, froze
<1> QED BY <1>3, <1>4, <1>5, <1>6 DEF U

LEMMA TickEnabledHeld ==
    ASSUME HeldInv, Reliable, NEW e, NEW any, NEW io \in Answers, NEW at,
           TickEnabled(e, any, io, at)
    PROVE  kernel'.held \cup kernel'.stopped \subseteq kernel'.alive \cap U(Keys(frozen'))
<1> DEFINE k1    == lock_system_chain_oom(kernel, io)
           fresh == Frozen_now({p \in Expired : ~TickSpares(p, e)}, k1, io)
           k2    == freeze(k1, U(fresh), io)
           fz    == LiveOnly(With(frozen, fresh, 0), k2)
<1>1. PICK V, K : TickEnds(Without(fz, V), discard(k2, U(V), io), K, any, io)
  BY TickStages, Zenon
<1>2. kernel \in KernelType /\ io.deaf = {}
  BY ReliableAnswers DEF HeldInv, TypeOK
<1>3. /\ k1 \in KernelType /\ k1.alive = kernel.alive
      /\ k1.held \cup k1.stopped \subseteq kernel.held \cup kernel.stopped
  <2> DEFINE lk == protect_oom(kernel, U(Critical))
  <2>1. lk \in KernelType /\ SameReach(lk, kernel)
    BY <1>2, HelperTypes, LockReach
  <2>2. k1 = kernel \/ k1 = unfreeze_keep_oom(lk, U(Critical), io)
    BY DEF lock_system_chain_oom
  <2> HIDE DEF lk, k1
  <2>3. CASE k1 = kernel
    BY <1>2, <2>3
  <2>4. CASE k1 = unfreeze_keep_oom(lk, U(Critical), io)
    BY <1>2, <2>1, <2>4, HelperTypes, ThawReach DEF SameReach, Thaws
  <2> QED BY <2>2, <2>3, <2>4
<1>4. /\ k2 \in KernelType /\ k2.alive = k1.alive
      /\ k2.held \cup k2.stopped \subseteq (k1.held \cup k1.stopped) \cup (U(fresh) \cap k1.alive)
  <2> HIDE DEF k1, fresh
  <2> QED BY <1>2, <1>3, HelperTypes, FreezeReach DEF Freezes
<1>5. Keys(fz) = {p \in Keys(frozen) \cup fresh : UidOf[p] \in k2.alive}
  <2>1. fresh \subseteq Pkg
    BY DEF Frozen_now, Expired, Keys
  <2> HIDE DEF fresh, k2
  <2>2. /\ With(frozen, fresh, 0) \in [Pkg -> Timer]
        /\ Keys(With(frozen, fresh, 0)) = Keys(frozen) \cup fresh
    BY <2>1, TableTypes DEF HeldInv, TypeOK, Timer, Absent
  <2>3. Keys(fz) = Keys(With(frozen, fresh, 0)) \ {p \in Pkg : UidOf[p] \notin k2.alive}
    BY <2>2, TableTypes DEF LiveOnly, Timer
  <2> QED BY <2>2, <2>3 DEF Keys
<1>6. k2.held \cup k2.stopped \subseteq k2.alive \cap U(Keys(fz))
  <2> HIDE DEF k1, k2, fresh, fz
  <2> QED BY <1>3, <1>4, <1>5 DEF HeldInv, U
<1> HIDE DEF k1, k2, fresh, fz
<1> DEFINE rest == Without(fz, V)
           k3   == discard(k2, U(V), io)
           back == (adj_keep \ K) \cap Returned
           wakes == NetWakes(rest, any)
           relocked == IF Due(LockEvery) THEN protect_oom(k3, U(Keys(rest))) ELSE k3
           j    == restore_oom(relocked, U(back))
<1>7. /\ k3 \in KernelType
      /\ k3.held \cup k3.stopped \subseteq k3.alive \cap U(Keys(rest))
  <2>1. Keys(rest) = Keys(fz) \ V
    BY DEF Without, Keys
  <2>2. /\ k3 \in KernelType /\ k3.alive = k2.alive \ U(V)
        /\ k3.held = k2.held \ U(V) /\ k3.stopped = k2.stopped \ U(V)
    BY <1>2, <1>4, HelperTypes, DiscardReach
  <2> HIDE DEF k3, rest
  <2> QED BY <1>6, <2>1, <2>2 DEF U
<1>8. /\ j \in KernelType /\ j.alive = k3.alive
      /\ j.held = k3.held /\ j.stopped = k3.stopped
  <2> HIDE DEF k3, rest, back
  <2>1. /\ relocked \in KernelType /\ relocked.alive = k3.alive
        /\ relocked.held = k3.held /\ relocked.stopped = k3.stopped
    BY <1>7, HelperTypes, LockReach DEF SameReach
  <2> HIDE DEF relocked
  <2> QED BY <2>1, HelperTypes, LockReach DEF SameReach
<1>9. frozen' = Without(rest, wakes) /\ kernel' = unfreeze_keep_oom(j, U(wakes), io)
  BY <1>1 DEF TickEnds
<1>10. Keys(frozen') = Keys(rest) \ wakes
  <2> HIDE DEF rest, wakes
  <2> QED BY <1>9 DEF Without, Keys
<1>11. /\ kernel'.alive = j.alive
       /\ kernel'.held = j.held \ U(wakes) /\ kernel'.stopped = j.stopped \ U(wakes)
  <2> HIDE DEF j, wakes
  <2> QED BY <1>2, <1>8, <1>9, ThawReach DEF Thaws
<1> HIDE DEF j, k3, rest, wakes
<1> QED BY <1>7, <1>8, <1>10, <1>11 DEF U

(* Where the kernel keeps its held uids and the table its records nothing  *)
(* can go wrong.                                                           *)
LEMMA SameHeld ==
    ASSUME HeldInv, Keys(frozen) \subseteq Keys(frozen'), kernel' = kernel
    PROVE  kernel'.held \cup kernel'.stopped \subseteq kernel'.alive \cap U(Keys(frozen'))
BY DEF HeldInv, U

(* Dropping records is fine when their uids are thawed.                    *)
LEMMA ThawedHeld ==
    ASSUME HeldInv, NEW S, Keys(frozen) \ S \subseteq Keys(frozen'),
           Thaws(kernel', kernel, U(S))
    PROVE  kernel'.held \cup kernel'.stopped \subseteq kernel'.alive \cap U(Keys(frozen'))
BY DEF HeldInv, U, Thaws

LEMMA NextHeld ==
    ASSUME HeldInv, Reliable, Next
    PROVE  kernel'.held \cup kernel'.stopped \subseteq kernel'.alive \cap U(Keys(frozen'))
<1> DEFINE Goal == kernel'.held \cup kernel'.stopped \subseteq kernel'.alive \cap U(Keys(frozen'))
<1> SUFFICES Goal
  OBVIOUS
<1>k. kernel \in KernelType
  BY DEF HeldInv, TypeOK
<1>d. \A io \in Answers : io.deaf = {}
  BY ReliableAnswers
<1> HIDE DEF Goal
<1>1. CASE Events
  <2>1. ASSUME NEW p \in Pkg, NEW e, NEW clock, NEW io \in Answers, Focus(p, e, clock, io)
        PROVE  Goal
    BY <2>1, FocusHeld DEF Goal
  <2>2. ASSUME NEW p \in Pkg, NEW s, NEW listed, NEW e, NEW io \in Answers,
               Wakeup(p, s, listed, e, io)
        PROVE  Goal
    <3>1. Keys(frozen') = Keys(frozen) \ {p}
      BY <2>2 DEF Wakeup, Without, Keys
    <3>2. CASE p \in Keys(frozen)
      <4>1. kernel' = unfreeze_keep_oom(kernel, {UidOf[p]}, io)
        BY <2>2, <3>2 DEF Wakeup
      <4>2. U({p}) = {UidOf[p]}
        BY DEF U
      <4>3. Thaws(kernel', kernel, U({p}))
        BY <1>k, <1>d, <4>1, <4>2, ThawReach
      <4> QED BY <3>1, <4>3, ThawedHeld DEF Goal
    <3>3. CASE p \notin Keys(frozen)
      <4>1. kernel' = kernel
        BY <2>2, <3>3 DEF Wakeup
      <4> QED BY <3>1, <3>3, <4>1, SameHeld DEF Goal
    <3> QED BY <3>2, <3>3
  <2>3. ASSUME NEW p, NEW fl, Exempt(p, fl)
        PROVE  Goal
    BY <2>3, SameHeld DEF Exempt, tableVars, Goal
  <2>4. ASSUME NEW p \in Pkg, NEW io \in Answers, ForceStop(p, io)
        PROVE  Goal
    <3>1. Keys(frozen') = Keys(frozen) \ {p}
      BY <2>4 DEF ForceStop, Without, Keys
    <3>2. kernel' = unfreeze(kernel, {UidOf[p]}, io) /\ U({p}) = {UidOf[p]}
      BY <2>4 DEF ForceStop, U
    <3>3. Thaws(kernel', kernel, U({p}))
      BY <1>k, <1>d, <3>2, ThawReach
    <3> QED BY <3>1, <3>3, ThawedHeld DEF Goal
  <2> QED BY <1>1, <2>1, <2>2, <2>3, <2>4 DEF Events
<1>2. CASE Config
  <2>1. ASSUME NEW pol, NEW sys, NEW ps, NEW rul, NEW e, NEW io \in Answers,
               Reload(pol, sys, ps, rul, e, io)
        PROVE  Goal
    <3> DEFINE thaw == ReloadThaws(reloaded(pol, ps), sys, rul, e)
    <3>1. frozen' = Without(frozen, thaw) /\ kernel' = unfreeze(kernel, U(thaw), io)
      BY <2>1 DEF Reload
    <3> HIDE DEF thaw
    <3>2. Keys(frozen') = Keys(frozen) \ thaw
      BY <3>1 DEF Without, Keys
    <3>3. Thaws(kernel', kernel, U(thaw))
      BY <1>k, <1>d, <3>1, ThawReach
    <3> QED BY <3>2, <3>3, ThawedHeld DEF Goal
  <2>2. ASSUME NEW sys, NEW ps, NEW rul, ReloadFails(sys, ps, rul)
        PROVE  Goal
    BY <2>2, SameHeld DEF ReloadFails, tableVars, Goal
  <2>3. ASSUME NEW n, ApplyPreset(n)
        PROVE  Goal
    BY <2>3, SameHeld DEF ApplyPreset, tableVars, Goal
  <2>4. ASSUME NEW pol, ClearPreset(pol)
        PROVE  Goal
    BY <2>4, SameHeld DEF ClearPreset, tableVars, Goal
  <2> QED BY <1>2, <2>1, <2>2, <2>3, <2>4 DEF Config
<1>3. CASE Tick
  <2>1. ASSUME NEW io \in Answers, TickDisabled(io)
        PROVE  Goal
    <3> DEFINE lk == lock_system_chain_oom(kernel, io)
    <3>1. /\ lk \in KernelType /\ lk.alive = kernel.alive
          /\ lk.held \subseteq kernel.held /\ lk.stopped \subseteq kernel.stopped
      <4> DEFINE pr == protect_oom(kernel, U(Critical))
      <4>1. pr \in KernelType /\ SameReach(pr, kernel)
        BY <1>k, HelperTypes, LockReach
      <4>2. lk = kernel \/ lk = unfreeze_keep_oom(pr, U(Critical), io)
        BY DEF lock_system_chain_oom
      <4> HIDE DEF pr, lk
      <4>3. CASE lk = kernel
        BY <1>k, <4>3
      <4>4. CASE lk = unfreeze_keep_oom(pr, U(Critical), io)
        BY <1>d, <4>1, <4>4, HelperTypes, ThawReach DEF SameReach, Thaws
      <4> QED BY <4>2, <4>3, <4>4
    <3>2. kernel' = unfreeze(lk, U(Keys(frozen)), io)
      BY <2>1 DEF TickDisabled
    <3> HIDE DEF lk
    <3>3. Thaws(kernel', lk, U(Keys(frozen)))
      BY <1>d, <3>1, <3>2, ThawReach
    <3> QED BY <3>1, <3>3 DEF Thaws, HeldInv, Goal
  <2>2. ASSUME NEW e, NEW any, NEW io \in Answers, NEW at, TickEnabled(e, any, io, at)
        PROVE  Goal
    BY <2>2, TickEnabledHeld DEF Goal
  <2> QED BY <1>3, <2>1, <2>2 DEF Tick
<1>4. CASE Environment
  <2>1. CASE Elapse
    <3>1. Keys(frozen') = Keys(frozen)
      BY <2>1, EngineAssumption DEF Elapse, Older, Keys, Absent, HeldInv, TypeOK, Timer
    <3>2. kernel' = kernel
      BY <2>1 DEF Elapse
    <3> QED BY <3>1, <3>2, SameHeld DEF Goal
  <2>2. ASSUME NEW u \in Uid,
               ProcessStart(u) \/ ProcessEnd(u) \/ SystemFreeze(u) \/ SystemThaw(u) \/ SystemAdj(u)
        PROVE  Goal
    <3>1. frozen' = frozen
      BY <2>2 DEF ProcessStart, ProcessEnd, SystemFreeze, SystemThaw, SystemAdj, World, tableVars
    <3>2. ~SystemFreeze(u)
      BY DEF SystemFreeze, Reliable
    <3>3. \/ kernel' = start_process(kernel, u)
          \/ kernel' = end_process(kernel, u, FALSE)
          \/ kernel' = system_thaw(kernel, u)
          \/ kernel' = system_adj(kernel, u)
      BY <2>2, <3>2 DEF ProcessStart, ProcessEnd, SystemThaw, SystemAdj, World, Reliable
    <3>4. \/ kernel'.alive = kernel.alive \cup {u} /\ kernel'.held = kernel.held
             /\ kernel'.stopped = kernel.stopped
          \/ kernel'.alive = kernel.alive \ {u} /\ kernel'.held = kernel.held \ {u}
             /\ kernel'.stopped = kernel.stopped \ {u}
          \/ kernel'.alive = kernel.alive /\ kernel'.held \subseteq kernel.held
             /\ kernel'.stopped = kernel.stopped
      BY <1>k, <3>3 DEF KernelType, start_process, end_process, system_thaw, system_adj
    <3> QED BY <3>1, <3>4 DEF HeldInv, U, Keys, Goal
  <2>3. ASSUME NEW o, TunChange(o)
        PROVE  Goal
    BY <2>3, SameHeld DEF TunChange, tableVars, Goal
  <2> QED BY <1>4, <2>1, <2>2, <2>3 DEF Environment
<1> QED BY <1>1, <1>2, <1>3, <1>4 DEF Next

(* With a reliable kernel whatever is held or stopped has a record in the  *)
(* frozen table, which some event or tick will act on.                     *)
THEOREM HeldSafe == Reliable => (Spec => []HeldIsRecorded)
<1> SUFFICES ASSUME Reliable PROVE Spec => []HeldIsRecorded
  OBVIOUS
<1>1. Init => HeldInv
  BY InitTypes DEF Init, HeldInv
<1>2. HeldInv /\ TypeOK' /\ [Next]_vars => HeldInv'
  <2> SUFFICES ASSUME HeldInv, TypeOK', [Next]_vars PROVE HeldInv'
    OBVIOUS
  <2>1. CASE Next
    BY <2>1, NextHeld DEF HeldInv
  <2>2. CASE UNCHANGED vars
    BY <2>2, SameHeld DEF vars, tableVars, HeldInv
  <2> QED BY <2>1, <2>2
<1>3. HeldInv => HeldIsRecorded
  BY DEF HeldInv, HeldIsRecorded
<1> QED BY <1>1, <1>2, <1>3, TypeCorrect, PTL DEF Spec

-----------------------------------------------------------------------------
(* What the SIGSTOP fallback stopped.  SIGCONT is sent whatever the cgroup *)
(* writes answer, so here no assumption about the kernel is needed: as     *)
(* long as the daemon lives, a stopped uid has processes and belongs to a  *)
(* package of the frozen table.                                            *)
StopInv == /\ TypeOK
           /\ kernel.stopped \subseteq kernel.alive \cap U(Keys(frozen))

LEMMA HelpersStop ==
    ASSUME NEW k \in KernelType, NEW us, NEW io
    PROVE  /\ unfreeze_keep_oom(k, us, io).stopped = k.stopped \ us
           /\ unfreeze_keep_oom(k, us, io).alive = k.alive
           /\ unfreeze(k, us, io).stopped = k.stopped \ us
           /\ unfreeze(k, us, io).alive = k.alive
           /\ freeze(k, us, io).stopped \subseteq k.stopped \cup (us \cap k.alive)
           /\ freeze(k, us, io).alive = k.alive
           /\ discard(k, us, io).stopped = k.stopped \ us
           /\ discard(k, us, io).alive = k.alive \ us
<1>1. /\ unfreeze_keep_oom(k, us, io).stopped = k.stopped \ us
      /\ unfreeze_keep_oom(k, us, io).alive = k.alive
  BY DEF unfreeze_keep_oom, KernelType
<1>2. /\ unfreeze(k, us, io).stopped = k.stopped \ us
      /\ unfreeze(k, us, io).alive = k.alive
  BY <1>1, HelperTypes, LockReach DEF unfreeze, SameReach
<1>3. /\ freeze(k, us, io).stopped \subseteq k.stopped \cup (us \cap k.alive)
      /\ freeze(k, us, io).alive = k.alive
  BY DEF freeze, protect_oom, Freezable, KernelType
<1>4. /\ discard(k, us, io).stopped = k.stopped \ us
      /\ discard(k, us, io).alive = k.alive \ us
  <2> DEFINE w == unfreeze(k, us, io)
  <2>1. w \in KernelType /\ w.stopped = k.stopped \ us /\ w.alive = k.alive
    BY <1>2, HelperTypes
  <2>2. discard(k, us, io) = [w EXCEPT !.alive = @ \ us, !.locked = @ \ us]
    BY DEF discard
  <2> HIDE DEF w
  <2> QED BY <2>1, <2>2 DEF KernelType
<1> QED BY <1>1, <1>2, <1>3, <1>4

LEMMA SystemChainStops ==
    ASSUME TypeOK, NEW io
    PROVE  LET k1 == lock_system_chain_oom(kernel, io)
           IN  /\ k1 \in KernelType /\ k1.alive = kernel.alive
               /\ k1.stopped \subseteq kernel.stopped
<1> DEFINE lk == protect_oom(kernel, U(Critical))
<1>1. lk \in KernelType /\ SameReach(lk, kernel)
  BY HelperTypes, LockReach DEF TypeOK
<1>2. \/ lock_system_chain_oom(kernel, io) = kernel
      \/ lock_system_chain_oom(kernel, io) = unfreeze_keep_oom(lk, U(Critical), io)
  BY DEF lock_system_chain_oom
<1> HIDE DEF lk
<1> QED BY <1>1, <1>2, HelperTypes, HelpersStop DEF SameReach, TypeOK

LEMMA FocusStops ==
    ASSUME StopInv, NEW p \in Pkg, NEW e, NEW clock, NEW io, Focus(p, e, clock, io)
    PROVE  kernel'.stopped \subseteq kernel'.alive \cap U(Keys(frozen'))
<1> DEFINE tries == p \in Keys(frozen) \/ Residual(p)
           k1    == IF tries THEN unfreeze_keep_oom(kernel, {UidOf[p]}, io) ELSE kernel
           acted == {q \in Leaving(p) : ~LeaveSpares(q, e, clock)}
           now   == {q \in acted : LeaveForces(q, e)}
           froze == Frozen_now(now, k1, io)
           wait  == acted \ now
           k2    == freeze(k1, U(froze), io)
<1>1. kernel \in KernelType
  BY DEF StopInv, TypeOK
<1>2. /\ k1 \in KernelType /\ k1.alive = kernel.alive
      /\ k1.stopped \subseteq kernel.stopped
      /\ p \in Keys(frozen) => UidOf[p] \notin k1.stopped
  BY <1>1, HelperTypes, HelpersStop
<1>3. k1.stopped \subseteq k1.alive \cap U(Keys(frozen) \ {p})
  <2> HIDE DEF k1
  <2> QED BY <1>2 DEF StopInv, U
<1>4. Keys(frozen') = (Keys(frozen) \ {p}) \cup froze
  <2>1. frozen' = With(Without(frozen, {p}), froze, 0)
    BY DEF Focus
  <2>2. froze \subseteq Pkg
    BY DEF Frozen_now, Leaving, StopInv, TypeOK
  <2> HIDE DEF froze
  <2> QED BY <2>1, <2>2 DEF With, Without, Keys, Absent
<1>5. kernel' = protect_oom(k2, U(wait))
  BY DEF Focus
<1> HIDE DEF k1, froze, wait
<1>6. /\ k2 \in KernelType /\ k2.alive = k1.alive
      /\ k2.stopped \subseteq k1.stopped \cup (U(froze) \cap k1.alive)
  BY <1>2, HelperTypes, HelpersStop
<1> HIDE DEF k2
<1>7. kernel'.alive = k2.alive /\ kernel'.stopped = k2.stopped
  BY <1>5, <1>6, LockReach DEF SameReach
<1> QED BY <1>3, <1>4, <1>6, <1>7 DEF U

LEMMA TickEnabledStops ==
    ASSUME StopInv, NEW e, NEW any, NEW io, NEW at, TickEnabled(e, any, io, at)
    PROVE  kernel'.stopped \subseteq kernel'.alive \cap U(Keys(frozen'))
<1> DEFINE k1    == lock_system_chain_oom(kernel, io)
           fresh == Frozen_now({p \in Expired : ~TickSpares(p, e)}, k1, io)
           k2    == freeze(k1, U(fresh), io)
           fz    == LiveOnly(With(frozen, fresh, 0), k2)
<1>1. PICK V, K : TickEnds(Without(fz, V), discard(k2, U(V), io), K, any, io)
  BY TickStages, Zenon
<1>2. /\ k1 \in KernelType /\ k1.alive = kernel.alive
      /\ k1.stopped \subseteq kernel.stopped
  BY SystemChainStops DEF StopInv
<1>3. /\ k2 \in KernelType /\ k2.alive = k1.alive
      /\ k2.stopped \subseteq k1.stopped \cup (U(fresh) \cap k1.alive)
  <2> HIDE DEF k1, fresh
  <2> QED BY <1>2, HelperTypes, HelpersStop
<1>4. Keys(fz) = {p \in Keys(frozen) \cup fresh : UidOf[p] \in k2.alive}
  <2>1. fresh \subseteq Pkg
    BY DEF Frozen_now, Expired, Keys
  <2> HIDE DEF fresh, k2
  <2> QED BY <2>1 DEF LiveOnly, With, Without, Keys, Absent
<1> DEFINE rest     == Without(fz, V)
           k3       == discard(k2, U(V), io)
           back     == (adj_keep \ K) \cap Returned
           wakes    == NetWakes(rest, any)
           relocked == IF Due(LockEvery) THEN protect_oom(k3, U(Keys(rest))) ELSE k3
           j        == restore_oom(relocked, U(back))
<1>5. frozen' = Without(rest, wakes) /\ kernel' = unfreeze_keep_oom(j, U(wakes), io)
  BY <1>1 DEF TickEnds
<1>6. Keys(rest) = Keys(fz) \ V
  BY DEF Without, Keys
<1> HIDE DEF k1, fresh, k2, fz
<1>7. k2.stopped \subseteq k2.alive \cap U(Keys(fz))
  BY <1>2, <1>3, <1>4 DEF StopInv, U
<1>8. /\ k3 \in KernelType /\ k3.alive = k2.alive \ U(V) /\ k3.stopped = k2.stopped \ U(V)
  BY <1>3, HelperTypes, HelpersStop
<1> HIDE DEF k3, rest, back, wakes
<1>9. k3.stopped \subseteq k3.alive \cap U(Keys(rest))
  BY <1>6, <1>7, <1>8 DEF U
<1>10. relocked \in KernelType /\ SameReach(relocked, k3)
  BY <1>8, HelperTypes, LockReach DEF SameReach
<1> HIDE DEF relocked
<1>11. j \in KernelType /\ SameReach(j, relocked)
  BY <1>10, HelperTypes, LockReach
<1> HIDE DEF j
<1>12. kernel'.alive = j.alive /\ kernel'.stopped = j.stopped \ U(wakes)
  BY <1>5, <1>11, HelpersStop
<1>13. Keys(frozen') = Keys(rest) \ wakes
  BY <1>5 DEF Without, Keys
<1> QED BY <1>9, <1>10, <1>11, <1>12, <1>13 DEF SameReach, U

(* A step that continues what leaves the frozen table, or leaves the       *)
(* stopped uids alone, is safe.                                            *)
LEMMA ContinuedStops ==
    ASSUME StopInv, NEW S, Keys(frozen) \ S \subseteq Keys(frozen'),
           kernel'.alive = kernel.alive, kernel'.stopped \subseteq kernel.stopped \ U(S)
    PROVE  kernel'.stopped \subseteq kernel'.alive \cap U(Keys(frozen'))
BY DEF StopInv, U

LEMMA SameStops ==
    ASSUME StopInv, Keys(frozen) \subseteq Keys(frozen'), kernel' = kernel
    PROVE  kernel'.stopped \subseteq kernel'.alive \cap U(Keys(frozen'))
BY DEF StopInv, U

LEMMA NextStops ==
    ASSUME StopInv, Next
    PROVE  kernel'.stopped \subseteq kernel'.alive \cap U(Keys(frozen'))
<1> DEFINE Goal == kernel'.stopped \subseteq kernel'.alive \cap U(Keys(frozen'))
<1>k. kernel \in KernelType
  BY DEF StopInv, TypeOK
<1>s. \A p \in Pkg : U({p}) = {UidOf[p]}
  BY DEF U
<1>0. ASSUME frozen' = frozen, kernel' = kernel PROVE Goal
  BY <1>0, SameStops
<1> SUFFICES Goal
  OBVIOUS
<1>1. CASE Events
  <2>1. ASSUME NEW p \in Pkg, NEW e, NEW clock, NEW io, Focus(p, e, clock, io)
        PROVE  Goal
    BY <2>1, FocusStops
  <2>2. ASSUME NEW p \in Pkg, NEW s, NEW listed, NEW e, NEW io, Wakeup(p, s, listed, e, io)
        PROVE  Goal
    <3>1. Keys(frozen') = Keys(frozen) \ {p}
      BY <2>2 DEF Wakeup, Without, Keys
    <3>2. CASE p \in Keys(frozen)
      <4>1. kernel' = unfreeze_keep_oom(kernel, {UidOf[p]}, io)
        BY <2>2, <3>2 DEF Wakeup
      <4>2. kernel'.alive = kernel.alive /\ kernel'.stopped = kernel.stopped \ U({p})
        BY <1>k, <1>s, <4>1, HelpersStop
      <4> QED BY <3>1, <4>2, ContinuedStops
    <3>3. CASE p \notin Keys(frozen)
      <4>1. kernel' = kernel
        BY <2>2, <3>3 DEF Wakeup
      <4> QED BY <3>1, <3>3, <4>1, SameStops
    <3> QED BY <3>2, <3>3
  <2>3. ASSUME NEW p, NEW fl, Exempt(p, fl)
        PROVE  Goal
    BY <1>0, <2>3 DEF Exempt, tableVars
  <2>4. ASSUME NEW p \in Pkg, NEW io, ForceStop(p, io)
        PROVE  Goal
    <3>1. Keys(frozen') = Keys(frozen) \ {p}
      BY <2>4 DEF ForceStop, Without, Keys
    <3>2. kernel'.alive = kernel.alive /\ kernel'.stopped = kernel.stopped \ U({p})
      BY <1>k, <1>s, <2>4, HelpersStop DEF ForceStop
    <3> QED BY <3>1, <3>2, ContinuedStops
  <2> HIDE DEF Goal
  <2> QED BY <1>1, <2>1, <2>2, <2>3, <2>4 DEF Events
<1>2. CASE Config
  <2>1. ASSUME NEW pol, NEW sys, NEW ps, NEW rul, NEW e, NEW io,
               Reload(pol, sys, ps, rul, e, io)
        PROVE  Goal
    <3>1. PICK S : frozen' = Without(frozen, S) /\ kernel' = unfreeze(kernel, U(S), io)
      BY <2>1, Zenon DEF Reload
    <3>2. Keys(frozen') = Keys(frozen) \ S
      BY <3>1 DEF Without, Keys
    <3>3. kernel'.alive = kernel.alive /\ kernel'.stopped = kernel.stopped \ U(S)
      BY <1>k, <3>1, HelpersStop
    <3> QED BY <3>2, <3>3, ContinuedStops
  <2> HIDE DEF Goal
  <2> QED BY <1>0, <1>2, <2>1 DEF Config, ReloadFails, ApplyPreset, ClearPreset, tableVars
<1>3. CASE Tick
  <2>1. ASSUME NEW io, TickDisabled(io)
        PROVE  Goal
    <3> DEFINE k1 == lock_system_chain_oom(kernel, io)
    <3>1. /\ k1 \in KernelType /\ k1.alive = kernel.alive
          /\ k1.stopped \subseteq kernel.stopped
      BY SystemChainStops DEF StopInv
    <3>2. kernel' = unfreeze(k1, U(Keys(frozen)), io)
      BY <2>1 DEF TickDisabled
    <3> HIDE DEF k1
    <3>3. kernel'.stopped = k1.stopped \ U(Keys(frozen))
      BY <3>1, <3>2, HelpersStop
    <3> QED BY <3>1, <3>3 DEF StopInv
  <2>2. ASSUME NEW e, NEW any, NEW io, NEW at, TickEnabled(e, any, io, at)
        PROVE  Goal
    BY <2>2, TickEnabledStops
  <2> HIDE DEF Goal
  <2> QED BY <1>3, <2>1, <2>2 DEF Tick
<1>4. CASE Environment
  <2>1. CASE Elapse
    <3>1. Keys(frozen') = Keys(frozen)
      BY <2>1, EngineAssumption DEF Elapse, Older, Keys, Absent, StopInv, TypeOK, Timer
    <3> QED BY <2>1, <3>1, SameStops DEF Elapse
  <2>2. ASSUME NEW u \in Uid,
               ProcessStart(u) \/ ProcessEnd(u) \/ SystemFreeze(u) \/ SystemThaw(u) \/ SystemAdj(u)
        PROVE  Goal
    <3>1. frozen' = frozen
      BY <2>2 DEF ProcessStart, ProcessEnd, SystemFreeze, SystemThaw, SystemAdj, World, tableVars
    <3>2. \E z : \/ kernel' = start_process(kernel, u)
                 \/ kernel' = end_process(kernel, u, z)
                 \/ kernel' = system_freeze(kernel, u)
                 \/ kernel' = system_thaw(kernel, u)
                 \/ kernel' = system_adj(kernel, u)
      BY <2>2 DEF ProcessStart, ProcessEnd, SystemFreeze, SystemThaw, SystemAdj, World
    <3>3. \/ kernel'.alive = kernel.alive \ {u} /\ kernel'.stopped = kernel.stopped \ {u}
          \/ kernel.alive \subseteq kernel'.alive /\ kernel'.stopped = kernel.stopped
      BY <1>k, <3>2 DEF KernelType, start_process, end_process, system_freeze, system_thaw,
                        system_adj
    <3> QED BY <3>1, <3>3 DEF StopInv, U, Keys
  <2>3. ASSUME NEW o, TunChange(o)
        PROVE  Goal
    BY <1>0, <2>3 DEF TunChange, tableVars
  <2> HIDE DEF Goal
  <2> QED BY <1>4, <2>1, <2>2, <2>3 DEF Environment
<1> QED BY <1>1, <1>2, <1>3, <1>4 DEF Next

(* Packages have uids of their own (no sharedUserId).                      *)
OwnUids == \A p, q \in Pkg : UidOf[p] = UidOf[q] => p = q

(* As long as the daemon lives, no process of the package in the           *)
(* foreground is left stopped, whichever writes fail.  A restart breaks    *)
(* this (RestartStop): it takes over what the cgroups say is frozen, and   *)
(* SIGSTOP leaves no trace there.                                          *)
THEOREM ForegroundResumesWhileUp == OwnUids => (Spec => []ForegroundResumes)
<1> SUFFICES ASSUME OwnUids PROVE Spec => []ForegroundResumes
  OBVIOUS
<1>1. Init => StopInv
  BY InitTypes DEF Init, StopInv
<1>2. StopInv /\ TypeOK' /\ [Next]_vars => StopInv'
  <2> SUFFICES ASSUME StopInv, TypeOK', [Next]_vars PROVE StopInv'
    OBVIOUS
  <2>1. CASE Next
    BY <2>1, NextStops DEF StopInv
  <2>2. CASE UNCHANGED vars
    BY <2>2, SameStops DEF vars, tableVars, StopInv
  <2> QED BY <2>1, <2>2
<1>3. IInv /\ StopInv => ForegroundResumes
  BY DEF IInv, ForegroundIsFree, StopInv, ForegroundResumes, OwnUids, U, Keys, TypeOK
<1> QED BY <1>1, <1>2, <1>3, Inductive, TypeCorrect, PTL DEF Spec

-----------------------------------------------------------------------------
(* The preset in force.                                                    *)

(* Laying the same preset over a policy twice changes nothing.             *)
LEMMA OverlayIdempotent ==
    ASSUME NEW pol \in PolicyType, NEW n \in Preset
    PROVE  overlay_preset(overlay_preset(pol, n), n) = overlay_preset(pol, n)
<1> DEFINE new == overlay_preset(pol, n)
<1>1. new \in PolicyType
  BY OverlayTypes
<1>2. /\ new.enabled = Overlay[n].enabled /\ new.grace = Overlay[n].grace
      /\ new.cooldown = Overlay[n].cooldown
      /\ new.keep = (pol.keep \ {"fg", "media"}) \cup Overlay[n].keep
  BY DEF overlay_preset, PolicyType
<1>3. (new.keep \ {"fg", "media"}) \cup Overlay[n].keep = new.keep
  BY <1>2
<1>4. overlay_preset(new, n) =
        [new EXCEPT !.enabled = Overlay[n].enabled, !.grace = Overlay[n].grace,
                    !.cooldown = Overlay[n].cooldown,
                    !.keep = (@ \ {"fg", "media"}) \cup Overlay[n].keep]
  BY DEF overlay_preset
<1> HIDE DEF new
<1>5. overlay_preset(new, n) =
        [[[[new EXCEPT !.enabled = new.enabled] EXCEPT !.grace = new.grace]
             EXCEPT !.cooldown = new.cooldown] EXCEPT !.keep = new.keep]
  BY <1>2, <1>3, <1>4
<1>6. /\ [new EXCEPT !.enabled = new.enabled] = new
      /\ [new EXCEPT !.grace = new.grace] = new
      /\ [new EXCEPT !.cooldown = new.cooldown] = new
      /\ [new EXCEPT !.keep = new.keep] = new
  BY <1>1 DEF PolicyType
<1>7. overlay_preset(new, n) = new
  BY <1>5, <1>6
<1> QED BY <1>7 DEF new

(* A preset the daemon says is active is really laid over its policy.      *)
THEOREM PresetHolds == Spec => []PresetInForce
<1>1. Init => PresetInForce
  BY DEF Init, PresetInForce
<1>2. TypeOK /\ PresetInForce /\ [Next]_vars => PresetInForce'
  <2> SUFFICES ASSUME TypeOK, PresetInForce, [Next]_vars PROVE PresetInForce'
    OBVIOUS
  <2>1. ASSUME NEW n \in Preset, ApplyPreset(n)
        PROVE  PresetInForce'
    BY <2>1, OverlayIdempotent DEF ApplyPreset, PresetInForce, TypeOK
  <2>2. ASSUME NEW pol, ClearPreset(pol)
        PROVE  PresetInForce'
    BY <2>2 DEF ClearPreset, PresetInForce
  <2>3. ASSUME NEW pol \in Policies, NEW sys, NEW ps \in SUBSET Preset, NEW rul, NEW e,
               NEW io, Reload(pol, sys, ps, rul, e, io)
        PROVE  PresetInForce'
    <3>1. CASE active_preset \in ps
      <4>1. policy' = overlay_preset(pol, active_preset) /\ active_preset' = active_preset
        BY <2>3, <3>1 DEF Reload, reloaded
      <4>2. pol \in PolicyType
        BY PolicyAssumption
      <4>3. active_preset \in Preset
        BY <3>1
      <4> QED BY <4>1, <4>2, <4>3, OverlayIdempotent DEF PresetInForce
    <3>2. CASE active_preset \notin ps
      BY <2>3, <3>2 DEF Reload, PresetInForce
    <3> QED BY <3>1, <3>2
  <2>4. ASSUME UNCHANGED <<policy, active_preset>>
        PROVE  PresetInForce'
    BY <2>4 DEF PresetInForce
  <2>5. CASE Events
    <3>1. UNCHANGED confVars
      <4>1. ASSUME NEW p, NEW e, NEW clock, NEW io, Focus(p, e, clock, io)
            PROVE  UNCHANGED confVars
        BY <4>1, Zenon DEF Focus
      <4>2. ASSUME NEW p, NEW s, NEW listed, NEW e, NEW io, Wakeup(p, s, listed, e, io)
            PROVE  UNCHANGED confVars
        BY <4>2 DEF Wakeup
      <4> QED BY <2>5, <4>1, <4>2 DEF Events, Exempt, ForceStop
    <3> QED BY <2>4, <3>1 DEF confVars
  <2>6. CASE Config
    <3>1. ASSUME NEW sys, NEW ps, NEW rul, ReloadFails(sys, ps, rul)
          PROVE  PresetInForce'
      BY <2>4, <3>1 DEF ReloadFails
    <3> QED BY <2>1, <2>2, <2>3, <2>6, <3>1 DEF Config
  <2>7. CASE Tick
    BY <2>4, <2>7 DEF Tick, TickDisabled, TickEnabled, confVars
  <2>8. CASE Environment
    BY <2>4, <2>8 DEF Environment, Elapse, World, ProcessStart, ProcessEnd, SystemFreeze,
                      SystemThaw, SystemAdj, TunChange, confVars
  <2>9. CASE UNCHANGED vars
    BY <2>4, <2>9 DEF vars, confVars
  <2> QED BY <2>5, <2>6, <2>7, <2>8, <2>9 DEF Next
<1> QED BY <1>1, <1>2, TypeCorrect, PTL DEF Spec

-----------------------------------------------------------------------------
(* The age of a freeze.                                                    *)

(* A package that was frozen before a step and is frozen after it keeps    *)
(* its entry, or the clock has moved it on.                                *)
Ages == \A p \in Keys(frozen) \cap Keys(frozen') :
            frozen'[p] = frozen[p] \/ frozen'[p] = Older(frozen[p])

LEMMA WithoutAges ==
    ASSUME NEW S, frozen' = Without(frozen, S)
    PROVE  Ages
BY DEF Ages, Without, Keys

LEMMA NextAges == IInv /\ Next => Ages
<1> SUFFICES ASSUME IInv, Next PROVE Ages
  OBVIOUS
<1>0. frozen' = frozen => Ages
  BY DEF Ages
<1>1. CASE Events
  <2>1. ASSUME NEW p \in Pkg, NEW e, NEW clock, NEW io, Focus(p, e, clock, io)
        PROVE  Ages
    <3>1. PICK S : frozen' = With(Without(frozen, {p}), S, 0) /\ S \subseteq Leaving(p)
      BY <2>1 DEF Focus, Frozen_now
    <3>2. S \cap Keys(frozen) = {}
      BY <3>1 DEF Leaving, IInv, ForegroundIsFree
    <3> QED BY <3>1, <3>2 DEF Ages, With, Without, Keys
  <2>2. ASSUME NEW p, NEW s, NEW listed, NEW e, NEW io, Wakeup(p, s, listed, e, io)
        PROVE  Ages
    BY <2>2, WithoutAges DEF Wakeup
  <2>3. ASSUME NEW p, NEW fl, Exempt(p, fl)
        PROVE  Ages
    BY <1>0, <2>3 DEF Exempt, tableVars
  <2>4. ASSUME NEW p, NEW io, ForceStop(p, io)
        PROVE  Ages
    BY <2>4, WithoutAges DEF ForceStop
  <2> QED BY <1>1, <2>1, <2>2, <2>3, <2>4 DEF Events
<1>2. CASE Config
  <2>1. ASSUME NEW pol, NEW sys, NEW ps, NEW rul, NEW e, NEW io,
               Reload(pol, sys, ps, rul, e, io)
        PROVE  Ages
    BY <2>1, WithoutAges DEF Reload
  <2>2. ASSUME frozen' = frozen PROVE Ages
    BY <1>0, <2>2
  <2> QED BY <1>2, <2>1, <2>2 DEF Config, ReloadFails, ApplyPreset, ClearPreset, tableVars
<1>3. CASE Tick
  <2>1. ASSUME NEW io, TickDisabled(io)
        PROVE  Ages
    BY <2>1, WithoutAges DEF TickDisabled
  <2>2. ASSUME NEW e, NEW any, NEW io, NEW at, TickEnabled(e, any, io, at)
        PROVE  Ages
    <3> DEFINE k1    == lock_system_chain_oom(kernel, io)
               fresh == Frozen_now({p \in Expired : ~TickSpares(p, e)}, k1, io)
               k2    == freeze(k1, U(fresh), io)
               fz    == LiveOnly(With(frozen, fresh, 0), k2)
    <3>1. PICK V, K : TickEnds(Without(fz, V), discard(k2, U(V), io), K, any, io)
      BY <2>2, TickStages, Zenon
    <3>2. frozen' = Without(Without(fz, V), NetWakes(Without(fz, V), any))
      BY <3>1 DEF TickEnds
    <3>3. fresh \cap Keys(frozen) = {}
      BY DEF Frozen_now, TickSpares
    <3> HIDE DEF fresh, k2
    <3> QED BY <3>2, <3>3 DEF Ages, LiveOnly, With, Without, Keys
  <2> QED BY <1>3, <2>1, <2>2 DEF Tick
<1>4. CASE Environment
  <2>1. CASE Elapse
    BY <2>1 DEF Elapse, Ages, Keys
  <2>2. ASSUME frozen' = frozen PROVE Ages
    BY <1>0, <2>2
  <2> QED BY <1>4, <2>1, <2>2
          DEF Environment, World, ProcessStart, ProcessEnd, SystemFreeze, SystemThaw,
              SystemAdj, TunChange, tableVars
<1> QED BY <1>1, <1>2, <1>3, <1>4 DEF Next

(* No step renews the age of a freeze: throttled, gated or repeated events *)
(* cannot keep a package from its discard timeout.                         *)
THEOREM FreezeClockSafe == Spec => FreezeClockRuns
<1>1. IInv /\ [Next]_vars =>
        [\A p \in Keys(frozen) \cap Keys(frozen') : frozen'[p] >= frozen[p]]_vars
  <2> SUFFICES ASSUME IInv, Next
               PROVE  \A p \in Keys(frozen) \cap Keys(frozen') : frozen'[p] >= frozen[p]
    OBVIOUS
  <2>1. \A p \in Keys(frozen) : frozen[p] \in Nat
    BY DEF IInv, TypeOK, Keys, Timer
  <2>2. \A t \in Nat : Older(t) >= t
    BY DEF Older, Absent
  <2> QED BY <2>1, <2>2, NextAges DEF Ages
<1> QED BY <1>1, Inductive, PTL DEF Spec, FreezeClockRuns

-----------------------------------------------------------------------------
(* What is locked can be given back.  While the daemon lives, each helper  *)
(* keeps the locked uids among those that have processes and whose         *)
(* original adj is known.                                                  *)
Backed(k) == k \in KernelType /\ k.locked \subseteq k.backup \cap k.alive

LEMMA HelpersBack ==
    ASSUME NEW k, Backed(k), NEW us, NEW io
    PROVE  /\ Backed(protect_oom(k, us)) /\ Backed(restore_oom(k, us))
           /\ Backed(unfreeze_keep_oom(k, us, io)) /\ Backed(unfreeze(k, us, io))
           /\ Backed(freeze(k, us, io)) /\ Backed(discard(k, us, io))
<1>1. \A j, vs : Backed(j) => Backed(protect_oom(j, vs)) /\ Backed(restore_oom(j, vs))
  <2>1. \A j, vs : Backed(j) => Backed(protect_oom(j, vs))
    BY DEF Backed, KernelType, protect_oom
  <2>2. \A j, vs : Backed(j) => Backed(restore_oom(j, vs))
    BY DEF Backed, KernelType, restore_oom
  <2> QED BY <2>1, <2>2
<1>2. Backed(unfreeze_keep_oom(k, us, io))
  BY DEF Backed, KernelType, unfreeze_keep_oom
<1>3. Backed(unfreeze(k, us, io))
  BY <1>1, <1>2 DEF unfreeze
<1>4. Backed(freeze(k, us, io))
  <2> DEFINE got == Freezable(k, us, io)
             j == [k EXCEPT !.held = @ \cup (got \ io.sig),
                            !.stopped = @ \cup (got \cap io.sig)]
  <2>1. Backed(j)
    BY DEF Backed, KernelType, Freezable
  <2>2. freeze(k, us, io) = protect_oom(j, got)
    BY DEF freeze
  <2> HIDE DEF j, got
  <2> QED BY <1>1, <2>1, <2>2
<1>5. Backed(discard(k, us, io))
  BY <1>3 DEF discard, Backed, KernelType
<1> QED BY <1>1, <1>2, <1>3, <1>4, <1>5

LEMMA SystemChainBack ==
    ASSUME Backed(kernel), NEW io
    PROVE  Backed(lock_system_chain_oom(kernel, io))
BY HelpersBack DEF lock_system_chain_oom

LEMMA TickEnabledBack ==
    ASSUME Backed(kernel), NEW e, NEW any, NEW io, NEW at, TickEnabled(e, any, io, at)
    PROVE  Backed(kernel')
<1> DEFINE k1    == lock_system_chain_oom(kernel, io)
           fresh == Frozen_now({p \in Expired : ~TickSpares(p, e)}, k1, io)
           k2    == freeze(k1, U(fresh), io)
           fz    == LiveOnly(With(frozen, fresh, 0), k2)
<1>1. PICK V, K : TickEnds(Without(fz, V), discard(k2, U(V), io), K, any, io)
  BY TickStages, Zenon
<1> DEFINE k3       == discard(k2, U(V), io)
           relocked == IF Due(LockEvery) THEN protect_oom(k3, U(Keys(Without(fz, V)))) ELSE k3
<1>2. Backed(k3)
  BY SystemChainBack, HelpersBack, Zenon
<1>3. Backed(relocked)
  <2> HIDE DEF k3
  <2> QED BY <1>2, HelpersBack
<1>4. \E us, vs : kernel' = unfreeze_keep_oom(restore_oom(relocked, us), vs, io)
  <2> HIDE DEF fz, k2
  <2> QED BY <1>1, Zenon DEF TickEnds
<1> HIDE DEF relocked
<1> QED BY <1>3, <1>4, HelpersBack

LEMMA NextBack == Backed(kernel) /\ Next => Backed(kernel')
<1> SUFFICES ASSUME Backed(kernel), Next PROVE Backed(kernel')
  OBVIOUS
<1>1. CASE Events
  <2>1. ASSUME NEW p, NEW e, NEW clock, NEW io, Focus(p, e, clock, io)
        PROVE  Backed(kernel')
    <3>1. \E us, vs, ws :
             \/ kernel' = protect_oom(freeze(unfreeze_keep_oom(kernel, us, io), vs, io), ws)
             \/ kernel' = protect_oom(freeze(kernel, vs, io), ws)
      BY <2>1, Zenon DEF Focus
    <3> QED BY <3>1, HelpersBack, Zenon
  <2>2. ASSUME NEW p, NEW s, NEW listed, NEW e, NEW io, Wakeup(p, s, listed, e, io)
        PROVE  Backed(kernel')
    BY <2>2, HelpersBack DEF Wakeup
  <2>3. ASSUME NEW p, NEW fl, Exempt(p, fl)
        PROVE  Backed(kernel')
    BY <2>3 DEF Exempt
  <2>4. ASSUME NEW p, NEW io, ForceStop(p, io)
        PROVE  Backed(kernel')
    BY <2>4, HelpersBack DEF ForceStop
  <2> QED BY <1>1, <2>1, <2>2, <2>3, <2>4, Zenon DEF Events
<1>2. CASE Config
  <2>1. ASSUME NEW pol, NEW sys, NEW ps, NEW rul, NEW e, NEW io,
               Reload(pol, sys, ps, rul, e, io)
        PROVE  Backed(kernel')
    <3>1. \E us : kernel' = unfreeze(kernel, us, io)
      BY <2>1, Zenon DEF Reload
    <3> QED BY <3>1, HelpersBack
  <2>2. kernel' = kernel => Backed(kernel')
    OBVIOUS
  <2> QED BY <1>2, <2>1, <2>2, Zenon DEF Config, ReloadFails, ApplyPreset, ClearPreset
<1>3. CASE Tick
  <2>1. ASSUME NEW io, TickDisabled(io)
        PROVE  Backed(kernel')
    BY <2>1, SystemChainBack, HelpersBack DEF TickDisabled
  <2> QED BY <1>3, <2>1, TickEnabledBack, Zenon DEF Tick
<1>4. CASE Environment
  <2>1. kernel' = kernel \/ \E u \in Uid, z \in BOOLEAN :
           \/ kernel' = start_process(kernel, u)
           \/ kernel' = end_process(kernel, u, z)
           \/ kernel' = system_freeze(kernel, u)
           \/ kernel' = system_thaw(kernel, u)
           \/ kernel' = system_adj(kernel, u)
    BY <1>4, EngineAssumption DEF Environment, Elapse, TunChange, World, ProcessStart,
       ProcessEnd, SystemFreeze, SystemThaw, SystemAdj
  <2>2. ASSUME NEW u \in Uid, NEW z \in BOOLEAN
        PROVE  /\ Backed(start_process(kernel, u)) /\ Backed(end_process(kernel, u, z))
               /\ Backed(system_freeze(kernel, u)) /\ Backed(system_thaw(kernel, u))
               /\ Backed(system_adj(kernel, u))
    BY DEF Backed, KernelType, start_process, end_process, system_freeze, system_thaw,
           system_adj
  <2> QED BY <2>1, <2>2
<1> QED BY <1>1, <1>2, <1>3, <1>4 DEF Next

(* While the daemon lives, whatever it locks at -1000 has its original adj *)
(* recorded: no order of freezes, thaws, discards, process deaths and      *)
(* rewrites by the framework loses it.  (A restart does: RestartAdj.)      *)
THEOREM BackupHolds == Spec => []LockedHasBackup
<1>1. Init => Backed(kernel)
  BY InitTypes DEF Init, TypeOK, Backed
<1>2. Backed(kernel) /\ [Next]_vars => Backed(kernel)'
  BY NextBack DEF vars
<1>3. Backed(kernel) => LockedHasBackup
  BY DEF Backed, LockedHasBackup
<1> QED BY <1>1, <1>2, <1>3, PTL DEF Spec
-----------------------------------------------------------------------------
(* Whatever is locked is in the candidate pool, while no write of 0 fails  *)
(* and no policy and no preset switches the engine off: a failed thaw      *)
(* drops the record of a package that stays locked, and the switch empties *)
(* adj_keep without a restore.  What makes it inductive is that a package  *)
(* that waits for its freeze, and was locked when it began to wait, is in  *)
(* adj_keep, and that a locked uid has processes and can be restored.      *)
Obeyed     == Faulty = {}
SwitchedOn == /\ \A pol \in Policies : pol.enabled
              /\ \A n \in Preset : Overlay[n].enabled

Pool == Keys(frozen) \cup adj_keep \cup Critical
PoolInv == /\ IInv /\ Backed(kernel) /\ policy.enabled
           /\ Keys(grace) \subseteq adj_keep
           /\ kernel.locked \subseteq U(Pool)

(* What each helper adds to the locked uids and takes from them.           *)
LEMMA HelpersLock ==
    ASSUME NEW k, Backed(k), NEW us, NEW io
    PROVE  /\ protect_oom(k, us).locked \subseteq k.locked \cup us
           /\ restore_oom(k, us).locked = k.locked \ us
           /\ unfreeze_keep_oom(k, us, io).locked = k.locked
           /\ unfreeze(k, us, io).locked = k.locked \ us
           /\ freeze(k, us, io).locked \subseteq k.locked \cup us
           /\ discard(k, us, io).locked = k.locked \ us
<1>1. protect_oom(k, us).locked \subseteq k.locked \cup us
  BY DEF protect_oom, Backed, KernelType
<1>2. \A j, vs : Backed(j) => restore_oom(j, vs).locked = j.locked \ vs
  BY DEF restore_oom, Backed, KernelType
<1>3. unfreeze_keep_oom(k, us, io).locked = k.locked
  BY DEF unfreeze_keep_oom, Backed, KernelType
<1>4. unfreeze(k, us, io).locked = k.locked \ us
  BY <1>2, <1>3, HelpersBack DEF unfreeze
<1>5. freeze(k, us, io).locked \subseteq k.locked \cup us
  BY DEF freeze, protect_oom, Freezable, Backed, KernelType
<1>6. discard(k, us, io).locked = k.locked \ us
  <2> DEFINE w == unfreeze(k, us, io)
  <2>1. w \in KernelType /\ w.locked = k.locked \ us
    BY <1>4, HelpersBack DEF Backed
  <2>2. discard(k, us, io) = [w EXCEPT !.alive = @ \ us, !.locked = @ \ us]
    BY DEF discard
  <2> HIDE DEF w
  <2> QED BY <2>1, <2>2 DEF KernelType
<1> QED BY <1>1, <1>2, <1>3, <1>4, <1>5, <1>6

(* The switch stays on.                                                    *)
LEMMA StaysOn ==
    ASSUME SwitchedOn, TypeOK, policy.enabled, Next
    PROVE  policy'.enabled
<1>1. ASSUME NEW pol \in PolicyType, NEW n \in Preset
      PROVE  overlay_preset(pol, n).enabled
  BY <1>1 DEF overlay_preset, PolicyType, SwitchedOn
<1>2. CASE policy' = policy
  BY <1>2
<1>3. CASE Config
  <2>1. ASSUME NEW pol \in Policies, NEW sys, NEW ps \in SUBSET Preset, NEW rul, NEW e,
               NEW io, Reload(pol, sys, ps, rul, e, io)
        PROVE  policy'.enabled
    BY <1>1, <2>1, PolicyAssumption DEF Reload, reloaded, SwitchedOn
  <2>2. ASSUME NEW n \in Preset, ApplyPreset(n)
        PROVE  policy'.enabled
    BY <1>1, <2>2 DEF ApplyPreset, TypeOK
  <2>3. ASSUME NEW pol \in Policies, ClearPreset(pol)
        PROVE  policy'.enabled
    BY <2>3 DEF ClearPreset, SwitchedOn
  <2>4. ASSUME NEW sys, NEW ps, NEW rul, ReloadFails(sys, ps, rul)
        PROVE  policy'.enabled
    BY <2>4 DEF ReloadFails
  <2> QED BY <1>3, <2>1, <2>2, <2>3, <2>4 DEF Config
<1>4. CASE Events
  <2>1. ASSUME NEW p, NEW e, NEW clock, NEW io, Focus(p, e, clock, io)
        PROVE  UNCHANGED confVars
    BY <2>1, Zenon DEF Focus
  <2>2. ASSUME NEW p, NEW s, NEW listed, NEW e, NEW io, Wakeup(p, s, listed, e, io)
        PROVE  UNCHANGED confVars
    BY <2>2, Zenon DEF Wakeup
  <2> QED BY <1>2, <1>4, <2>1, <2>2 DEF Events, Exempt, ForceStop, confVars
<1>5. CASE Tick
  BY <1>2, <1>5 DEF Tick, TickDisabled, TickEnabled, confVars
<1>6. CASE Environment
  BY <1>2, <1>6 DEF Environment, Elapse, World, ProcessStart, ProcessEnd, SystemFreeze,
                    SystemThaw, SystemAdj, TunChange, confVars
<1> QED BY <1>3, <1>4, <1>5, <1>6 DEF Next

(* What a step has to establish.                                           *)
Pooled == Keys(grace) \subseteq adj_keep /\ kernel.locked \subseteq U(Pool)

LEMMA ObeyedAnswers ==
    ASSUME Obeyed, NEW io \in Answers
    PROVE  io.err = {}
BY DEF Obeyed, Answers

LEMMA FocusPools ==
    ASSUME PoolInv, Obeyed, NEW p \in Pkg, NEW e, NEW clock, NEW io \in Answers,
           Focus(p, e, clock, io)
    PROVE  Pooled'
<1> DEFINE tries == p \in Keys(frozen) \/ Residual(p)
           ok    == tries /\ UidOf[p] \notin io.err
           k1    == IF tries THEN unfreeze_keep_oom(kernel, {UidOf[p]}, io) ELSE kernel
           acted == {q \in Leaving(p) : ~LeaveSpares(q, e, clock)}
           now   == {q \in acted : LeaveForces(q, e)}
           froze == Frozen_now(now, k1, io)
           wait  == acted \ now
           k2    == freeze(k1, U(froze), io)
<1>1. adj_keep' = adj_keep \cup wait \cup (IF ok THEN {p} ELSE {})
  BY DEF Focus
<1>2. p \in Keys(frozen) => ok
  BY ObeyedAnswers
<1>3. Keys(frozen') = (Keys(frozen) \ {p}) \cup froze
  <2>1. frozen' = With(Without(frozen, {p}), froze, 0)
    BY DEF Focus
  <2>2. froze \subseteq Pkg
    BY DEF Frozen_now, Leaving, PoolInv, IInv, TypeOK
  <2> HIDE DEF froze
  <2> QED BY <2>1, <2>2 DEF With, Without, Keys, Absent
<1>4. Keys(grace') \subseteq (Keys(grace) \ {p}) \cup wait
  <2>1. grace' = [q \in Pkg |-> IF q \in wait THEN effective_grace(policy, q)
                                ELSE IF q = p THEN Absent ELSE grace[q]]
    BY DEF Focus
  <2> HIDE DEF wait
  <2> QED BY <2>1 DEF Keys
<1>5. Backed(k1) /\ k1.locked = kernel.locked
  BY HelpersBack, HelpersLock DEF PoolInv
<1> HIDE DEF tries, k1, froze, wait, ok
<1>6. Backed(k2) /\ k2.locked \subseteq kernel.locked \cup U(froze)
  BY <1>5, HelpersBack, HelpersLock
<1>7. kernel' = protect_oom(k2, U(wait))
  BY DEF Focus, wait, k1, froze, tries
<1> HIDE DEF k2
<1>8. kernel'.locked \subseteq kernel.locked \cup U(froze) \cup U(wait)
  BY <1>6, <1>7, HelpersLock
<1>9. Pool \cup froze \cup wait \subseteq Pool'
  BY <1>1, <1>2, <1>3 DEF Pool
<1>10. Keys(grace') \subseteq adj_keep'
  BY <1>1, <1>4 DEF PoolInv
<1>11. kernel'.locked \subseteq U(Pool')
  BY <1>8, <1>9 DEF PoolInv, U
<1> QED BY <1>10, <1>11 DEF Pooled, U
LEMMA TickEnabledPools ==
    ASSUME PoolInv, Obeyed, NEW e, NEW any, NEW io \in Answers, NEW at,
           TickEnabled(e, any, io, at)
    PROVE  Pooled'
<1> DEFINE k1    == lock_system_chain_oom(kernel, io)
           fresh == Frozen_now({p \in Expired : ~TickSpares(p, e)}, k1, io)
           k2    == freeze(k1, U(fresh), io)
           fz    == LiveOnly(With(frozen, fresh, 0), k2)
<1>1. PICK V, K : /\ TickEnds(Without(fz, V), discard(k2, U(V), io), K, any, io)
                  /\ K \subseteq V
  BY TickStages, Zenon
<1>2. Backed(k1) /\ k1.locked \subseteq kernel.locked \cup U(Critical)
  <2> DEFINE lk == protect_oom(kernel, U(Critical))
  <2>1. Backed(lk) /\ lk.locked \subseteq kernel.locked \cup U(Critical)
    BY HelpersBack, HelpersLock DEF PoolInv
  <2>2. k1 = kernel \/ k1 = unfreeze_keep_oom(lk, U(Critical), io)
    BY DEF lock_system_chain_oom
  <2> HIDE DEF lk, k1
  <2>3. CASE k1 = kernel
    BY <2>3 DEF PoolInv
  <2>4. CASE k1 = unfreeze_keep_oom(lk, U(Critical), io)
    BY <2>1, <2>4, HelpersBack, HelpersLock
  <2> QED BY <2>2, <2>3, <2>4
<1>3. Backed(k2) /\ k2.locked \subseteq k1.locked \cup U(fresh)
  <2> HIDE DEF k1, fresh
  <2> QED BY <1>2, HelpersBack, HelpersLock
<1>4. Keys(fz) = {p \in Keys(frozen) \cup fresh : UidOf[p] \in k2.alive}
  <2>1. fresh \subseteq Pkg
    BY DEF Frozen_now, Expired, Keys
  <2> HIDE DEF fresh, k2
  <2> QED BY <2>1 DEF LiveOnly, With, Without, Keys, Absent
<1> DEFINE rest     == Without(fz, V)
           k3       == discard(k2, U(V), io)
           back     == (adj_keep \ K) \cap Returned
           wakes    == NetWakes(rest, any)
           thawed   == {p \in wakes : UidOf[p] \notin io.err}
           relocked == IF Due(LockEvery) THEN protect_oom(k3, U(Keys(rest))) ELSE k3
           j        == restore_oom(relocked, U(back))
<1>5. /\ frozen' = Without(rest, wakes)
      /\ grace' = Without(grace, GraceDone(rest) \cup K \cup wakes)
      /\ adj_keep' = ((adj_keep \ K) \ back) \cup thawed
      /\ kernel' = unfreeze_keep_oom(j, U(wakes), io)
  BY <1>1 DEF TickEnds
<1>6. Keys(rest) = Keys(fz) \ V
  BY DEF Without, Keys
<1>7. thawed = wakes
  BY ObeyedAnswers
<1> HIDE DEF k1, fresh, k2, fz
<1>8. k2.locked \subseteq U(Keys(fz) \cup adj_keep \cup Critical)
  BY <1>2, <1>3, <1>4 DEF PoolInv, Backed, Pool, U
<1>9. Backed(k3) /\ k3.locked = k2.locked \ U(V)
  BY <1>3, HelpersBack, HelpersLock
<1> HIDE DEF k3, rest, wakes, thawed, back
<1>10. k3.locked \subseteq U(Keys(rest) \cup (adj_keep \ K) \cup Critical)
  BY <1>1, <1>6, <1>8, <1>9 DEF U
<1>11. Backed(relocked) /\ relocked.locked \subseteq k3.locked \cup U(Keys(rest))
  BY <1>9, HelpersBack, HelpersLock
<1> HIDE DEF relocked
<1>12. Backed(j) /\ j.locked = relocked.locked \ U(back)
  BY <1>11, HelpersBack, HelpersLock
<1> HIDE DEF j
<1>13. kernel'.locked = j.locked
  BY <1>5, <1>12, HelpersLock
<1>14. Keys(rest) \cup ((adj_keep \ K) \ back) \cup Critical \subseteq Pool'
  BY <1>5, <1>7 DEF Pool, Keys, Without
<1>15. kernel'.locked \subseteq U(Pool')
  BY <1>10, <1>11, <1>12, <1>13, <1>14 DEF U
<1>16. Keys(grace') \subseteq adj_keep'
  <2>1. Keys(grace') \subseteq Keys(grace) \ K
    BY <1>5 DEF Without, Keys
  <2>2. back \cap Keys(grace) = {}
    BY DEF back, Returned, PoolInv, IInv, ForegroundIsFree
  <2> QED BY <1>5, <2>1, <2>2 DEF PoolInv
<1> QED BY <1>15, <1>16 DEF Pooled, U

(* A step that unlocks or restores what leaves the frozen table, and keeps *)
(* adj_keep, is safe.                                                      *)
LEMMA UnlockedPools ==
    ASSUME PoolInv, NEW S, Keys(frozen) \ S \subseteq Keys(frozen'),
           Keys(grace') \subseteq Keys(grace), adj_keep' = adj_keep,
           kernel'.locked \subseteq kernel.locked \ U(S)
    PROVE  Pooled'
BY DEF PoolInv, Pooled, Pool, U

LEMMA SamePools ==
    ASSUME PoolInv, Keys(frozen) \subseteq Keys(frozen'),
           Keys(grace') \subseteq Keys(grace), adj_keep' = adj_keep,
           kernel'.locked \subseteq kernel.locked
    PROVE  Pooled'
BY DEF PoolInv, Pooled, Pool, U

LEMMA NextPools ==
    ASSUME PoolInv, Obeyed, Next
    PROVE  Pooled'
<1>b. Backed(kernel)
  BY DEF PoolInv
<1>1. CASE Events
  <2>1. ASSUME NEW p \in Pkg, NEW s, NEW listed, NEW e, NEW io \in Answers,
               Wakeup(p, s, listed, e, io)
        PROVE  Pooled'
    <3>1. Keys(frozen') = Keys(frozen) \ {p} /\ Keys(grace') = Keys(grace) \ {p}
      BY <2>1 DEF Wakeup, Without, Keys
    <3>2. adj_keep' = adj_keep \cup (Keys(frozen) \cap {p})
      BY <2>1, ObeyedAnswers DEF Wakeup
    <3>3. kernel'.locked = kernel.locked
      BY <1>b, <2>1, HelpersLock DEF Wakeup
    <3> QED BY <3>1, <3>2, <3>3 DEF PoolInv, Pooled, Pool, U
  <2>2. ASSUME NEW p, NEW fl, Exempt(p, fl)
        PROVE  Pooled'
    BY <2>2, SamePools DEF Exempt, tableVars
  <2>3. ASSUME NEW p \in Pkg, NEW io, ForceStop(p, io)
        PROVE  Pooled'
    <3>1. /\ Keys(frozen') = Keys(frozen) \ {p} /\ Keys(grace') = Keys(grace) \ {p}
          /\ adj_keep' = adj_keep \ {p}
      BY <2>3 DEF ForceStop, Without, Keys
    <3>2. kernel'.locked = kernel.locked \ {UidOf[p]}
      BY <1>b, <2>3, HelpersLock DEF ForceStop
    <3> QED BY <3>1, <3>2 DEF PoolInv, Pooled, Pool, U
  <2> QED BY <1>1, <2>1, <2>2, <2>3, FocusPools DEF Events
<1>2. CASE Config
  <2>1. ASSUME NEW pol, NEW sys, NEW ps, NEW rul, NEW e, NEW io,
               Reload(pol, sys, ps, rul, e, io)
        PROVE  Pooled'
    <3> DEFINE thaw == ReloadThaws(reloaded(pol, ps), sys, rul, e)
    <3>1. /\ frozen' = Without(frozen, thaw) /\ grace' = Without(grace, thaw)
          /\ adj_keep' = adj_keep /\ kernel' = unfreeze(kernel, U(thaw), io)
      BY <2>1 DEF Reload
    <3> HIDE DEF thaw
    <3>2. Keys(frozen') = Keys(frozen) \ thaw /\ Keys(grace') \subseteq Keys(grace)
      BY <3>1 DEF Without, Keys
    <3>3. kernel'.locked = kernel.locked \ U(thaw)
      BY <1>b, <3>1, HelpersLock
    <3> QED BY <3>1, <3>2, <3>3, UnlockedPools
  <2>2. ASSUME frozen' = frozen, grace' = grace, adj_keep' = adj_keep, kernel' = kernel
        PROVE  Pooled'
    BY <2>2, SamePools
  <2> QED BY <1>2, <2>1, <2>2 DEF Config, ReloadFails, ApplyPreset, ClearPreset, tableVars
<1>3. CASE Tick
  <2>1. ASSUME NEW io, TickDisabled(io)
        PROVE  FALSE
    BY <2>1 DEF TickDisabled, PoolInv
  <2> QED BY <1>3, <2>1, TickEnabledPools DEF Tick
<1>4. CASE Environment
  <2>1. CASE Elapse
    <3>1. Keys(frozen) = Keys(frozen') /\ Keys(grace') \subseteq Keys(grace)
      BY <2>1, EngineAssumption
         DEF Elapse, Older, Less, Keys, Absent, PoolInv, IInv, TypeOK, Timer
    <3> QED BY <2>1, <3>1, SamePools DEF Elapse
  <2>2. ASSUME NEW u \in Uid,
               ProcessStart(u) \/ ProcessEnd(u) \/ SystemFreeze(u) \/ SystemThaw(u) \/ SystemAdj(u)
        PROVE  Pooled'
    <3>1. frozen' = frozen /\ grace' = grace /\ adj_keep' = adj_keep
      BY <2>2 DEF ProcessStart, ProcessEnd, SystemFreeze, SystemThaw, SystemAdj, World, tableVars
    <3>2. \E z : \/ kernel' = start_process(kernel, u)
                 \/ kernel' = end_process(kernel, u, z)
                 \/ kernel' = system_freeze(kernel, u)
                 \/ kernel' = system_thaw(kernel, u)
                 \/ kernel' = system_adj(kernel, u)
      BY <2>2 DEF ProcessStart, ProcessEnd, SystemFreeze, SystemThaw, SystemAdj, World
    <3>3. kernel'.locked \subseteq kernel.locked
      BY <1>b, <3>2 DEF Backed, KernelType, start_process, end_process, system_freeze,
                        system_thaw, system_adj
    <3> QED BY <3>1, <3>3, SamePools
  <2>3. ASSUME NEW o, TunChange(o)
        PROVE  Pooled'
    BY <2>3, SamePools DEF TunChange, tableVars
  <2> QED BY <1>4, <2>1, <2>2, <2>3 DEF Environment
<1> QED BY <1>1, <1>2, <1>3, <1>4 DEF Next

(* While the writes of the freezer succeed and the engine is never         *)
(* switched off, every uid locked at -1000 belongs to a package of the     *)
(* candidate pool sent to the dex side: whatever is locked has a way back. *)
THEOREM PoolHolds == Obeyed /\ SwitchedOn => (Spec => []LockedIsPooled)
<1> SUFFICES ASSUME Obeyed, SwitchedOn PROVE Spec => []LockedIsPooled
  OBVIOUS
<1>1. Init => PoolInv
  <2>1. Init => kernel.locked = {} /\ kernel \in KernelType /\ Keys(grace) = {}
    BY InitTypes DEF Init, TypeOK, Keys, Without, Absent
  <2>2. Init => policy.enabled
    BY DEF Init, SwitchedOn
  <2> QED BY <2>1, <2>2, InitSafe DEF PoolInv, Backed
<1>2. PoolInv /\ [Next]_vars => PoolInv'
  <2> SUFFICES ASSUME PoolInv, [Next]_vars PROVE PoolInv'
    OBVIOUS
  <2>1. CASE Next
    <3>1. Pooled'
      BY <2>1, NextPools
    <3>2. Backed(kernel)' /\ IInv' /\ policy'.enabled
      BY <2>1, NextBack, NextKeeps, StaysOn DEF PoolInv, IInv
    <3> QED BY <3>1, <3>2 DEF PoolInv, Pooled
  <2>2. CASE UNCHANGED vars
    <3>1. IInv'
      BY <2>2, NextKeeps DEF PoolInv
    <3>2. /\ frozen' = frozen /\ grace' = grace /\ adj_keep' = adj_keep
          /\ kernel' = kernel /\ policy' = policy
      BY <2>2 DEF vars, tableVars, confVars
    <3> QED BY <3>1, <3>2 DEF PoolInv, Pool, Keys, U
  <2> QED BY <2>1, <2>2
<1>3. PoolInv => LockedIsPooled
  BY DEF PoolInv, LockedIsPooled, Pool, U
<1> QED BY <1>1, <1>2, <1>3, PTL DEF Spec
=============================================================================
