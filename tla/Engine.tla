------------------------------- MODULE Engine -------------------------------
(***************************************************************************)
(* The tombstone engine of sundownd (daemon/src/engine.rs): EngineState,   *)
(* its event handlers, the policy reload and the 300 ms tick, together     *)
(* with the kernel state they act on.  Every handler runs under the one    *)
(* engine mutex, so a handler is one action.                               *)
(*                                                                         *)
(* Time.  An Instant is kept as what the code compares it for: the frozen  *)
(* table holds ages, the grace, cooldown and throttle tables hold what is  *)
(* left of the stored duration.  Elapse advances them all.                 *)
(***************************************************************************)
EXTENDS Freezer, Policy

CONSTANTS UidOf,       \* packages.list: package -> uid
          NoPkg,       \* last_focus = None
          SystemSets,  \* what `pm list packages -f` may answer
          TunOwners,   \* packages that may own the tun interface
          NetPkgs,     \* packages whose traffic counters may move
          ThrottledRules, \* packages whose rule may sit in its throttle window
          ExemptPkgs,  \* packages ExemptMonitor reports about
          Meddling,    \* what the Android framework does on its own
          Zombies,     \* may a freeze flag outlive the uid's processes
          DiskFails,   \* may the write of frozen.state fail
          Boots,       \* may sys.boot_completed become 1
          Horizon,     \* ages are not counted past this bound
          BootDelay,   \* discard_boot_reclaim_delay_seconds
          LockEvery, CheckEvery, MemEvery, BootEvery \* 5, 10, 20 and 100 ticks

ASSUME EngineAssumption ==
    /\ UidOf \in [Pkg -> Uid]
    /\ NoPkg \notin Pkg
    /\ SystemSets \subseteq SUBSET Pkg /\ SystemSets # {}
    /\ TunOwners \subseteq Pkg /\ NetPkgs \subseteq Pkg
    /\ ThrottledRules \subseteq Pkg /\ ExemptPkgs \subseteq Pkg
    /\ Meddling \subseteq {"freeze", "thaw", "adj"}
    /\ {Zombies, DiskFails, Boots} \subseteq BOOLEAN
    /\ Horizon \in Nat /\ BootDelay \in Nat
    /\ {LockEvery, CheckEvery, MemEvery, BootEvery} \subseteq Nat \ {0}
    /\ \A n \in {LockEvery, CheckEvery, MemEvery} : BootEvery % n = 0

VARIABLES
    policy, presets, active_preset, rules, system_apps, tun_owner,
    frozen, grace, cooldown, wake_throttle, adj_keep, exempt, last_focus,
    tick_count, boot_completed_at, boot_reclaim_done, boot_reclaim_candidates,
    last_persist, disk,
    kernel

confVars  == <<policy, presets, active_preset, rules, system_apps>>
bootVars  == <<boot_completed_at, boot_reclaim_done, boot_reclaim_candidates>>
saveVars  == <<last_persist, disk>>
tickVars  == <<tick_count, bootVars>>
tableVars == <<frozen, grace, cooldown, wake_throttle, adj_keep>>
vars == <<confVars, tun_owner, tableVars, exempt, last_focus, tickVars,
          saveVars, kernel>>

-----------------------------------------------------------------------------
(* Tables of instants and the uids behind a set of packages.               *)

Keys(m)       == {p \in Pkg : m[p] # Absent}
Without(m, S) == [p \in Pkg |-> IF p \in S THEN Absent ELSE m[p]]
With(m, S, v) == [p \in Pkg |-> IF p \in S THEN v ELSE m[p]]
U(S)          == {UidOf[p] : p \in S}

(* What a handler reads outside the engine while it runs: traffic samples, *)
(* rules inside their throttle window.                                     *)
Readings == [any : SUBSET NetPkgs, high : SUBSET NetPkgs,
             quiet : SUBSET ThrottledRules]

Quiet == [quiet : SUBSET ThrottledRules]

(* The answer of the rule table for p: none while the rule that matches is *)
(* inside its throttle window (it is taken to be the only one for p).      *)
rule(p, act, e) == IF p \in e.quiet THEN "none" ELSE act

-----------------------------------------------------------------------------
(* Predicates of the decision chain.                                       *)

is_vpn_protected(p) ==
    /\ policy.keep_vpn
    /\ \/ p \in policy.vpn
       \/ tun_owner # NoPkg /\ UidOf[p] = UidOf[tun_owner]

ExemptHit(p) == keep_flags(policy, p) \cap exempt[p] # {}

NetExempt(p, e) == \/ p \in policy.keep_hn /\ p \in e.high
                   \/ p \in policy.keep_net /\ p \in e.any

(* should_never_freeze under a policy, pm answer and rule table: reload    *)
(* asks it about the tables it has just installed.                         *)
never_freeze(p, pol, sys, rul, e) ==
    \/ p \in Critical
    \/ p \in sys
    \/ p \in pol.whitelist
    \/ /\ pol.keep_vpn
       /\ \/ p \in pol.vpn
          \/ tun_owner # NoPkg /\ UidOf[p] = UidOf[tun_owner]
    \/ pol.mode[p] = "exempt"
    \/ rule(p, rul.always[p], e) = "exempt"

discard_ineligible_unchecked(p, e) ==
    \/ never_freeze(p, policy, system_apps, rules, e)
    \/ policy.mode[p] = "important"
    \/ last_focus = p
discard_ineligible(p, e) ==
    \/ never_freeze(p, policy, system_apps, rules, e)
    \/ policy.mode[p] = "important"
    \/ last_focus = p
    \/ ExemptHit(p)

(* The packages no path may freeze: critical, system, VPN.                 *)
HardExempt_nocrit(p) == p \in system_apps \/ is_vpn_protected(p)
HardExempt(p) == p \in Critical \/ p \in system_apps \/ is_vpn_protected(p)

Cooling_ignored(p) == FALSE
Cooling(p) == p \in Keys(cooldown)

(* decide_leave, up to its first return that leaves the package alone.     *)
LeaveSpares(p, e, clock) ==
    \/ ~policy.enabled
    \/ HardExempt(p)
    \/ p \in policy.whitelist
    \/ policy.mode[p] = "exempt"
    \/ ExemptHit(p)
    \/ p \in policy.window /\ clock
    \/ NetExempt(p, e)
    \/ Cooling(p)
    \/ rule(p, rules.leave[p], e) = "exempt"

LeaveForces(p, e) == rule(p, rules.leave[p], e) = "freeze" \/ p \in policy.force

(* The second check of tick when a grace period has run out.               *)
TickSpares(p, e) ==
    \/ p \in Keys(frozen)
    \/ last_focus = p
    \/ p \in Critical
    \/ is_vpn_protected(p)
    \/ Cooling(p)
    \/ ExemptHit(p)
    \/ NetExempt(p, e)

(* The packages of S that freeze_now enters into the frozen table.         *)
Frozen_now(S, k, io) ==
    {p \in S : ~HardExempt(p) /\ UidOf[p] \in Freezable(k, {UidOf[p]}, io)}

-----------------------------------------------------------------------------
(* persist_frozen_if_changed: last_persist follows even a failed write; it *)
(* is None until the first one.                                            *)
NeverSaved == {NoPkg}

persist(fz) ==
    /\ last_persist' = Keys(fz)
    /\ IF Keys(fz) = last_persist
       THEN disk' = disk
       ELSE \/ disk' = Keys(fz)
            \/ DiskFails /\ disk' = disk

-----------------------------------------------------------------------------
(* Handlers.                                                               *)

(* The previous foreground, when it is another package than p.             *)
Leaving_always(p) == {last_focus} \ {NoPkg}
Leaving(p) == {last_focus} \ {NoPkg, p}

(* A uid found frozen although the table has no record of it is thawed all *)
(* the same when one of its packages comes to the foreground.              *)
Residual_ignored(p) == FALSE
Residual(p) == UidOf[p] \in kernel.held

(* on_focus: p comes to the foreground, the previous foreground leaves.    *)
Focus(p, e, clock, io) ==
    LET was   == p \in Keys(frozen)
        tries == was \/ Residual(p)
        ok    == tries /\ UidOf[p] \notin io.err
        k1    == IF tries THEN unfreeze_keep_oom(kernel, {UidOf[p]}, io) ELSE kernel
        acted == {q \in Leaving(p) : ~LeaveSpares(q, e, clock)}
        now   == {q \in acted : LeaveForces(q, e)}
        froze == Frozen_now(now, k1, io)
        wait  == acted \ now
        k2    == freeze(k1, U(froze), io)
    IN  /\ frozen' = With(Without(frozen, {p}), froze, 0)
        /\ cooldown' = IF was \/ ok THEN [cooldown EXCEPT ![p] = policy.cooldown]
                                    ELSE cooldown
        /\ grace' = [q \in Pkg |-> IF q \in wait THEN effective_grace(policy, q)
                                   ELSE IF q = p THEN Absent ELSE grace[q]]
        /\ adj_keep' = adj_keep \cup wait \cup (IF ok THEN {p} ELSE {})
        /\ kernel' = protect_oom(k2, U(wait))
        /\ last_focus' = p
        /\ UNCHANGED <<confVars, tun_owner, wake_throttle, exempt, tickVars, saveVars>>

(* on_wakeup: a broadcast, service or pending intent reaches p; listed     *)
(* says whether its key is on the source's gate list.                      *)
WakeupPasses(p, s, listed, e) ==
    /\ keep_wakeup(policy, p)
    /\ rule(p, rules.wakeup[p][s], e) # "suppress"
    /\ ~ /\ policy.mode[p] # "important"
         /\ p \in Keys(frozen)
         /\ s \in policy.gate
         /\ ~listed
    /\ ~ (policy.throttle > 0 /\ p \in Keys(frozen) /\ wake_throttle[p] > 0)

Wakeup(p, s, listed, e, io) ==
    LET was == p \in Keys(frozen)
        ok  == was /\ UidOf[p] \notin io.err
    IN  /\ WakeupPasses(p, s, listed, e)
        /\ frozen' = Without(frozen, {p})
        /\ grace' = Without(grace, {p})
        /\ cooldown' = IF was THEN [cooldown EXCEPT ![p] = policy.cooldown] ELSE cooldown
        /\ wake_throttle' = IF ok /\ policy.throttle > 0
                            THEN [wake_throttle EXCEPT ![p] = policy.throttle]
                            ELSE wake_throttle
        /\ adj_keep' = IF ok THEN adj_keep \cup {p} ELSE adj_keep
        /\ kernel' = IF was THEN unfreeze_keep_oom(kernel, {UidOf[p]}, io) ELSE kernel
        /\ UNCHANGED <<confVars, tun_owner, exempt, last_focus, tickVars, saveVars>>

(* on_exempt: the verdict of ExemptMonitor replaces the previous one.      *)
Exempt(p, fl) ==
    /\ exempt' = [exempt EXCEPT ![p] = fl]
    /\ UNCHANGED <<confVars, tun_owner, tableVars, last_focus, tickVars, saveVars, kernel>>

(* on_force_stop: drop every record of p and thaw it just in case.         *)
ForceStop(p, io) ==
    /\ frozen' = Without(frozen, {p})
    /\ grace' = Without(grace, {p})
    /\ cooldown' = Without(cooldown, {p})
    /\ adj_keep' = adj_keep \ {p}
    /\ kernel' = unfreeze(kernel, {UidOf[p]}, io)
    /\ UNCHANGED <<confVars, tun_owner, wake_throttle, exempt, last_focus, tickVars, saveVars>>

(* reload_policy.  The pm list, the presets and the rules are replaced     *)
(* even when policy.toml does not load; only a loaded policy thaws what    *)
(* must never be frozen, and it looks at the frozen table alone.           *)
ReloadThaws(pol, sys, rul, e) ==
    {p \in Keys(frozen) : never_freeze(p, pol, sys, rul, e)}

(* The active preset, if the file still has it, is laid over the new       *)
(* policy again.                                                           *)
reloaded_plain(pol, ps) == pol
reloaded(pol, ps) ==
    IF active_preset \in ps THEN overlay_preset(pol, active_preset) ELSE pol

ReloadFails(sys, ps, rul) ==
    /\ system_apps' = sys /\ presets' = ps /\ rules' = rul
    /\ UNCHANGED <<policy, active_preset, tun_owner, tableVars, exempt, last_focus,
                   tickVars, saveVars, kernel>>

Reload(pol, sys, ps, rul, e, io) ==
    LET new   == reloaded(pol, ps)
        thaw  == ReloadThaws(new, sys, rul, e)
    IN  /\ system_apps' = sys /\ presets' = ps /\ rules' = rul
        /\ policy' = new
        /\ active_preset' = IF active_preset \in ps THEN active_preset ELSE NoPreset
        /\ frozen' = Without(frozen, thaw)
        /\ grace' = Without(grace, thaw)
        /\ kernel' = unfreeze(kernel, U(thaw), io)
        /\ UNCHANGED <<tun_owner, cooldown, wake_throttle, adj_keep, exempt, last_focus,
                       tickVars, saveVars>>

(* apply_preset and clear_preset.  Clearing reads policy.toml again; when  *)
(* it does not load nothing changes.                                       *)
ApplyPreset(n) ==
    /\ n \in presets
    /\ policy' = overlay_preset(policy, n)
    /\ active_preset' = n
    /\ UNCHANGED <<presets, rules, system_apps, tun_owner, tableVars, exempt, last_focus,
                   tickVars, saveVars, kernel>>

ClearPreset(pol) ==
    /\ policy' = pol
    /\ active_preset' = NoPreset
    /\ UNCHANGED <<presets, rules, system_apps, tun_owner, tableVars, exempt, last_focus,
                   tickVars, saveVars, kernel>>

-----------------------------------------------------------------------------
(* tick.                                                                   *)

Due(n) == tick_count % n = 0

(* lock_system_chain_oom, on every LockEvery-th tick, before the switch    *)
(* is looked at: lock the critical packages and thaw what froze them.      *)
lock_system_chain_oom_nothaw(k, io) ==
    IF Due(LockEvery) THEN protect_oom(k, U(Critical)) ELSE k
lock_system_chain_oom(k, io) ==
    IF Due(LockEvery)
    THEN unfreeze_keep_oom(protect_oom(k, U(Critical)), U(Critical), io)
    ELSE k

(* The engine is switched off: thaw everything that is frozen and forget   *)
(* every table.  tick_count stands still.                                  *)
TickDisabled(io) ==
    /\ ~policy.enabled
    /\ kernel' = unfreeze(lock_system_chain_oom(kernel, io), U(Keys(frozen)), io)
    /\ frozen' = Without(frozen, Pkg)
    /\ grace' = Without(grace, Pkg)
    /\ cooldown' = Without(cooldown, Pkg)
    /\ adj_keep' = {}
    /\ persist(frozen')
    /\ UNCHANGED <<confVars, tun_owner, wake_throttle, exempt, last_focus, tickVars>>

Expired == {p \in Keys(grace) : grace[p] = 0}

(* A frozen package whose uid has no process left loses its record.        *)
LiveOnly(fz, k) == Without(fz, {p \in Pkg : UidOf[p] \notin k.alive})

(* What is discarded: by a rule and by frozen_timeout on every             *)
(* CheckEvery-th tick, by low memory on every MemEvery-th (longest frozen  *)
(* first, until memory recovers: any prefix of that order), and once after *)
(* boot among the packages of the last session and the frozen ones whose   *)
(* processes are all cached.                                               *)
RuleDiscards(fz, e) ==
    {p \in Keys(fz) :
        LET after == IF rules.after[p] # Absent THEN rules.after[p] ELSE policy.timeout
        IN  /\ Due(CheckEvery)
            /\ rule(p, rules.always[p], e) = "discard"
            /\ after > 0 /\ fz[p] >= after}

TimeoutDiscards_unkept(fz) ==
    {p \in Keys(fz) \ adj_keep :
        Due(CheckEvery) /\ policy.timeout > 0 /\ fz[p] >= policy.timeout}
TimeoutDiscards(fz) ==
    {p \in Keys(fz) : Due(CheckEvery) /\ policy.timeout > 0 /\ fz[p] >= policy.timeout}

OldestFirst(S, fz) == \A p \in S, q \in Keys(fz) \ S : fz[p] >= fz[q]

MemoryDiscards(fz) ==
    IF Due(MemEvery) /\ policy.watermark
    THEN {S \in SUBSET Keys(fz) : OldestFirst(S, fz)} ELSE {{}}

BootDue(at) == policy.boot_reclaim /\ ~boot_reclaim_done
               /\ at # Absent /\ at >= BootDelay

BootDiscards(fz, k, at) ==
    IF BootDue(at)
    THEN SUBSET {p \in boot_reclaim_candidates \cup Keys(fz) :
                    UidOf[p] \in k.alive \ k.locked}
    ELSE {{}}

(* discard_pkg over a set of targets: the guard is asked for each of them. *)
(* Of two packages on one uid the first finds processes to kill, the other *)
(* finds none and only loses its frozen entry.                             *)
Victims(S, e) == {p \in S : ~discard_ineligible(p, e)}

Killed(V) == {S \in SUBSET V : /\ U(S) = U(V)
                                  /\ \A p, q \in S : UidOf[p] = UidOf[q] => p = q}

(* The rest of the tick, from the frozen table fz and the kernel k that    *)
(* the discards leave: lock the frozen set again, give the foreground its  *)
(* OOM adj back, thaw what receives traffic, save the frozen set.          *)
NetWakes(fz, any) ==
    IF (tick_count + 1) % CheckEvery = 0
    THEN {p \in Keys(fz) : p \in policy.keep_net /\ p \in any} ELSE {}

(* adj_keep packages that are the foreground by now.                       *)
Returned_never == {}
Returned == {last_focus}

(* Every expired entry leaves the grace table, frozen or spared.           *)
GraceDone_frozen(fz) == Expired \cap Keys(fz)
GraceDone_spared(fz) == Expired \ Keys(fz)
GraceDone(fz) == Expired

TickEnds(fz, k, K, any, io) ==
    LET relocked == IF Due(LockEvery) THEN protect_oom(k, U(Keys(fz))) ELSE k
        back     == (adj_keep \ K) \cap Returned
        wakes    == NetWakes(fz, any)
        thawed   == {p \in wakes : UidOf[p] \notin io.err}
    IN  /\ frozen' = Without(fz, wakes)
        /\ grace' = Without(grace, GraceDone(fz) \cup K \cup wakes)
        /\ cooldown' = [p \in Pkg |-> IF p \in wakes THEN policy.cooldown
                                      ELSE IF p \in K \/ cooldown[p] <= 0 THEN Absent
                                      ELSE cooldown[p]]
        /\ adj_keep' = ((adj_keep \ K) \ back) \cup thawed
        /\ kernel' = unfreeze_keep_oom(restore_oom(relocked, U(back)), U(wakes), io)
        /\ persist(frozen')

(* The discards of one tick, over the frozen table fz.                     *)
TickDiscards(fz, k, e, any2, io, at) ==
    \E M \in MemoryDiscards(fz), B \in BootDiscards(fz, k, at) :
    \E V \in {Victims(RuleDiscards(fz, e) \cup TimeoutDiscards(fz) \cup M \cup B, e)} :
    \E rest \in {Without(fz, V)}, k3 \in {discard(k, U(V), io)}, K \in Killed(V) :
        TickEnds(rest, k3, K, any2, io)

(* The stages of an enabled tick, each bound to its value: the kernel after *)
(* the system chain is locked, what a grace period that ran out freezes,   *)
(* the table without the packages that have no process left.               *)
TickEnabled(e, any2, io, at) ==
    /\ policy.enabled
    /\ \E k1 \in {lock_system_chain_oom(kernel, io)} :
       \E fresh \in {Frozen_now({p \in Expired : ~TickSpares(p, e)}, k1, io)} :
       \E k2 \in {freeze(k1, U(fresh), io)} :
       \E fz \in {LiveOnly(With(frozen, fresh, 0), k2)} :
          TickDiscards(fz, k2, e, any2, io, at)
    /\ tick_count' = (tick_count + 1) % BootEvery
    /\ boot_completed_at' = at
    /\ boot_reclaim_done' = (boot_reclaim_done \/ BootDue(at))
    /\ UNCHANGED <<confVars, tun_owner, wake_throttle, exempt, last_focus,
                   boot_reclaim_candidates>>

(* boot_completed is polled on every BootEvery-th tick until it is seen.   *)
BootPoll == {boot_completed_at}
            \cup (IF Boots /\ boot_completed_at = Absent /\ Due(BootEvery) THEN {0} ELSE {})

Tick == \E io \in Answers :
           \/ TickDisabled(io)
           \/ \E e \in Readings, any2 \in SUBSET NetPkgs, at \in BootPoll :
                 TickEnabled(e, any2, io, at)

-----------------------------------------------------------------------------
(* The environment: the clock, processes, and the Android framework.       *)

Older(t) == IF t = Absent THEN Absent ELSE IF t < Horizon THEN t + 1 ELSE t
Less_below(t) == t - 1
Less(t)  == IF t > 0 THEN t - 1 ELSE t

Elapse ==
    /\ frozen' = [p \in Pkg |-> Older(frozen[p])]
    /\ grace' = [p \in Pkg |-> Less(grace[p])]
    /\ cooldown' = [p \in Pkg |-> Less(cooldown[p])]
    /\ wake_throttle' = [p \in Pkg |-> Less(wake_throttle[p])]
    /\ boot_completed_at' = Older(boot_completed_at)
    /\ UNCHANGED <<confVars, tun_owner, adj_keep, exempt, last_focus, tick_count,
                   boot_reclaim_done, boot_reclaim_candidates, saveVars, kernel>>

World(k) == /\ kernel' = k
            /\ UNCHANGED <<confVars, tun_owner, tableVars, exempt, last_focus,
                           tickVars, saveVars>>

ProcessStart(u) == World(start_process(kernel, u))
ProcessEnd(u)   == \E z \in {FALSE, Zombies} :
                      u \in kernel.alive /\ World(end_process(kernel, u, z))
SystemFreeze(u) == "freeze" \in Meddling /\ World(system_freeze(kernel, u))
SystemThaw(u)   == "thaw" \in Meddling /\ World(system_thaw(kernel, u))
SystemAdj(u)    == "adj" \in Meddling /\ World(system_adj(kernel, u))

(* The cached answer of vpn_owner_uid is refreshed: the tunnel changed its *)
(* owner or is gone.                                                       *)
TunChange(o) ==
    /\ tun_owner' = o
    /\ UNCHANGED <<confVars, tableVars, exempt, last_focus, tickVars, saveVars, kernel>>

-----------------------------------------------------------------------------
(* DaemonState::init_engine on a device without frozen.state.  The rule    *)
(* table is empty until the first reload.                                  *)
Init ==
    /\ policy \in Policies /\ presets \in SUBSET Preset /\ active_preset = NoPreset
    /\ rules = NoRules /\ system_apps \in SystemSets /\ tun_owner = NoPkg
    /\ frozen = Without([p \in Pkg |-> 0], Pkg) /\ grace = frozen /\ cooldown = frozen
    /\ wake_throttle = [p \in Pkg |-> 0]
    /\ adj_keep = {} /\ exempt = [p \in Pkg |-> {}] /\ last_focus = NoPkg
    /\ tick_count = 0 /\ boot_completed_at = Absent /\ boot_reclaim_done = FALSE
    /\ boot_reclaim_candidates = {}
    /\ last_persist = NeverSaved /\ disk = {}
    /\ kernel \in [alive : {Uid}, held : {{}}, stopped : {{}}, locked : {{}}, backup : {{}}]

Events ==
    \/ \E p \in Pkg, e \in Readings, clock \in BOOLEAN, io \in Answers :
          Focus(p, e, clock, io)
    \/ \E p \in Pkg, s \in Sources, listed \in BOOLEAN, e \in Quiet, io \in Answers :
          Wakeup(p, s, listed, e, io)
    \/ \E p \in ExemptPkgs, fl \in SUBSET Flags : Exempt(p, fl)
    \/ \E p \in Pkg, io \in Answers : ForceStop(p, io)

Config ==
    \/ \E sys \in SystemSets, ps \in SUBSET Preset, rul \in RuleTables \cup {rules} :
          \/ ReloadFails(sys, ps, rul)
          \/ \E pol \in Policies, e \in Quiet, io \in Answers :
                Reload(pol, sys, ps, rul, e, io)
    \/ \E n \in Preset : ApplyPreset(n)
    \/ \E pol \in Policies : ClearPreset(pol)

Environment ==
    \/ Elapse
    \/ \E u \in Uid : \/ ProcessStart(u) \/ ProcessEnd(u)
                      \/ SystemFreeze(u) \/ SystemThaw(u) \/ SystemAdj(u)
    \/ \E o \in TunOwners \cup {NoPkg} : TunChange(o)

Next == Events \/ Config \/ Tick \/ Environment

(* The main loop ticks for ever and time goes on.                          *)
Fairness == WF_vars(Tick) /\ WF_vars(Elapse)

Spec == Init /\ [][Next]_vars /\ Fairness

-----------------------------------------------------------------------------
(* Properties.                                                             *)

(* Every variable keeps its shape.                                         *)
TypeOK ==
    /\ policy \in PolicyType /\ presets \subseteq Preset
    /\ active_preset \in Preset \cup {NoPreset}
    /\ rules \in RulesType /\ system_apps \subseteq Pkg
    /\ tun_owner \in Pkg \cup {NoPkg}
    /\ frozen \in [Pkg -> Timer] /\ grace \in [Pkg -> Timer]
    /\ cooldown \in [Pkg -> Timer] /\ wake_throttle \in [Pkg -> Nat]
    /\ adj_keep \subseteq Pkg /\ exempt \in [Pkg -> SUBSET Flags]
    /\ last_focus \in Pkg \cup {NoPkg}
    /\ tick_count \in Nat /\ boot_completed_at \in Timer
    /\ boot_reclaim_done \in BOOLEAN /\ boot_reclaim_candidates \subseteq Pkg
    /\ last_persist \subseteq Pkg \cup NeverSaved /\ disk \subseteq Pkg
    /\ kernel \in KernelType

(* The package in the foreground is neither frozen nor counted down to a   *)
(* freeze, whatever events, failures and policy changes came before:       *)
(* last_focus is "the current foreground, never frozen".                   *)
ForegroundIsFree == last_focus \notin Keys(frozen) \cup Keys(grace)

(* No package is frozen and waiting to be frozen at once: a grace entry    *)
(* left behind would freeze a package the tables say was already thawed.   *)
FrozenIsNotWaiting == Keys(frozen) \cap Keys(grace) = {}

(* A package of the compiled-in critical list is never in a table that     *)
(* leads to a freeze, no matter what the policy files say.                 *)
CriticalIsSpared == Critical \cap (Keys(frozen) \cup Keys(grace)) = {}

(* Without a failing write, a zombie flag or the system freezer, whatever  *)
(* is held or stopped has a record in the frozen table: nothing stays      *)
(* frozen with no record that leads to its thaw.                           *)
HeldIsRecorded == kernel.held \cup kernel.stopped \subseteq U(Keys(frozen))

(* The candidate pool sent to the dex side (frozen, waiting, keep) covers  *)
(* every locked process: an adj of -1000 outside the pool has no path back.*)
LockedIsPooled ==
    kernel.locked \subseteq
        U(Keys(frozen) \cup Keys(grace) \cup adj_keep \cup Critical)

(* Whatever is locked at -1000 can be given its adj back: the daemon still *)
(* knows the original value.                                               *)
LockedHasBackup == kernel.locked \subseteq kernel.backup

(* A preset in force is visible in the policy: the five parameters it      *)
(* overlays keep its values through reloads, failed reloads and clears.    *)
PresetInForce ==
    active_preset # NoPreset => policy = overlay_preset(policy, active_preset)

(* A package is never frozen while it has a cooldown entry, whichever path *)
(* (grace, force list, rule) leads to the freeze.                          *)
CooldownHolds ==
    [][\A p \in Keys(frozen') \ Keys(frozen) : p \notin Keys(cooldown)]_vars

(* As long as a package stays frozen its age only grows: wakeups that are  *)
(* throttled, gated or ignored never renew the discard timeout.            *)
FreezeClockRuns ==
    [][\A p \in Keys(frozen) \cap Keys(frozen') : frozen'[p] >= frozen[p]]_vars

MayKill(u) ==
    /\ u \in U(Keys(frozen) \cup Expired \cup boot_reclaim_candidates)
    /\ \A p \in Pkg : UidOf[p] = u =>
          /\ p # last_focus
          /\ p \notin Critical \cup system_apps \cup policy.whitelist
          /\ policy.mode[p] \notin {"exempt", "important"}
          /\ keep_flags(policy, p) \cap exempt[p] = {}

(* Whatever a tick kills was frozen by the engine, or was frozen in the    *)
(* last session, and is not the foreground, protected, important or busy   *)
(* with something the policy keeps alive.                                  *)
TickKillsOwn ==
    [][(\E u \in kernel.alive \ kernel'.alive : ~MayKill(u)) => ~Tick]_vars

(* No process of the uid in the foreground is held: two packages may share *)
(* a uid, and a freeze reaches the uid.                                    *)
ForegroundRuns ==
    last_focus # NoPkg => UidOf[last_focus] \notin kernel.held

(* No process of the package in the foreground is left stopped by the      *)
(* SIGSTOP fallback.                                                       *)
ForegroundResumes ==
    last_focus # NoPkg => UidOf[last_focus] \notin kernel.stopped

(* A package that policy.toml or a rule declares never to be frozen is not *)
(* entered into the frozen table.                                          *)
NeverFreezeHolds ==
    [][\A p \in Keys(frozen') \ Keys(frozen) :
          ~never_freeze(p, policy, system_apps, rules, [quiet |-> {}])]_vars

(* The engine implements the abstract life of a package.                   *)
Phase == [p \in Pkg |-> IF p \in Keys(frozen) THEN "frozen"
                        ELSE IF p \in Keys(grace) THEN "leaving" ELSE "running"]

Life == INSTANCE Lifecycle WITH phase <- Phase, foreground <- last_focus

LifeSpec == Life!Spec

(* Every countdown to a freeze comes to an end: frozen, spared, or back in *)
(* the foreground.                                                         *)
GraceEnds == \A p \in Pkg : p \in Keys(grace) ~> p \notin Keys(grace)

(* A package back in the foreground gets its OOM adj back, unless it       *)
(* leaves again first.                                                     *)
ForegroundUnlocks ==
    \A p \in Pkg : last_focus = p /\ UidOf[p] \in kernel.locked /\ p \notin Critical
                     ~> last_focus # p \/ UidOf[p] \notin kernel.locked

(* A critical package that the system froze is thawed.                     *)
CriticalThaws == \A p \in Critical :
    UidOf[p] \in kernel.held ~> UidOf[p] \notin kernel.held

(* With a discard timeout a frozen package does not stay frozen for ever   *)
(* unless something makes it ineligible.                                   *)
FrozenEnds ==
    \A p \in Pkg : p \in Keys(frozen)
        ~> \/ p \notin Keys(frozen) \/ policy.timeout = 0
           \/ discard_ineligible(p, [quiet |-> {}])
=============================================================================
