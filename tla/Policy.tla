------------------------------- MODULE Policy -------------------------------
(***************************************************************************)
(* The policy table of daemon/src/policy.rs (conf/policy.toml), the        *)
(* overlay of a scenario preset (preset.rs, conf/action.toml) and the      *)
(* answers of the rule table (rules.rs, conf/rules.toml), as the engine    *)
(* reads them.  Package names are model values, durations are counted in   *)
(* clock ticks of the model.                                               *)
(***************************************************************************)
EXTENDS Integers

CONSTANTS Pkg,       \* installed packages
          Critical,  \* CRITICAL_PACKAGES, compiled in
          Flags,     \* exemption dimensions reported by ExemptMonitor
          Sources,   \* wakeup sources: broadcast, service, pendingintent
          StrictGrace, \* AppPolicy::STRICT_DEFAULT_GRACE
          Policies,  \* the policies conf/policy.toml may hold
          Preset,    \* names of conf/action.toml
          NoPreset,  \* no preset is active
          Overlay,   \* preset name -> the five general parameters
          RuleTables \* the rule tables conf/rules.toml may hold

Absent == -1         \* a package with no entry in a table of instants
Timer  == Nat \cup {Absent}

Mode == {"exempt", "important", "standard", "strict"}

RuleAct == {"none", "suppress", "exempt", "freeze", "discard"}

PolicyType ==
    [enabled : BOOLEAN, grace : Nat, cooldown : Nat, throttle : Nat,
     timeout : Nat, watermark : BOOLEAN, boot_reclaim : BOOLEAN,
     keep : SUBSET Flags, on : [Pkg -> SUBSET Flags], off : [Pkg -> SUBSET Flags],
     mode : [Pkg -> Mode], over : [Pkg -> Timer],
     whitelist : SUBSET Pkg, force : SUBSET Pkg,
     keep_vpn : BOOLEAN, vpn : SUBSET Pkg, nowake : SUBSET Pkg,
     keep_hn : SUBSET Pkg, keep_net : SUBSET Pkg, window : SUBSET Pkg,
     gate : SUBSET Sources]

(* A rule table as its answers: the action of the highest-priority rule    *)
(* that matches, per package and event; after is the discard threshold.    *)
RulesType ==
    [wakeup : [Pkg -> [Sources -> RuleAct]], leave : [Pkg -> RuleAct],
     always : [Pkg -> RuleAct], after : [Pkg -> Timer]]

OverlayType == [enabled : BOOLEAN, grace : Nat, cooldown : Nat,
                keep : SUBSET (Flags \cap {"fg", "media"})]

NoRules ==
    [wakeup |-> [p \in Pkg |-> [s \in Sources |-> "none"]],
     leave  |-> [p \in Pkg |-> "none"],
     always |-> [p \in Pkg |-> "none"],
     after  |-> [p \in Pkg |-> Absent]]

ASSUME PolicyAssumption ==
    /\ Critical \subseteq Pkg
    /\ StrictGrace \in Nat
    /\ Policies \subseteq PolicyType /\ Policies # {}
    /\ NoPreset \notin Preset
    /\ Overlay \in [Preset -> OverlayType]
    /\ RuleTables \subseteq RulesType

-----------------------------------------------------------------------------

(* AppPolicy::effective_grace: override, then the mode's default.          *)
effective_grace(pol, p) ==
    IF pol.over[p] # Absent THEN pol.over[p]
    ELSE CASE pol.mode[p] = "strict"    -> StrictGrace
           [] pol.mode[p] = "important" -> 2 * pol.grace
           [] OTHER                     -> pol.grace

(* keep_flags and keep_loc: a per-app switch overrides the global one.     *)
keep_flags(pol, p) == (pol.keep \ pol.off[p]) \cup pol.on[p]

(* keep_wakeup: an important app cannot switch its wakeups off.            *)
keep_wakeup(pol, p) == pol.mode[p] = "important" \/ p \notin pol.nowake

(* overlay_preset: five general parameters in memory; the lists and the    *)
(* per-app table stay those of the file.                                   *)
overlay_preset(pol, n) ==
    [pol EXCEPT !.enabled = Overlay[n].enabled,
                !.grace = Overlay[n].grace,
                !.cooldown = Overlay[n].cooldown,
                !.keep = (@ \ {"fg", "media"}) \cup Overlay[n].keep]
=============================================================================
