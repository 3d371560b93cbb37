------------------------------ MODULE MCEngine ------------------------------
(***************************************************************************)
(* Small instances of Engine: ordinary packages a and b and a critical one *)
(* l (a launcher), each with a uid of its own.                             *)
(* One policy record per question; every run names the set it starts from  *)
(* and reloads among.                                                      *)
(***************************************************************************)
EXTENDS Engine, TLC

CONSTANTS a, b, l, n1, n2

TwoApps   == {a, b, l}
OneApp    == {a, l}
Ordinary  == {a, b}
OwnUid    == [p \in Pkg |-> p]
NoSystem  == {{}}
AppOrNone == {{}, {a}}

Base ==
    [enabled |-> TRUE, grace |-> 1, cooldown |-> 1, throttle |-> 0, timeout |-> 0,
     watermark |-> FALSE, boot_reclaim |-> FALSE, keep |-> Flags,
     on |-> [p \in Pkg |-> {}], off |-> [p \in Pkg |-> {}],
     mode |-> [p \in Pkg |-> "standard"], over |-> [p \in Pkg |-> Absent],
     whitelist |-> {}, force |-> {}, keep_vpn |-> TRUE, vpn |-> {},
     nowake |-> {}, keep_hn |-> {}, keep_net |-> {}, window |-> {}, gate |-> {}]

NoOverlay == <<>>
Plain     == {Base}

(* Core: b is on the force list, wakeups are throttled and gated.          *)
CorePolicies ==
    {[Base EXCEPT !.force = {b}, !.throttle = 1, !.gate = {"broadcast"}]}

(* Reload: the file may whitelist a or keep it alive while it has traffic  *)
(* or in a window of the day; the second preset switches the engine off.   *)
ReloadPolicies ==
    {[Base EXCEPT !.keep_net = {a}, !.keep_hn = {a}, !.window = {a}],
     [Base EXCEPT !.whitelist = {a}, !.over[a] = 0]}
Presets == (n1 :> [enabled |-> TRUE, grace |-> 0, cooldown |-> 0, keep |-> {}])
        @@ (n2 :> [enabled |-> FALSE, grace |-> 1, cooldown |-> 1, keep |-> {"fg"}])
SomeRules ==
    {[NoRules EXCEPT !.wakeup[a]["broadcast"] = "suppress", !.leave[a] = "freeze"],
     [NoRules EXCEPT !.always[a] = "exempt"]}

(* Recovery: the policy file wants the critical package frozen at once.    *)
ForcedCritical == {[Base EXCEPT !.force = {l}]}

(* Discard: a rule, the watermark and the boot reclaim; the global timeout *)
(* is off, so that a rule has to bring its own threshold.                  *)
DiscardPolicies ==
    {[Base EXCEPT !.force = {a}, !.watermark = TRUE, !.boot_reclaim = TRUE],
     [Base EXCEPT !.mode[a] = "important"]}
DiscardRules == {[NoRules EXCEPT !.always[a] = "discard", !.after[a] = 2]}

(* Live: the discard timeout is on.                                        *)
LivePolicies == {[Base EXCEPT !.timeout = 1]}

(* A rule that exempts a.                                                  *)
ExemptRules == {[NoRules EXCEPT !.always[a] = "exempt"]}
=============================================================================
