------------------------------ MODULE Recovery ------------------------------
(***************************************************************************)
(* The engine through deaths and restarts of the daemon: what main.rs does *)
(* before its loop starts.  The memory of the daemon is lost, OOM_BACKUP   *)
(* included; the kernel keeps what was frozen, stopped and locked, and the *)
(* disk keeps frozen.state, the frozen set of the last session.            *)
(*                                                                         *)
(* A SIGTERM leaves the main loop without saving anything, so an orderly   *)
(* stop is a crash too.  A reboot is a crash after which every process     *)
(* ends before the daemon starts.                                          *)
(***************************************************************************)
EXTENDS Engine

VARIABLE up  \* the daemon is past its startup

rvars == <<vars, up>>

(* The memory of a daemon that has not started.  What it loads from files  *)
(* is chosen when it starts.                                               *)
Crash ==
    /\ up /\ up' = FALSE
    /\ frozen' = Without(frozen, Pkg) /\ grace' = Without(grace, Pkg)
    /\ cooldown' = Without(cooldown, Pkg)
    /\ wake_throttle' = [p \in Pkg |-> 0] /\ adj_keep' = {}
    /\ exempt' = [p \in Pkg |-> {}] /\ last_focus' = NoPkg
    /\ active_preset' = NoPreset /\ rules' = NoRules /\ tun_owner' = NoPkg
    /\ tick_count' = 0 /\ boot_completed_at' = Absent /\ boot_reclaim_done' = FALSE
    /\ boot_reclaim_candidates' = {}
    /\ last_persist' = NeverSaved
    /\ kernel' = [kernel EXCEPT !.backup = {}]
    /\ UNCHANGED <<policy, presets, system_apps, disk>>

(* The startup reconciliation.  Of the last session's frozen set, what is  *)
(* still frozen in the cgroups is taken over when it has processes and     *)
(* thawed when it has none.  The file is removed.                          *)
Held_recorded == {p \in disk : UidOf[p] \in kernel.held}

Restored == {p \in Held_recorded : UidOf[p] \in kernel.alive}

Zombie_everything == {p \in Pkg : UidOf[p] \in kernel.held}
Zombie == {p \in Held_recorded : UidOf[p] \notin kernel.alive}

Start(pol, ps, sys, io) ==
    /\ ~up /\ up' = TRUE
    /\ policy' = pol /\ presets' = ps /\ system_apps' = sys
    /\ boot_reclaim_candidates' = disk
    /\ frozen' = With(frozen, Restored, 0)
    /\ kernel' = unfreeze(kernel, U(Zombie), io)
    /\ \/ disk' = {}
       \/ DiskFails /\ disk' = disk
    /\ UNCHANGED <<active_preset, rules, tun_owner, grace, cooldown, wake_throttle, adj_keep,
                   exempt, last_focus, tick_count, boot_completed_at, boot_reclaim_done,
                   last_persist>>

Starts == \E pol \in Policies, ps \in SUBSET Preset, sys \in SystemSets, io \in Answers :
             Start(pol, ps, sys, io)

RInit == Init /\ up = TRUE

RNext == \/ up /\ Next /\ UNCHANGED up
         \/ ~up /\ Environment /\ UNCHANGED up
         \/ Crash
         \/ Starts

RSpec == RInit /\ [][RNext]_rvars

-----------------------------------------------------------------------------
(* Properties.                                                             *)

(* Across a restart too the daemon thaws on its own account (not because   *)
(* an app is opened, stopped or woken) only what a record in memory or on  *)
(* disk says is its own, and critical packages: what another freezer froze *)
(* is left alone.                                                          *)
ThawsOwn ==
    [][~ kernel.held \ kernel'.held \subseteq
            U(Keys(frozen) \cup Expired \cup boot_reclaim_candidates \cup Critical \cup disk)
        => ~ (Tick \/ Starts)]_rvars

(* The file never lists a critical package, so no restart takes one over.  *)
CriticalIsForgotten == Critical \cap (disk \cup boot_reclaim_candidates) = {}
=============================================================================
