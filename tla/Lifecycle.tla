----------------------------- MODULE Lifecycle -----------------------------
(***************************************************************************)
(* What the tombstone engine promises about the life of a package, with no *)
(* table, timer, policy or kernel in sight:                                *)
(*                                                                         *)
(*    running --leaves the foreground--> leaving --> frozen --> running    *)
(*                                                                         *)
(* A package is only put on the way to a freeze, or frozen at once, in the *)
(* step in which it leaves the foreground; a background package that never *)
(* was in the foreground is left alone; nothing returns from frozen to     *)
(* leaving; the foreground and the critical packages are always running.   *)
(***************************************************************************)
CONSTANTS Pkg, Critical, NoPkg

VARIABLES phase,      \* package -> "running", "leaving" or "frozen"
          foreground

vars == <<phase, foreground>>

Phases == {"running", "leaving", "frozen"}

Init == phase = [p \in Pkg |-> "running"] /\ foreground = NoPkg

Leaves(p) == foreground = p /\ foreground' # p

MayBecome(p, next) ==
    \/ next = phase[p]
    \/ next = "running"
    \/ next = "frozen" /\ phase[p] = "leaving"
    \/ next \in {"leaving", "frozen"} /\ Leaves(p)

Next == /\ phase' \in [Pkg -> Phases]
        /\ foreground' \in Pkg \cup {foreground}
        /\ \A p \in Pkg : MayBecome(p, phase'[p])
        /\ \A p \in Pkg : p \in Critical \/ p = foreground' => phase'[p] = "running"

Spec == Init /\ [][Next]_vars
=============================================================================
