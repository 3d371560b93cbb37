------------------------------ MODULE MCParts ------------------------------
(***************************************************************************)
(* The smaller models side by side.  They share no variable, so a          *)
(* behaviour of this module is one of one of them, chosen at the start,    *)
(* with the others at rest.                                                *)
(***************************************************************************)
EXTENDS MCNet, MCRules, EventAudit, Startup, MCLocks, Update

VARIABLE part

AtRest(p, init) == part = p \/ init

PInit ==
    /\ part \in {"net", "rules", "audit", "startup", "locks", "update"}
    /\ NInit /\ AtRest("net", works = {} /\ row = {} /\ keep_hn = {} /\ keep_net = {})
    /\ AtRest("rules", text = <<>>) /\ RulesInit
    /\ SInit /\ AtRest("startup", path = Nobody /\ ready = Nobody)
    /\ AInit /\ LInit
    /\ UInit /\ AtRest("update", meta = Installed)

PNext ==
    \/ /\ part = "net" /\ NNext
       /\ UNCHANGED <<part, rvars, avars, svars, lvars, uvars>>
    \/ /\ part = "rules" /\ RulesNext
       /\ UNCHANGED <<part, nvars, avars, svars, lvars, uvars>>
    \/ /\ part = "audit" /\ ANext
       /\ UNCHANGED <<part, nvars, rvars, svars, lvars, uvars>>
    \/ /\ part = "startup" /\ SNext
       /\ UNCHANGED <<part, nvars, rvars, avars, lvars, uvars>>
    \/ /\ part = "locks" /\ LNext
       /\ UNCHANGED <<part, nvars, rvars, avars, svars, uvars>>
    \/ /\ part = "update" /\ UNext
       /\ UNCHANGED <<part, nvars, rvars, avars, svars, lvars>>

PSpec ==
    /\ PInit /\ [][PNext]_<<part, nvars, rvars, avars, svars, lvars, uvars>>
    /\ \A d \in Daemon : Threads(d)
    /\ WF_uvars(part = "update" /\ ServiceStep) /\ WF_uvars(part = "update" /\ ControlStep)
=============================================================================
