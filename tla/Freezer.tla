------------------------------- MODULE Freezer -------------------------------
(***************************************************************************)
(* The kernel side of the tombstone daemon: what the helpers of            *)
(* daemon/src/freezer.rs do to one uid.  The kernel state is a record      *)
(*                                                                         *)
(*   alive   uids that own at least one process                            *)
(*   held    uids with cgroup.freeze = 1 at uid or pid level               *)
(*   stopped uids stopped by the SIGSTOP fallback                          *)
(*   locked  uids whose processes have oom_score_adj = -1000               *)
(*   backup  uids with an entry in OOM_BACKUP (the daemon's own memory)    *)
(*                                                                         *)
(* and every helper is a function from that record to the next one.  The   *)
(* pid level is folded into its uid: a uid is held as soon as one of its   *)
(* processes is.                                                           *)
(***************************************************************************)
EXTENDS FiniteSets

CONSTANTS Uid,     \* Linux uids of the installed packages
          Faulty   \* uids whose cgroup files may refuse a write

ASSUME FaultyAssumption == Faulty \subseteq Uid

KernelType == [alive : SUBSET Uid, held : SUBSET Uid, stopped : SUBSET Uid,
               locked : SUBSET Uid, backup : SUBSET Uid]

(***************************************************************************)
(* What the kernel answers to the writes of one handler:                   *)
(*   deaf    the uid stays held although 0 was written to what could be    *)
(*   err     the uid-level write of 0 fails, so the helper returns false   *)
(*   refuse  neither the cgroup write of 1 nor SIGSTOP takes effect, or    *)
(*           only :push processes are left and the policy keeps them         *)
(*   sig     the cgroup write of 1 fails and SIGSTOP stops the processes   *)
(***************************************************************************)
Answers == [deaf : SUBSET Faulty, err : SUBSET Faulty,
            refuse : SUBSET Faulty, sig : SUBSET Faulty]

(* protect_oom: lock what is not locked yet; the original adj is recorded  *)
(* only when it is not already the protection value.                       *)
protect_oom(k, us) ==
    [k EXCEPT !.locked = @ \cup (us \cap k.alive),
              !.backup = @ \cup ((us \cap k.alive) \ k.locked)]

(* restore_oom: only what OOM_BACKUP knows is written back.                *)
restore_oom_recorded(k, us) ==
    [k EXCEPT !.backup = @ \ us]
restore_oom(k, us) ==
    [k EXCEPT !.locked = @ \ (us \cap k.backup),
              !.backup = @ \ us]

(* unfreeze_uid_keep_oom: 0 at uid and pid level, then SIGCONT.            *)
unfreeze_keep_oom_uidonly(k, us, io) ==
    [k EXCEPT !.stopped = @ \ us]
unfreeze_keep_oom(k, us, io) ==
    [k EXCEPT !.held = @ \ (us \ io.deaf), !.stopped = @ \ us]

(* unfreeze_uid: the same, and the OOM protection is given back whatever   *)
(* the writes returned.                                                    *)
unfreeze(k, us, io) == restore_oom(unfreeze_keep_oom(k, us, io), us)

(* The uids a freeze actually reaches, and what freeze_uid and the         *)
(* push-keeping variant do to them.                                        *)
Freezable(k, us, io) == (us \cap k.alive) \ io.refuse

freeze(k, us, io) ==
    LET got == Freezable(k, us, io)
    IN  protect_oom([k EXCEPT !.held = @ \cup (got \ io.sig),
                              !.stopped = @ \cup (got \cap io.sig)], got)

(* discard_uid: thaw, give the protection back, then SIGKILL every process *)
(* of the uid.                                                             *)
discard(k, us, io) ==
    [unfreeze(k, us, io) EXCEPT !.alive = @ \ us, !.locked = @ \ us]

(***************************************************************************)
(* The system around the daemon.                                           *)
(***************************************************************************)

(* A process of the uid is started: nothing protects it yet.               *)
start_process(k, u) == [k EXCEPT !.alive = @ \cup {u}]

(* The last process of the uid dies.  OOM_BACKUP keeps an entry of a dead  *)
(* pid, which no longer matters; the freeze flag of an emptied cgroup      *)
(* either goes with the directory or survives it (zombie).                 *)
end_process(k, u, zombie) ==
    [k EXCEPT !.alive = @ \ {u}, !.stopped = @ \ {u}, !.locked = @ \ {u},
              !.backup = @ \ {u}, !.held = IF zombie THEN @ ELSE @ \ {u}]

(* AppFreezer and OomAdjuster of the Android framework: only a cached app  *)
(* (adj above the threshold, hence not locked) is frozen by the system,    *)
(* and its adj writes may overwrite the daemon's.                          *)
system_freeze(k, u) == [k EXCEPT !.held = @ \cup ({u} \cap (k.alive \ k.locked))]
system_thaw(k, u)   == [k EXCEPT !.held = @ \ {u}]
system_adj(k, u)    == [k EXCEPT !.locked = @ \ {u}]
=============================================================================
