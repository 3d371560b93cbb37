------------------------------- MODULE Update -------------------------------
(***************************************************************************)
(* How a new sundownd is installed: service.sh, which applies a staged     *)
(* update after a reboot, starts the daemon and then watches it, and       *)
(* sunctl, which stages updates, activates them at once, swaps the binary  *)
(* or restarts the daemon.  They share the files under data/adb and have   *)
(* no lock but the maintenance flag.  A reboot may come between any two of *)
(* the steps below and in the middle of a copy.                            *)
(*                                                                         *)
(* A binary or a metadata file is the release number it holds.  A rename   *)
(* is atomic, a metadata file is written at once, and rm of several files  *)
(* is one command.  sunctl is used once service.sh is in its watch loop,   *)
(* one command at a time; a daemon that is told to stop is gone within the *)
(* second the scripts wait (Startup has the longer ones).                  *)
(***************************************************************************)
EXTENDS Integers

CONSTANTS Releases,    \* release numbers
          Sound,       \* releases whose daemon comes to be ready
          Installed,   \* the release that is there at first
          MaxReboots,  \* bound: reboots
          MaxCalls     \* bound: calls of sunctl

NoFile == 0
Torn   == -1           \* a copy that was cut in the middle

ASSUME UpdateAssumption ==
    /\ Releases \subseteq Nat \ {NoFile}
    /\ Sound \subseteq Releases /\ Installed \in Sound
    /\ MaxReboots \in Nat /\ MaxCalls \in Nat

VARIABLES bin,       \* DAEMON_PATH
          meta,      \* INSTALLED_META
          marker,    \* READY_MARKER
          pend,      \* PENDING_DIR
          back,      \* BACKUP_DIR
          updating,  \* the file .updating
          runs,      \* the release of the running daemon
          greeted,   \* it has written its marker
          svc, ctl,  \* where service.sh and sunctl are
          applied,   \* UPDATE_APPLIED
          proven,    \* history: releases that came to be ready
          cut,       \* history: a reboot cut a script after it had touched the binary
          mixed,     \* history: sunctl activated a binary with another release's metadata
          reboots, calls  \* for the bounds

disk_vars == <<bin, meta, marker, pend, back, updating>>
daemon == <<runs, greeted>>
uvars == <<disk_vars, daemon, svc, ctl, applied, proven, cut, mixed, reboots, calls>>

Text     == Releases \cup {NoFile}     \* what json_number finds in a file
Image    == Text \cup {Torn}
NoUpdate == [bin |-> NoFile, meta |-> NoFile, sha |-> NoFile, staged |-> "no"]
NoBackup == [bin |-> NoFile, meta |-> NoFile]

(* The commands of each script in the order they run.  "watching" and      *)
(* "idle" are the rests; the others are named for what comes next.         *)
SvcPlaces == {"booting", "considering", "clearing", "copying", "moving", "naming", "starting",
              "started", "verifying", "stopping", "restoring", "renaming", "watching", "looking"}
CtlPlaces == {"idle", "staging", "describing", "hashing", "marking", "checking", "copying",
              "holding", "moving", "naming", "stopping", "starting", "verifying",
              "returning", "restoring", "restarting", "leaving"}
CtlCommands == {"none", "stage", "activate", "hotswap", "restart"}

UTypeOK ==
    /\ bin \in Releases \cup {Torn} /\ meta \in Text /\ marker \in Text
    /\ pend \in [bin : Image, meta : Text, sha : Text, staged : {"no", "now", "before"}]
    /\ back \in [bin : Image, meta : Text]
    /\ {updating, applied, cut, mixed} \subseteq BOOLEAN
    /\ runs \in Text /\ greeted \in BOOLEAN /\ proven \subseteq Releases
    /\ svc \in SvcPlaces
    /\ ctl \in [at : CtlPlaces, cmd : CtlCommands, rel : Text]
    /\ reboots \in Nat /\ calls \in Nat

UInit ==
    /\ bin = Installed /\ meta \in {NoFile, Installed} /\ marker = NoFile
    /\ pend = NoUpdate /\ back = NoBackup /\ updating = FALSE
    /\ runs = NoFile /\ greeted = FALSE /\ svc = "booting" /\ applied = FALSE
    /\ ctl = [at |-> "idle", cmd |-> "none", rel |-> NoFile]
    /\ proven = {Installed} /\ cut = FALSE /\ mixed = FALSE /\ reboots = 0 /\ calls = 0

-----------------------------------------------------------------------------
(* The daemon                                                              *)

(* nohup DAEMON_PATH: an instance that finds another one gives way.  The   *)
(* first thing a daemon does is to write the metadata, if there are none.  *)
StartsDaemon ==
    LET runnable == runs = NoFile /\ bin \in Releases
    IN  /\ runs' = IF runnable THEN bin ELSE runs
        /\ meta' = IF runnable /\ meta = NoFile THEN bin ELSE meta
        /\ greeted' = (greeted /\ ~runnable)

(* pgrep and kill: an orderly stop takes the marker away.                  *)
StopsDaemon ==
    /\ runs' = NoFile /\ greeted' = FALSE
    /\ marker' = IF runs # NoFile THEN NoFile ELSE marker

(* write_ready_marker, once in the life of a daemon.                       *)
BecomesReady ==
    /\ runs \in Sound /\ ~greeted /\ greeted' = TRUE
    /\ marker' = runs /\ proven' = proven \cup {runs}
    /\ UNCHANGED <<bin, meta, pend, back, updating, runs, svc, ctl, applied, cut, mixed, reboots, calls>>

Dies ==
    /\ runs # NoFile /\ runs' = NoFile /\ greeted' = FALSE
    /\ UNCHANGED <<disk_vars, svc, ctl, applied, proven, cut, mixed, reboots, calls>>

-----------------------------------------------------------------------------
(* service.sh                                                              *)

Svc(from, to) == svc = from /\ svc' = to
SvcRest == UNCHANGED <<ctl, proven, cut, mixed, reboots, calls>>

Booted ==
    /\ Svc("booting", "considering") /\ applied' = FALSE
    /\ UNCHANGED <<disk_vars, daemon>> /\ SvcRest

(* apply_pending_update up to its backup: an update staged in this boot is *)
(* left alone, one that is incomplete or does not match its hash is        *)
(* thrown away.                                                            *)
Complete_unhashed == NoFile \notin {pend.bin, pend.meta, pend.sha}
Complete == NoFile \notin {pend.bin, pend.meta, pend.sha} /\ pend.bin = pend.sha

Consider ==
    /\ IF pend.staged # "before" THEN Svc("considering", "starting") /\ pend' = pend
       ELSE IF ~Complete THEN Svc("considering", "starting") /\ pend' = NoUpdate
       ELSE Svc("considering", "clearing") /\ pend' = pend
    /\ UNCHANGED <<bin, meta, marker, back, updating, daemon, applied>> /\ SvcRest

(* rm of the old backup, cp of the binary, which may fail, cp of the       *)
(* metadata.                                                               *)
ClearBackup ==
    /\ Svc("clearing", "copying") /\ back' = NoBackup
    /\ UNCHANGED <<bin, meta, marker, pend, updating, daemon, applied>> /\ SvcRest
CopyBackup(ok) ==
    /\ Svc("copying", IF ok THEN "moving" ELSE "starting")
    /\ back' = IF ok THEN [bin |-> bin, meta |-> meta] ELSE back
    /\ UNCHANGED <<bin, meta, marker, pend, updating, daemon, applied>> /\ SvcRest

(* rm of the marker and mv of the binary; when it fails the backup is      *)
(* copied over the binary, which it equals.                                *)
MoveBinary(ok) ==
    /\ Svc("moving", IF ok THEN "naming" ELSE "starting") /\ marker' = NoFile
    /\ IF ok THEN bin' = pend.bin /\ pend' = [pend EXCEPT !.bin = NoFile]
       ELSE UNCHANGED <<bin, pend>>
    /\ UNCHANGED <<meta, back, updating, daemon, applied>> /\ SvcRest

(* mv of the metadata; when it fails the files go back.                    *)
MoveMeta_keeps(ok) ==
    /\ Svc("naming", "starting")
    /\ IF ok THEN /\ meta' = pend.meta /\ pend' = [pend EXCEPT !.meta = NoFile]
                  /\ applied' = TRUE /\ bin' = bin
       ELSE pend' = NoUpdate /\ UNCHANGED <<bin, meta, applied>>
    /\ UNCHANGED <<marker, back, updating, daemon>> /\ SvcRest
MoveMeta(ok) ==
    /\ Svc("naming", "starting")
    /\ IF ok THEN /\ meta' = pend.meta /\ pend' = [pend EXCEPT !.meta = NoFile]
                  /\ applied' = TRUE /\ bin' = bin
       ELSE /\ bin' = back.bin /\ pend' = NoUpdate
            /\ meta' = IF back.meta # NoFile THEN back.meta ELSE meta
            /\ applied' = applied
    /\ UNCHANGED <<marker, back, updating, daemon>> /\ SvcRest

(* start_daemon, unless one runs already; then nothing is verified.        *)
StartDaemon ==
    /\ Svc("starting", IF runs = NoFile /\ applied THEN "started" ELSE "watching")
    /\ StartsDaemon
    /\ UNCHANGED <<bin, marker, pend, back, updating, applied>> /\ SvcRest

(* Three seconds later pgrep says whether it is alive.                     *)
Started ==
    /\ Svc("started", IF runs # NoFile THEN "verifying" ELSE "stopping")
    /\ UNCHANGED <<disk_vars, daemon, applied>> /\ SvcRest

(* The readiness check: alive, with the marker of the expected release.    *)
(* The waits end at any time.                                              *)
Ready_alive(expected) == runs # NoFile /\ marker # NoFile
Ready(expected) == runs # NoFile /\ marker # NoFile /\ marker = expected

Verify ==
    /\ IF Ready(meta) THEN Svc("verifying", "watching") /\ pend' = NoUpdate /\ back' = NoBackup
       ELSE Svc("verifying", "stopping") /\ UNCHANGED <<pend, back>>
    /\ UNCHANGED <<bin, meta, marker, updating, daemon, applied>> /\ SvcRest

(* rollback_pending_update: kill, cp of the binary, metadata and clean-up. *)
RollBackStop ==
    /\ Svc("stopping", "restoring") /\ StopsDaemon
    /\ UNCHANGED <<bin, meta, pend, back, updating, applied>> /\ SvcRest
RollBackBinary ==
    /\ Svc("restoring", "renaming")
    /\ bin' = IF back.bin # NoFile THEN back.bin ELSE bin
    /\ UNCHANGED <<meta, marker, pend, back, updating, daemon, applied>> /\ SvcRest
RollBackMeta ==
    /\ Svc("renaming", "starting")
    /\ meta' = back.meta /\ pend' = NoUpdate /\ marker' = NoFile /\ applied' = FALSE
    /\ UNCHANGED <<bin, back, updating, daemon>> /\ SvcRest

(* The watch loop: the maintenance flag is looked at, and then pgrep says  *)
(* whether a daemon runs.                                                  *)
Watch ==
    /\ Svc("watching", "looking") /\ ~updating
    /\ UNCHANGED <<disk_vars, daemon, applied>> /\ SvcRest
Look ==
    /\ Svc("looking", "watching") /\ StartsDaemon
    /\ UNCHANGED <<bin, marker, pend, back, updating, applied>> /\ SvcRest

ServiceStep ==
    \/ Booted \/ Consider \/ ClearBackup \/ StartDaemon \/ Started \/ Verify
    \/ RollBackStop \/ RollBackBinary \/ RollBackMeta \/ Watch \/ Look
    \/ \E ok \in BOOLEAN : CopyBackup(ok) \/ MoveBinary(ok) \/ MoveMeta(ok)

-----------------------------------------------------------------------------
(* sunctl                                                                  *)

Watching == svc \in {"watching", "looking"}
Ctl(from, to) == ctl.at = from /\ ctl' = [ctl EXCEPT !.at = to]
CtlRest == UNCHANGED <<svc, applied, proven, cut, mixed, reboots, calls>>
Over == updating' = FALSE

Call(cmd, r) ==
    /\ Watching /\ ctl.at = "idle" /\ calls < MaxCalls /\ calls' = calls + 1
    /\ ctl' = [at |-> CASE cmd = "stage" -> "staging" [] cmd = "restart" -> "restarting"
                        [] OTHER -> "checking",
               cmd |-> cmd, rel |-> r]
    /\ UNCHANGED <<disk_vars, daemon, svc, applied, proven, cut, mixed, reboots>>

(* current_release_no                                                      *)
Current == IF marker # NoFile THEN marker ELSE meta

(* stage_update: the new binary is in place before its number is compared. *)
StageBinary ==
    /\ Ctl("staging", IF ctl.rel < Current THEN "idle" ELSE "describing")
    /\ pend' = [pend EXCEPT !.bin = ctl.rel]
    /\ UNCHANGED <<bin, meta, marker, back, updating, daemon>> /\ CtlRest
StageMeta ==
    /\ Ctl("describing", "hashing") /\ pend' = [pend EXCEPT !.meta = ctl.rel]
    /\ UNCHANGED <<bin, meta, marker, back, updating, daemon>> /\ CtlRest
StageHash ==
    /\ Ctl("hashing", "marking") /\ pend' = [pend EXCEPT !.sha = pend.bin]
    /\ UNCHANGED <<bin, meta, marker, back, updating, daemon>> /\ CtlRest
StageMarker ==
    /\ Ctl("marking", "idle") /\ pend' = [pend EXCEPT !.staged = "now"]
    /\ UNCHANGED <<bin, meta, marker, back, updating, daemon>> /\ CtlRest

(* activate_pending_update and cmd_hotswap share their course.  The first  *)
(* wants a complete update, staged in this boot or not, the second a       *)
(* release that is not older.                                              *)
Check ==
    LET r == IF ctl.cmd = "activate" THEN pend.meta ELSE ctl.rel
        good == IF ctl.cmd = "activate" THEN Complete ELSE ctl.rel >= Current
    IN  /\ ctl.at = "checking"
        /\ ctl' = [ctl EXCEPT !.at = IF good THEN "copying" ELSE "idle", !.rel = r]
        /\ back' = IF good THEN NoBackup ELSE back
        /\ mixed' = (mixed \/ (good /\ ctl.cmd = "activate" /\ pend.bin # r))
        /\ UNCHANGED <<bin, meta, marker, pend, updating, daemon,
                       svc, applied, proven, cut, reboots, calls>>

(* cp of the binary in place.                                              *)
SaveBackup_skipped(ok) ==
    /\ Ctl("copying", IF ok THEN "holding" ELSE "idle") /\ back' = back
    /\ UNCHANGED <<bin, meta, marker, pend, updating, daemon>> /\ CtlRest
SaveBackup(ok) ==
    /\ Ctl("copying", IF ok THEN "holding" ELSE "idle")
    /\ back' = IF ok THEN [bin |-> bin, meta |-> meta] ELSE back
    /\ UNCHANGED <<bin, meta, marker, pend, updating, daemon>> /\ CtlRest

Hold ==
    /\ Ctl("holding", "moving") /\ updating' = TRUE /\ marker' = NoFile
    /\ UNCHANGED <<bin, meta, pend, back, daemon>> /\ CtlRest

(* mv of the pending or the given binary.                                  *)
Replace(ok) ==
    /\ Ctl("moving", IF ok THEN "naming" ELSE "idle")
    /\ bin' = IF ~ok THEN bin ELSE IF ctl.cmd = "activate" THEN pend.bin ELSE ctl.rel
    /\ pend' = IF ok /\ ctl.cmd = "activate" THEN [pend EXCEPT !.bin = NoFile] ELSE pend
    /\ IF ok THEN UNCHANGED updating ELSE Over
    /\ UNCHANGED <<meta, marker, back, daemon>> /\ CtlRest

(* cp of the metadata.  Activation gives up when it fails; a swap has none *)
(* or does without.                                                        *)
Name_stuck(ok) ==
    LET back_out == ~ok /\ ctl.cmd = "activate"
    IN  /\ Ctl("naming", IF back_out THEN "idle" ELSE "stopping")
        /\ meta' = IF ok THEN ctl.rel ELSE meta
        /\ bin' = IF back_out THEN back.bin ELSE bin
        /\ back' = IF back_out THEN [back EXCEPT !.bin = NoFile] ELSE back
        /\ UNCHANGED <<marker, pend, updating, daemon>> /\ CtlRest
Name(ok) ==
    LET back_out == ~ok /\ ctl.cmd = "activate"
    IN  /\ Ctl("naming", IF back_out THEN "idle" ELSE "stopping")
        /\ meta' = IF ok THEN ctl.rel ELSE meta
        /\ bin' = IF back_out THEN back.bin ELSE bin
        /\ back' = IF back_out THEN [back EXCEPT !.bin = NoFile] ELSE back
        /\ IF back_out THEN Over ELSE UNCHANGED updating
        /\ UNCHANGED <<marker, pend, daemon>> /\ CtlRest

StopOld ==
    /\ Ctl("stopping", "starting") /\ StopsDaemon
    /\ UNCHANGED <<bin, meta, pend, back, updating>> /\ CtlRest
StartNew ==
    /\ Ctl("starting", "verifying") /\ StartsDaemon
    /\ UNCHANGED <<bin, marker, pend, back, updating>> /\ CtlRest

CheckNew ==
    /\ IF Ready(ctl.rel)
       THEN /\ Ctl("verifying", "idle") /\ back' = NoBackup /\ Over
            /\ pend' = IF ctl.cmd = "activate" THEN NoUpdate ELSE pend
       ELSE Ctl("verifying", "returning") /\ UNCHANGED <<pend, back, updating>>
    /\ UNCHANGED <<bin, meta, marker, daemon>> /\ CtlRest

(* The rollback: kill, mv of the old binary, cp of its metadata, rm of the *)
(* marker, start.                                                          *)
ReturnStop ==
    /\ Ctl("returning", "restoring") /\ StopsDaemon
    /\ UNCHANGED <<bin, meta, pend, back, updating>> /\ CtlRest
ReturnFiles ==
    /\ Ctl("restoring", "leaving")
    /\ bin' = back.bin /\ back' = [back EXCEPT !.bin = NoFile]
    /\ meta' = IF back.meta # NoFile THEN back.meta ELSE meta
    /\ marker' = NoFile
    /\ UNCHANGED <<pend, updating, daemon>> /\ CtlRest

(* cmd_restart_daemon                                                      *)
Restart ==
    /\ Ctl("restarting", "leaving") /\ updating' = TRUE /\ StopsDaemon
    /\ UNCHANGED <<bin, meta, pend, back>> /\ CtlRest
Depart ==
    /\ Ctl("leaving", "idle") /\ StartsDaemon /\ Over
    /\ UNCHANGED <<bin, marker, pend, back>> /\ CtlRest

ControlStep ==
    \/ StageBinary \/ StageMeta \/ StageHash \/ StageMarker \/ Check \/ Hold
    \/ StopOld \/ StartNew \/ CheckNew \/ ReturnStop \/ ReturnFiles \/ Restart \/ Depart
    \/ \E ok \in BOOLEAN : SaveBackup(ok) \/ Replace(ok) \/ Name(ok)

-----------------------------------------------------------------------------
(* A reboot ends everything; a file that is being copied may be cut.       *)

Copied(x, copying) == IF copying THEN {x, Torn} ELSE {x}

(* Between the first command that may touch the binary and the verdict.    *)
Exposed ==
    \/ svc \in {"moving", "naming", "started", "verifying", "stopping", "restoring", "renaming"}
    \/ svc = "starting" /\ applied
    \/ ctl.at \in {"moving", "naming", "stopping", "starting", "verifying", "returning",
                   "restoring", "leaving"}

Reboot ==
    /\ reboots < MaxReboots /\ reboots' = reboots + 1
    /\ runs' = NoFile /\ greeted' = FALSE /\ marker' \in {marker, NoFile}
    /\ svc' = "booting" /\ applied' = FALSE
    /\ ctl' = [at |-> "idle", cmd |-> "none", rel |-> NoFile]
    /\ bin' \in Copied(bin, svc \in {"moving", "naming", "restoring"})
    /\ \E b \in Copied(back.bin, svc = "copying" \/ ctl.at = "copying") :
          back' = [back EXCEPT !.bin = b]
    /\ \E b \in Copied(pend.bin, ctl.at = "staging") :
          pend' = [pend EXCEPT !.bin = b, !.staged = IF @ = "now" THEN "before" ELSE @]
    /\ cut' = (cut \/ Exposed)
    /\ UNCHANGED <<meta, updating, proven, mixed, calls>>

Calls == \/ \E r \in Releases, cmd \in {"stage", "hotswap"} : Call(cmd, r)
         \/ \E cmd \in {"activate", "restart"} : Call(cmd, NoFile)

UNext == BecomesReady \/ Dies \/ ServiceStep \/ ControlStep \/ Calls \/ Reboot

(* The shells go on.  A daemon may stay short of readiness for ever.       *)
UFairness == WF_uvars(ServiceStep) /\ WF_uvars(ControlStep)

USpec == UInit /\ [][UNext]_uvars /\ UFairness

-----------------------------------------------------------------------------

(* What service.sh is about to verify is one release: the order in which   *)
(* sunctl stages the files lets no reboot pair the binary of one release   *)
(* with the metadata of another (service.sh, apply_pending_update).        *)
AppliedAgrees ==
    (svc \in {"starting", "started", "verifying"} /\ applied) => bin = meta

(* Whatever fails, and whoever starts a daemon in between: unless a reboot *)
(* came between the replacement and its verdict, a script that has come to *)
(* its end leaves a binary that was ready once, or the one from before     *)
(* (service.sh and sunctl, readiness check and rollback).  sunctl compares *)
(* the marker with the metadata, so the promise does not extend to a       *)
(* binary it took with the metadata of another release.                    *)
RestIsProven == (Watching /\ ctl.at = "idle" /\ ~cut /\ ~mixed) => bin \in proven

(* With no such reboot, once service.sh runs, a daemon that is gone        *)
(* is started again: no path through sunctl leaves the maintenance flag    *)
(* behind (service.sh, watch loop).                                        *)
DaemonReturns == [](~cut) => ((svc # "booting" /\ runs = NoFile) ~> runs # NoFile)
=============================================================================
