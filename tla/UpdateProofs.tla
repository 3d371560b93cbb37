---------------------------- MODULE UpdateProofs ----------------------------
(* Proofs about Update, for any releases and any number of reboots and of   *)
(* calls of sunctl.                                                         *)
EXTENDS Update, TLAPS

(* What the steps below have to know of the two records.                    *)
Shapes ==
    /\ pend \in [bin : Int, meta : Int, sha : Int, staged : {"no", "now", "before"}]
    /\ ctl \in [at : CtlPlaces, cmd : CtlCommands, rel : Int]

(* sunctl works beside the watch loop only, and what it has staged so far   *)
(* is of one release.                                                       *)
OneAtATime == ctl.at # "idle" => Watching
InStages ==
    /\ ctl.at \in {"describing", "hashing", "marking"} => pend.bin = ctl.rel
    /\ ctl.at \in {"hashing", "marking"} => pend.meta = ctl.rel
    /\ ctl.at = "marking" => pend.sha = ctl.rel

(* A staged update whose metadata and hash disagree was being staged again, *)
(* and then its metadata are those of its binary.                           *)
Staged ==
    (pend.staged # "no" /\ pend.meta # NoFile /\ pend.sha # NoFile) =>
        \/ pend.meta = pend.sha
        \/ pend.bin = pend.meta /\ (ctl.at = "hashing" \/ svc \in {"booting", "considering"})

(* From the hash check to the two renames.                                  *)
BeforeMove == {"booting", "considering", "clearing", "copying", "moving", "naming"}
Moving ==
    /\ svc \in {"clearing", "copying", "moving"} => pend.bin = pend.meta
    /\ svc = "naming" => bin = pend.meta
    /\ svc \in BeforeMove => ~applied
    /\ svc \in {"booting", "considering"} => pend.staged # "now"

UInv == Shapes /\ OneAtATime /\ InStages /\ Staged /\ Moving /\ AppliedAgrees

USE DEF NoFile, Torn

LEMMA UInvInit == UInit => UInv
<1> SUFFICES ASSUME UInit PROVE UInv
  OBVIOUS
<1>1. Shapes
  BY DEF UInit, Shapes, NoUpdate, CtlPlaces, CtlCommands
<1> QED
  BY <1>1 DEF UInit, UInv, OneAtATime, InStages, Staged, Moving, AppliedAgrees, NoUpdate

(* The daemon changes no more than the metadata, and only missing ones.     *)
LEMMA DaemonKeeps ==
  ASSUME UInv, BecomesReady \/ Dies PROVE UInv'
BY DEF UInv, BecomesReady, Dies, disk_vars, Shapes, OneAtATime, InStages, Staged, Moving,
       AppliedAgrees, Watching

LEMMA ServiceKeeps ==
  ASSUME UInv, ServiceStep PROVE UInv'
<1> USE DEF UInv, Shapes, OneAtATime, InStages, Staged, Moving, AppliedAgrees,
           Watching, BeforeMove, Svc, SvcRest, disk_vars, daemon
<1>0. ctl' = ctl /\ (ctl.at # "idle" => Watching)
  BY DEF ServiceStep, Booted, Consider, ClearBackup, StartDaemon, Started, Verify, RollBackStop,
         RollBackBinary, RollBackMeta, Watch, Look, CopyBackup, MoveBinary, MoveMeta
<1>1. CASE Booted
  BY <1>1, <1>0 DEF Booted
<1>2. CASE Consider
  <2>1. CASE pend.staged # "before"
    BY <1>2, <2>1, <1>0 DEF Consider
  <2>2. CASE pend.staged = "before" /\ ~Complete
    BY <1>2, <2>2, <1>0 DEF Consider, NoUpdate
  <2>3. CASE pend.staged = "before" /\ Complete
    BY <1>2, <2>3, <1>0 DEF Consider, Complete
  <2> QED
    BY <2>1, <2>2, <2>3
<1>3. CASE ClearBackup
  BY <1>3, <1>0 DEF ClearBackup
<1>4. ASSUME NEW ok \in BOOLEAN, CopyBackup(ok) PROVE UInv'
  BY <1>4, <1>0 DEF CopyBackup
<1>5. ASSUME NEW ok \in BOOLEAN, MoveBinary(ok) PROVE UInv'
  BY <1>5, <1>0 DEF MoveBinary
<1>6. ASSUME NEW ok \in BOOLEAN, MoveMeta(ok) PROVE UInv'
  BY <1>6, <1>0 DEF MoveMeta, NoUpdate
<1>7. CASE StartDaemon
  BY <1>7, <1>0 DEF StartDaemon, StartsDaemon
<1>8. CASE Started
  BY <1>8, <1>0 DEF Started
<1>9. CASE Verify
  BY <1>9, <1>0 DEF Verify, NoUpdate
<1>10. CASE RollBackStop \/ RollBackBinary \/ RollBackMeta
  BY <1>10, <1>0 DEF RollBackStop, RollBackBinary, RollBackMeta, NoUpdate
<1>11. CASE Watch \/ Look
  BY <1>11, <1>0 DEF Watch, Look
<1> QED
  BY <1>1, <1>2, <1>3, <1>4, <1>5, <1>6, <1>7, <1>8, <1>9, <1>10, <1>11 DEF ServiceStep

LEMMA ControlKeeps ==
  ASSUME UInv, ControlStep PROVE UInv'
<1> USE DEF UInv, Shapes, OneAtATime, InStages, Staged, Moving, AppliedAgrees,
           Watching, BeforeMove, Ctl, CtlRest, Over, CtlPlaces, CtlCommands, daemon
<1>1. CASE StageBinary
  BY <1>1 DEF StageBinary
<1>2. CASE StageMeta
  BY <1>2 DEF StageMeta
<1>3. CASE StageHash
  BY <1>3 DEF StageHash
<1>4. CASE StageMarker
  BY <1>4 DEF StageMarker
<1>5. CASE Check
  BY <1>5 DEF Check
<1>6. CASE Hold
  BY <1>6 DEF Hold
<1>7. CASE StopOld
  BY <1>7 DEF StopOld
<1>8. CASE StartNew
  BY <1>8 DEF StartNew
<1>9. CASE CheckNew
  BY <1>9 DEF CheckNew, NoUpdate
<1>10. CASE ReturnStop
  BY <1>10 DEF ReturnStop
<1>11. CASE ReturnFiles
  BY <1>11 DEF ReturnFiles
<1>12. CASE Restart
  BY <1>12 DEF Restart
<1>13. CASE Depart
  BY <1>13 DEF Depart
<1>14. ASSUME NEW ok \in BOOLEAN, SaveBackup(ok) PROVE UInv'
  BY <1>14 DEF SaveBackup
<1>15. ASSUME NEW ok \in BOOLEAN, Replace(ok) PROVE UInv'
  BY <1>15 DEF Replace
<1>16. ASSUME NEW ok \in BOOLEAN, Name(ok) PROVE UInv'
  BY <1>16 DEF Name
<1> QED
  BY <1>1, <1>2, <1>3, <1>4, <1>5, <1>6, <1>7, <1>8, <1>9, <1>10, <1>11, <1>12, <1>13,
     <1>14, <1>15, <1>16 DEF ControlStep

LEMMA CallKeeps ==
  ASSUME UInv, NEW cmd \in CtlCommands, NEW r \in Int, Call(cmd, r) PROVE UInv'
BY DEF UInv, Shapes, OneAtATime, InStages, Staged, Moving, AppliedAgrees, Watching, BeforeMove,
       Call, CtlPlaces, disk_vars, daemon

(* A reboot while sunctl copies the new binary may cut it; at every other   *)
(* place the staged update stays as it is.                                  *)
LEMMA RebootKeeps ==
  ASSUME UInv, Reboot PROVE UInv'
<1> USE DEF UInv, Shapes, OneAtATime, InStages, Staged, Moving, AppliedAgrees, Watching, BeforeMove
<1>1. PICK b \in Copied(pend.bin, ctl.at = "staging") :
          pend' = [pend EXCEPT !.bin = b, !.staged = IF @ = "now" THEN "before" ELSE @]
  BY DEF Reboot
<1>2. b \in Int /\ (ctl.at # "staging" => b = pend.bin)
  <2>1. pend.bin \in Int /\ Torn \in Int
    OBVIOUS
  <2>2. CASE ctl.at = "staging"
    BY <2>1, <2>2 DEF Copied
  <2>3. CASE ctl.at # "staging"
    BY <2>1, <2>3 DEF Copied
  <2> QED
    BY <2>2, <2>3
<1>3. ctl' = [at |-> "idle", cmd |-> "none", rel |-> NoFile] /\ svc' = "booting" /\ ~applied'
  BY DEF Reboot
<1>4. /\ pend'.bin = b /\ pend'.meta = pend.meta /\ pend'.sha = pend.sha
      /\ pend'.staged = IF pend.staged = "now" THEN "before" ELSE pend.staged
  BY <1>1
<1>5. Shapes'
  <2>1. ctl' \in [at : CtlPlaces, cmd : CtlCommands, rel : Int]
    BY <1>3 DEF CtlPlaces, CtlCommands
  <2>2. (IF pend.staged = "now" THEN "before" ELSE pend.staged) \in {"no", "now", "before"}
    OBVIOUS
  <2>3. pend' = [bin |-> b, meta |-> pend.meta, sha |-> pend.sha,
                 staged |-> IF pend.staged = "now" THEN "before" ELSE pend.staged]
    BY <1>1
  <2> QED
    BY <1>2, <2>1, <2>2, <2>3
<1>6. Staged'
  BY <1>2, <1>3, <1>4
<1>7. Moving' /\ InStages' /\ OneAtATime' /\ AppliedAgrees'
  BY <1>3, <1>4
<1> QED
  BY <1>5, <1>6, <1>7

LEMMA UInvNext ==
  ASSUME UInv, [UNext]_uvars PROVE UInv'
<1>1. CASE BecomesReady \/ Dies
  BY <1>1, DaemonKeeps
<1>2. CASE ServiceStep
  BY <1>2, ServiceKeeps
<1>3. CASE ControlStep
  BY <1>3, ControlKeeps
<1>4. CASE Calls
  <2>1. \E cmd \in CtlCommands, r \in Int : Call(cmd, r)
    BY <1>4, UpdateAssumption DEF Calls, CtlCommands
  <2> QED
    BY <2>1, CallKeeps
<1>5. CASE Reboot
  BY <1>5, RebootKeeps
<1>6. CASE UNCHANGED uvars
  BY <1>6 DEF uvars, disk_vars, UInv, Shapes, OneAtATime, InStages, Staged, Moving,
              AppliedAgrees, Watching
<1> QED
  BY <1>1, <1>2, <1>3, <1>4, <1>5, <1>6 DEF UNext

LEMMA UInvAlways == USpec => []UInv
  BY UInvInit, UInvNext, PTL DEF USpec

-----------------------------------------------------------------------------
(* No command runs without the files it moves: a staged or a given binary   *)
(* until it is in place, a backup from before the replacement until the     *)
(* verdict.                                                                 *)
Swapped == {"naming", "stopping", "starting", "verifying", "returning", "restoring"}
Swapping == {"checking", "copying", "holding", "moving"} \cup Swapped
Calling ==
    /\ (ctl.at # "idle" /\ ctl.cmd = "hotswap") => ctl.rel \in Releases
    /\ ctl.at \in Swapping => ctl.cmd \in {"activate", "hotswap"}
OnHand ==
    /\ svc \in {"clearing", "copying", "moving"} => pend.bin # NoFile
    /\ svc \in {"moving", "naming"} => back.bin # NoFile
    /\ (ctl.cmd = "activate" /\ ctl.at \in {"copying", "holding", "moving"}) => pend.bin # NoFile
    /\ ctl.at \in {"holding", "moving"} \cup Swapped => back.bin # NoFile

TInv == UTypeOK /\ Calling /\ OnHand /\ OneAtATime

LEMMA TInvInit == UInit => TInv
<1> SUFFICES ASSUME UInit PROVE TInv
  OBVIOUS
<1>1. UTypeOK
  BY UpdateAssumption DEF UInit, UTypeOK, NoUpdate, NoBackup, Image, Text, SvcPlaces, CtlPlaces,
                         CtlCommands
<1> QED
  BY <1>1 DEF UInit, TInv, Calling, OnHand, OneAtATime, Swapping, Swapped

LEMMA Contents ==
  /\ NoFile \in Text /\ Releases \subseteq Text /\ Text \subseteq Image /\ Torn \in Image
  /\ Releases \cup {Torn} \subseteq Image /\ NoFile \notin Releases \cup {Torn}
  /\ \A x \in Image : x # NoFile => x \in Releases \cup {Torn}
  /\ NoUpdate \in [bin : Image, meta : Text, sha : Text, staged : {"no", "now", "before"}]
  /\ NoBackup \in [bin : Image, meta : Text]
BY UpdateAssumption DEF Text, Image, NoUpdate, NoBackup

(* What a start or a stop of the daemon does to the types.                  *)
LEMMA DaemonTypes ==
  ASSUME UTypeOK
  PROVE  /\ StartsDaemon => runs' \in Text /\ meta' \in Text /\ greeted' \in BOOLEAN
         /\ StopsDaemon => runs' \in Text /\ marker' \in Text /\ greeted' \in BOOLEAN
BY DEF UTypeOK, StartsDaemon, StopsDaemon, Text

LEMMA TInvDaemon ==
  ASSUME TInv, BecomesReady \/ Dies PROVE TInv'
BY UpdateAssumption
   DEF TInv, UTypeOK, Text, BecomesReady, Dies, disk_vars, Calling, OnHand, OneAtATime, Watching

LEMMA TInvService ==
  ASSUME TInv, ServiceStep PROVE TInv'
<1> USE Contents DEF TInv, UTypeOK, Calling, OnHand, OneAtATime, Watching, Svc, SvcRest,
           disk_vars, daemon, SvcPlaces
<1>0. ctl' = ctl /\ (ctl.at # "idle" => Watching)
  BY DEF ServiceStep, Booted, Consider, ClearBackup, StartDaemon, Started, Verify, RollBackStop,
         RollBackBinary, RollBackMeta, Watch, Look, CopyBackup, MoveBinary, MoveMeta
<1>1. CASE Booted
  BY <1>1, <1>0 DEF Booted
<1>2. CASE Consider
  BY <1>2, <1>0 DEF Consider, Complete
<1>3. CASE ClearBackup
  BY <1>3, <1>0 DEF ClearBackup, Swapped
<1>4. ASSUME NEW ok \in BOOLEAN, CopyBackup(ok) PROVE TInv'
  BY <1>4, <1>0 DEF CopyBackup
<1>5. ASSUME NEW ok \in BOOLEAN, MoveBinary(ok) PROVE TInv'
  BY <1>5, <1>0 DEF MoveBinary
<1>6. ASSUME NEW ok \in BOOLEAN, MoveMeta(ok) PROVE TInv'
  BY <1>6, <1>0 DEF MoveMeta
<1>7. CASE StartDaemon
  BY <1>7, <1>0, DaemonTypes DEF StartDaemon
<1>8. CASE Started
  BY <1>8, <1>0 DEF Started
<1>9. CASE Verify
  BY <1>9, <1>0 DEF Verify, Swapped
<1>10. CASE RollBackStop
  BY <1>10, <1>0, DaemonTypes DEF RollBackStop
<1>11. CASE RollBackBinary \/ RollBackMeta
  BY <1>11, <1>0 DEF RollBackBinary, RollBackMeta
<1>12. CASE Watch
  BY <1>12, <1>0 DEF Watch
<1>13. CASE Look
  BY <1>13, <1>0, DaemonTypes DEF Look
<1> QED
  BY <1>1, <1>2, <1>3, <1>4, <1>5, <1>6, <1>7, <1>8, <1>9, <1>10, <1>11, <1>12, <1>13
     DEF ServiceStep

LEMMA TInvControl ==
  ASSUME TInv, InStages, ControlStep PROVE TInv'
<1> USE Contents DEF TInv, UTypeOK, Calling, OnHand, OneAtATime, Watching, Swapping,
           Swapped, Ctl, CtlRest, Over, CtlPlaces, CtlCommands, daemon
<1>1. CASE StageBinary
  BY <1>1 DEF StageBinary
<1>2. CASE StageMeta
  BY <1>2 DEF StageMeta
<1>3. CASE StageHash
  BY <1>3 DEF StageHash, InStages
<1>4. CASE StageMarker
  BY <1>4 DEF StageMarker
<1>5. CASE Check
  BY <1>5 DEF Check, Complete, NoUpdate
<1>6. CASE Hold
  BY <1>6 DEF Hold
<1>7. CASE StopOld
  BY <1>7, DaemonTypes DEF StopOld
<1>8. CASE StartNew
  BY <1>8, DaemonTypes DEF StartNew
<1>9. CASE CheckNew
  BY <1>9 DEF CheckNew
<1>10. CASE ReturnStop
  BY <1>10, DaemonTypes DEF ReturnStop
<1>11. CASE ReturnFiles
  BY <1>11 DEF ReturnFiles
<1>12. CASE Restart
  BY <1>12, DaemonTypes DEF Restart
<1>13. CASE Depart
  BY <1>13, DaemonTypes DEF Depart
<1>14. ASSUME NEW ok \in BOOLEAN, SaveBackup(ok) PROVE TInv'
  BY <1>14 DEF SaveBackup
<1>15. ASSUME NEW ok \in BOOLEAN, Replace(ok) PROVE TInv'
  BY <1>15 DEF Replace
<1>16. ASSUME NEW ok \in BOOLEAN, Name(ok) PROVE TInv'
  BY <1>16 DEF Name
<1> QED
  BY <1>1, <1>2, <1>3, <1>4, <1>5, <1>6, <1>7, <1>8, <1>9, <1>10, <1>11, <1>12, <1>13,
     <1>14, <1>15, <1>16 DEF ControlStep

LEMMA TInvCall ==
  ASSUME TInv, Calls PROVE TInv'
<1>1. PICK cmd \in CtlCommands, r \in Text :
          Call(cmd, r) /\ cmd \in CtlCommands \ {"none"} /\ (cmd = "hotswap" => r \in Releases)
  BY Contents DEF Calls, CtlCommands
<1> QED
  BY <1>1 DEF Call, TInv, UTypeOK, Calling, OnHand, OneAtATime, Watching, Swapping, Swapped,
              CtlPlaces, CtlCommands, disk_vars, daemon

LEMMA TInvReboot ==
  ASSUME TInv, Reboot PROVE TInv'
<1> USE DEF TInv, UTypeOK
<1>1. PICK b \in Copied(pend.bin, ctl.at = "staging") :
          pend' = [pend EXCEPT !.bin = b, !.staged = IF @ = "now" THEN "before" ELSE @]
  BY DEF Reboot
<1>2. PICK c \in Copied(back.bin, svc = "copying" \/ ctl.at = "copying") :
          back' = [back EXCEPT !.bin = c]
  BY DEF Reboot
<1>3. b \in Image /\ c \in Image
  BY Contents DEF Copied
<1>4. bin' \in Releases \cup {Torn}
  BY DEF Reboot, Copied
<1>5. pend' \in [bin : Image, meta : Text, sha : Text, staged : {"no", "now", "before"}]
  <2>1. pend' = [bin |-> b, meta |-> pend.meta, sha |-> pend.sha,
                 staged |-> IF pend.staged = "now" THEN "before" ELSE pend.staged]
    BY <1>1
  <2>2. (IF pend.staged = "now" THEN "before" ELSE pend.staged) \in {"no", "now", "before"}
    OBVIOUS
  <2>3. pend.meta \in Text /\ pend.sha \in Text
    OBVIOUS
  <2> QED
    BY <1>3, <2>1, <2>2, <2>3
<1>6. back' \in [bin : Image, meta : Text]
  BY <1>2, <1>3
<1>7. /\ ctl' = [at |-> "idle", cmd |-> "none", rel |-> NoFile] /\ svc' = "booting"
      /\ runs' = NoFile /\ greeted' = FALSE /\ marker' \in Text /\ applied' = FALSE
      /\ cut' \in BOOLEAN /\ reboots' \in Nat
      /\ UNCHANGED <<meta, updating, proven, mixed, calls>>
  BY Contents DEF Reboot, Exposed
<1>8. UTypeOK'
  BY <1>4, <1>5, <1>6, <1>7, Contents DEF SvcPlaces, CtlPlaces, CtlCommands
<1> QED
  BY <1>7, <1>8 DEF Calling, OnHand, OneAtATime, Swapping, Swapped

LEMMA TInvNext ==
  ASSUME UInv, TInv, [UNext]_uvars PROVE TInv'
<1>1. CASE BecomesReady \/ Dies
  BY <1>1, TInvDaemon
<1>2. CASE ServiceStep
  BY <1>2, TInvService
<1>3. CASE ControlStep
  BY <1>3, TInvControl DEF UInv
<1>4. CASE Calls
  BY <1>4, TInvCall
<1>5. CASE Reboot
  BY <1>5, TInvReboot
<1>6. CASE UNCHANGED uvars
  BY <1>6 DEF uvars, disk_vars, daemon, TInv, UTypeOK, Calling, OnHand, OneAtATime, Watching
<1> QED
  BY <1>1, <1>2, <1>3, <1>4, <1>5, <1>6 DEF UNext

LEMMA TInvAlways == USpec => []TInv
  BY TInvInit, TInvNext, UInvAlways, PTL DEF USpec

(* Every file holds what the scripts can read, and the installed binary is  *)
(* never missing: a rollback copies a backup that is there.                 *)
THEOREM UpdateTypeCorrect == USpec => []UTypeOK
  BY TInvAlways, PTL DEF TInv

(* Whatever is staged, activated or swapped, and wherever reboots cut it:   *)
(* what service.sh is about to verify is one release.                       *)
THEOREM AppliedAgreesAlways == USpec => []AppliedAgrees
  BY UInvAlways, PTL DEF UInv

-----------------------------------------------------------------------------
(* The marker names a release that was ready; a daemon that is about to be  *)
(* verified was started after the old one had gone; what sunctl compares    *)
(* the marker with is the release it installs.                              *)
Marked == marker # NoFile => marker \in proven
Quiet == svc \in BeforeMove \cup {"starting", "restoring", "renaming"} => runs = NoFile
Trial == svc \in {"started", "verifying"} => applied
Paired ==
    ~mixed =>
        /\ (ctl.cmd = "activate" /\ ctl.at \in {"copying", "holding", "moving"})
              => pend.bin = ctl.rel
        /\ ctl.at \in {"naming", "stopping", "starting", "verifying"} => bin = ctl.rel

(* While a new binary is on trial the backup is the way back, and otherwise *)
(* the binary itself is good.                                               *)
OnTrial ==
    \/ svc \in {"naming", "started", "verifying", "stopping", "restoring"}
    \/ svc = "starting" /\ applied
    \/ ctl.at \in Swapped
WayBack ==
    (~cut /\ ~mixed) =>
        /\ IF OnTrial THEN back.bin \in proven ELSE bin \in proven
        /\ (svc = "moving" \/ ctl.at \in {"holding", "moving"}) => back.bin = bin

PInv == Marked /\ Quiet /\ Trial /\ Paired /\ WayBack

LEMMA PInvInit == UInit => PInv
BY UpdateAssumption
   DEF UInit, PInv, Marked, Quiet, Trial, Paired, WayBack, OnTrial, Swapped, BeforeMove

(* What holds of the two scripts before any step: the facts that the steps  *)
(* below read off the invariants proved so far.                             *)
Standing == UInv /\ TInv

LEMMA PInvDaemon ==
  ASSUME Standing, PInv, BecomesReady \/ Dies PROVE PInv'
<1> USE DEF PInv, Marked, Quiet, Trial, Paired, WayBack, OnTrial, disk_vars
<1>1. CASE BecomesReady
  BY <1>1, UpdateAssumption DEF BecomesReady
<1>2. CASE Dies
  BY <1>2 DEF Dies
<1> QED
  BY <1>1, <1>2

LEMMA PInvService ==
  ASSUME Standing, PInv, ServiceStep PROVE PInv'
<1> USE DEF PInv, Marked, Quiet, Trial, Paired, WayBack, OnTrial, Swapped, Watching, BeforeMove,
           Svc, SvcRest, disk_vars, daemon
<1>0. /\ ctl' = ctl /\ proven' = proven /\ cut' = cut /\ mixed' = mixed
      /\ ctl.at # "idle" => Watching
      /\ proven \subseteq Releases /\ NoFile \notin Releases
      /\ svc \in BeforeMove => ~applied
  BY UpdateAssumption
     DEF ServiceStep, Booted, Consider, ClearBackup, StartDaemon, Started, Verify, RollBackStop,
         RollBackBinary, RollBackMeta, Watch, Look, CopyBackup, MoveBinary, MoveMeta,
         Standing, TInv, OneAtATime, UTypeOK, UInv, Moving
<1>1. CASE Booted
  BY <1>1, <1>0 DEF Booted
<1>2. CASE Consider
  BY <1>2, <1>0 DEF Consider
<1>3. CASE ClearBackup
  BY <1>3, <1>0 DEF ClearBackup
<1>4. ASSUME NEW ok \in BOOLEAN, CopyBackup(ok) PROVE PInv'
  BY <1>4, <1>0 DEF CopyBackup
<1>5. ASSUME NEW ok \in BOOLEAN, MoveBinary(ok) PROVE PInv'
  BY <1>5, <1>0 DEF MoveBinary
<1>6. ASSUME NEW ok \in BOOLEAN, MoveMeta(ok) PROVE PInv'
  BY <1>6, <1>0 DEF MoveMeta
<1>7. CASE StartDaemon
  BY <1>7, <1>0 DEF StartDaemon, StartsDaemon
<1>8. CASE Started
  BY <1>8, <1>0 DEF Started
<1>9. CASE Verify
  <2>1. (Ready(meta) /\ svc = "verifying") => bin \in proven
    BY DEF Ready, Standing, UInv, AppliedAgrees
  <2> QED
    BY <1>9, <1>0, <2>1 DEF Verify
<1>10. CASE RollBackStop
  BY <1>10, <1>0 DEF RollBackStop, StopsDaemon
<1>11. CASE RollBackBinary
  BY <1>11, <1>0 DEF RollBackBinary
<1>12. CASE RollBackMeta
  BY <1>12, <1>0 DEF RollBackMeta
<1>13. CASE Watch
  BY <1>13, <1>0 DEF Watch
<1>14. CASE Look
  BY <1>14, <1>0 DEF Look, StartsDaemon
<1> QED
  BY <1>1, <1>2, <1>3, <1>4, <1>5, <1>6, <1>7, <1>8, <1>9, <1>10, <1>11, <1>12, <1>13, <1>14
     DEF ServiceStep

LEMMA PInvControl ==
  ASSUME Standing, PInv, ControlStep PROVE PInv'
<1> USE DEF PInv, Marked, Quiet, Trial, Paired, WayBack, OnTrial, Swapped, Watching, BeforeMove,
           Ctl, CtlRest, Over, daemon
<1>0. /\ svc' = svc /\ applied' = applied /\ proven' = proven /\ cut' = cut
      /\ Watching
      /\ ctl \in [at : CtlPlaces, cmd : CtlCommands, rel : Text]
      /\ ctl.at \in Swapping => ctl.cmd \in {"activate", "hotswap"}
      /\ (mixed \in BOOLEAN /\ mixed' = mixed) \/ Check
  BY DEF ControlStep, StageBinary, StageMeta, StageHash, StageMarker, Check, Hold, StopOld,
         StartNew, CheckNew, ReturnStop, ReturnFiles, Restart, Depart, SaveBackup, Replace, Name,
         Standing, TInv, OneAtATime, UTypeOK, Calling
<1>1. CASE StageBinary
  BY <1>1, <1>0 DEF StageBinary
<1>2. CASE StageMeta
  BY <1>2, <1>0 DEF StageMeta
<1>3. CASE StageHash
  BY <1>3, <1>0 DEF StageHash
<1>4. CASE StageMarker
  BY <1>4, <1>0 DEF StageMarker
<1>5. CASE Check
  <2>1. ctl.at = "checking" /\ svc' = svc /\ UNCHANGED <<bin, marker, pend, runs, applied>>
        /\ ctl'.cmd = ctl.cmd /\ ctl'.at \in {"copying", "idle"}
    BY <1>5, <1>0 DEF Check
  <2>2. (~mixed' /\ ctl'.at = "copying" /\ ctl.cmd = "activate") => pend.bin = ctl'.rel
    BY <1>5, <1>0 DEF Check
  <2>3. ~mixed' => ~mixed
    BY <1>5 DEF Check
  <2>4. ~OnTrial /\ ~OnTrial'
    BY <1>0, <2>1
  <2> QED
    BY <1>0, <2>1, <2>2, <2>3, <2>4
<1>6. CASE Hold
  BY <1>6, <1>0 DEF Hold
<1>7. CASE StopOld
  BY <1>7, <1>0 DEF StopOld, StopsDaemon
<1>8. CASE StartNew
  BY <1>8, <1>0 DEF StartNew, StartsDaemon
<1>9. CASE CheckNew
  BY <1>9, <1>0 DEF CheckNew, Ready
<1>10. CASE ReturnStop
  BY <1>10, <1>0 DEF ReturnStop, StopsDaemon
<1>11. CASE ReturnFiles
  BY <1>11, <1>0 DEF ReturnFiles
<1>12. CASE Restart
  BY <1>12, <1>0 DEF Restart, StopsDaemon
<1>13. CASE Depart
  BY <1>13, <1>0 DEF Depart, StartsDaemon
<1>14. ASSUME NEW ok \in BOOLEAN, SaveBackup(ok) PROVE PInv'
  BY <1>14, <1>0 DEF SaveBackup
<1>15. ASSUME NEW ok \in BOOLEAN, Replace(ok) PROVE PInv'
  BY <1>15, <1>0 DEF Replace, Swapping
<1>16. ASSUME NEW ok \in BOOLEAN, Name(ok) PROVE PInv'
  BY <1>16, <1>0 DEF Name
<1> QED
  BY <1>1, <1>2, <1>3, <1>4, <1>5, <1>6, <1>7, <1>8, <1>9, <1>10, <1>11, <1>12, <1>13,
     <1>14, <1>15, <1>16 DEF ControlStep

LEMMA PInvCall ==
  ASSUME Standing, PInv, NEW cmd, NEW r, Call(cmd, r) PROVE PInv'
BY DEF PInv, Marked, Quiet, Trial, Paired, WayBack, OnTrial, Swapped, Watching, Call,
       disk_vars, daemon

(* A reboot that cuts no trial leaves a binary that is good.                *)
LEMMA PInvReboot ==
  ASSUME Standing, PInv, Reboot PROVE PInv'
<1>1. /\ svc' = "booting" /\ runs' = NoFile /\ marker' \in {marker, NoFile}
      /\ ctl'.at = "idle" /\ ctl'.cmd = "none"
      /\ proven' = proven /\ mixed' = mixed /\ cut' = (cut \/ Exposed)
  BY DEF Reboot
<1>2. ~Exposed => (bin' = bin /\ ~OnTrial)
  BY DEF Reboot, Copied, Exposed, OnTrial, Swapped
<1> QED
  BY <1>1, <1>2 DEF PInv, Marked, Quiet, Trial, Paired, WayBack, OnTrial, Swapped

LEMMA PInvNext ==
  ASSUME Standing, PInv, [UNext]_uvars PROVE PInv'
<1>1. CASE BecomesReady \/ Dies
  BY <1>1, PInvDaemon
<1>2. CASE ServiceStep
  BY <1>2, PInvService
<1>3. CASE ControlStep
  BY <1>3, PInvControl
<1>4. CASE Calls
  BY <1>4, PInvCall DEF Calls
<1>5. CASE Reboot
  BY <1>5, PInvReboot
<1>6. CASE UNCHANGED uvars
  BY <1>6 DEF uvars, disk_vars, daemon, PInv, Marked, Quiet, Trial, Paired, WayBack, OnTrial
<1> QED
  BY <1>1, <1>2, <1>3, <1>4, <1>5, <1>6 DEF UNext

(* Unless a reboot cut a trial, or sunctl took a binary with the metadata   *)
(* of another release, the scripts come to rest with a binary that was      *)
(* ready once.                                                              *)
THEOREM RestIsProvenAlways == USpec => []RestIsProven
<1>1. PInv => RestIsProven
  BY DEF PInv, WayBack, OnTrial, Swapped, RestIsProven, Watching
<1>2. USpec => []PInv
  BY PInvInit, PInvNext, UInvAlways, TInvAlways, PTL DEF USpec, Standing
<1> QED
  BY <1>1, <1>2, PTL
=============================================================================
