------------------------------ MODULE OtaSystem ------------------------------
(***************************************************************************)
(* The whole upgrade: the app stages a package and reboots, the boot       *)
(* loader (check_download and update_system of the u-boot environment)     *)
(* boots the staged files when update.flag exists, and the start-up script *)
(* (apps.rc, check_download) copies them to the boot partition, removes    *)
(* the flag and reboots.  Power may be cut at any moment.                  *)
(*                                                                         *)
(* harm is a history variable: the events after which the design promises  *)
(* nothing.  The invariants say that everything else is survived.          *)
(***************************************************************************)
EXTENDS AppUpgrade

VARIABLES phase,  \* what runs: u-boot, u-boot waiting for a download, apps.rc (four
                  \* places of its check_download), the app, or nothing any more
          rcFile, \* the file the loop of check_download is at
          harm    \* history: the events so far that the upgrade does not survive

bootVars == <<phase, rcFile, harm>>
allVars  == <<vars, bootVars>>

Phases == {"uboot", "download", "rc", "copy", "copying", "rmdone", "app", "dead"}
Harms  == {"lost writes", "cut in rm", "cut in BOOT.BIN", "copy failed", "empty save"}
BootBin == 1   \* BOOT.BIN, the first of update_files: the ROM loads u-boot from it

\* Types of the whole system.
SystemTypeOK ==
  /\ TypeOK
  /\ phase \in Phases
  /\ rcFile \in 1..(FileCount + 1)
  /\ harm \subseteq Harms

SystemInit ==
  /\ Init
  /\ phase = "uboot"
  /\ rcFile = 1
  /\ harm = {}
-----------------------------------------------------------------------------
(***************************************************************************)
(* The boot loader                                                         *)
(***************************************************************************)
\* Mutant: u-boot without update_system.
SelectedFromBoot == boot

\* The files update_system loads (flag set) or boot.scr loads (no flag).
Selected == IF flag THEN Overlay(fw, boot) ELSE boot

\* The ROM starts BOOT.BIN of the boot partition; u-boot tests only that the
\* files exist, so a file cut short is loaded and the kernel does not come up.
Boots ==
  /\ Whole(boot[BootBin])
  /\ \A f \in Files \ {BootBin} : Whole(Selected[f])

UBoot ==
  /\ phase = "uboot"
  /\ phase' = CASE Boots -> "rc"
               [] ~Boots /\ Whole(boot[BootBin]) /\ (\E f \in Files : Selected[f] = Absent)
                  -> "download"
               [] OTHER -> "dead"
  \* a staged package that holds every file makes up for whatever went before
  /\ harm' = IF /\ flag
                /\ Whole(boot[BootBin])
                /\ \A f \in Files : Whole(fw[f])
             THEN {} ELSE harm
  /\ UNCHANGED <<vars, rcFile>>

\* "system file lost, start download": u-boot runs its own upgrade server (OTA), whose
\* commands remove and write files, and remove and create update.flag.
UBootServes ==
  /\ phase = "download"
  /\ \/ /\ ServerRemovesFlag
        /\ stage' = "none"
        /\ staged' = EmptyDir
     \/ /\ ServerWrites \/ ServerStages
        /\ UNCHANGED <<stage, staged>>
  /\ UNCHANGED <<update_state, firmware_save_ok, run_mode, sHeader, recv, cacheOpen, step,
                 rebootTask, bootVars>>

\* The loop of the environment ends when update.flag exists, and the package is tried.
UBootLeaves ==
  /\ phase = "download"
  /\ flag
  /\ phase' = "uboot"
  /\ UNCHANGED <<vars, rcFile, harm>>
-----------------------------------------------------------------------------
(***************************************************************************)
(* check_download of apps.rc                                               *)
(***************************************************************************)
RcNothingToDo ==
  /\ phase = "rc"
  /\ ~flag
  /\ phase' = "app"
  /\ UNCHANGED <<vars, rcFile, harm>>

\* The cut came between rm -rf and mkdir of a request: no directory at all.
RcNoDirectory ==
  /\ phase = "rc"
  /\ flag
  /\ fw = EmptyDir
  /\ flag' = FALSE
  /\ stage' = "none"
  /\ staged' = EmptyDir
  /\ phase' = "app"
  /\ UNCHANGED <<fw, boot, disk, update_state, firmware_save_ok, run_mode, sHeader,
                 recv, cacheOpen, step, rebootTask, rcFile, harm>>

\* Mutant: rm -f update.flag before the loop instead of behind it.
RcStartForgets ==
  /\ phase = "rc"
  /\ flag
  /\ flag' = FALSE
  /\ phase' = "copy"
  /\ rcFile' = 1
  /\ UNCHANGED <<fw, boot, disk, appVars, harm>>

RcStart ==
  /\ phase = "rc"
  /\ flag
  /\ phase' = "copy"
  /\ rcFile' = 1
  /\ UNCHANGED <<vars, harm>>

RcSkip ==
  /\ phase = "copy"
  /\ rcFile \in Files
  /\ fw[rcFile] = Absent
  /\ rcFile' = rcFile + 1
  /\ UNCHANGED <<vars, phase, harm>>

\* cp -f truncates the target before it writes.
RcCopyOpen ==
  /\ phase = "copy"
  /\ rcFile \in Files
  /\ fw[rcFile] # Absent
  /\ boot' = [boot EXCEPT ![rcFile] = SubSeq(fw[rcFile], 1, 1)]
  /\ phase' = "copying"
  /\ UNCHANGED <<fw, flag, disk, appVars, rcFile, harm>>

RcCopyDone ==
  /\ phase = "copying"
  /\ boot' = [boot EXCEPT ![rcFile] = fw[rcFile]]
  /\ phase' = "copy"
  /\ rcFile' = rcFile + 1
  /\ UNCHANGED <<fw, flag, disk, appVars, harm>>

\* The script does not look at the exit status of cp.
RcCopyFails ==
  /\ phase = "copying"
  /\ phase' = "copy"
  /\ rcFile' = rcFile + 1
  /\ harm' = harm \cup {"copy failed"}
  /\ UNCHANGED vars

LoopLeavesLast == rcFile = FileCount        \* mutant: the last file is forgotten
LoopDone       == rcFile = FileCount + 1

FlagNotRemoved == UNCHANGED <<flag, stage, staged>>   \* mutant: no rm
FlagRemoved ==
  /\ flag' = FALSE
  /\ stage' = "none"
  /\ staged' = EmptyDir

RcRemoveFlag ==
  /\ phase = "copy"
  /\ LoopDone
  /\ FlagRemoved
  /\ phase' = "rmdone"
  /\ UNCHANGED <<fw, boot, disk, update_state, firmware_save_ok, run_mode, sHeader,
                 recv, cacheOpen, step, rebootTask, rcFile, harm>>

\* reboot(8): init syncs the disks.
RcReboot ==
  /\ phase = "rmdone"
  /\ Sync
  /\ phase' = "uboot"
  /\ rcFile' = 1
  /\ UNCHANGED <<fw, flag, boot, appVars, harm>>

Rc == \/ RcNothingToDo \/ RcNoDirectory \/ RcStart \/ RcSkip \/ RcCopyOpen
      \/ RcCopyDone \/ RcCopyFails \/ RcRemoveFlag \/ RcReboot
-----------------------------------------------------------------------------
(***************************************************************************)
(* Resets.  Neither reboot(2) nor a power cut writes the page cache back:  *)
(* what was not synced may be lost, file by file.                          *)
(***************************************************************************)
\* What survives is as good as what was cached: either the flag is there and
\* firmware/ is what the flag stands for, so that the copy is made (again); or
\* there is no flag and the boot partition has lost nothing.
Survives(m) ==
  IF m.flag THEN m.fw = fw /\ (flag \/ phase = "rmdone")
            ELSE m.boot = boot

HarmOf(m) ==
  (IF Survives(m) THEN {} ELSE {"lost writes"})
  \cup (IF m.flag /\ stage = "wiping" /\ m.fw \notin {staged, EmptyDir}
        THEN {"cut in rm"} ELSE {})
  \cup (IF ~Whole(m.boot[BootBin]) THEN {"cut in BOOT.BIN"} ELSE {})

ResetTo(m) ==
  /\ fw' = m.fw
  /\ flag' = m.flag
  /\ boot' = m.boot
  /\ disk' = m
  /\ update_state' = UPDATE_STAT_NO_START
  /\ firmware_save_ok' = 0
  /\ run_mode' = 1
  /\ sHeader' = NoImage
  /\ recv' = <<>>
  /\ cacheOpen' = FALSE
  /\ step' = Idle
  /\ rebootTask' = "none"
  /\ IF m.flag /\ m = Cached
     THEN UNCHANGED <<stage, staged>>
     ELSE stage' = "none" /\ staged' = EmptyDir   \* no longer accounted for
  /\ phase' = "uboot"
  /\ rcFile' = 1
  /\ harm' = harm \cup HarmOf(m)

Survived ==
  [fw : SurvivingDirs(disk.fw, fw), flag : {disk.flag, flag},
   boot : SurvivingDirs(disk.boot, boot)]

Reset == \E m \in Survived : ResetTo(m)

PowerCut  == phase # "dead" /\ Reset
AppReboot == phase = "app" /\ rebootTask = "synced" /\ Reset

App ==
  /\ phase = "app"
  /\ AppNext
  /\ harm' = IF EmptySave THEN harm \cup {"empty save"} ELSE harm
  /\ UNCHANGED <<phase, rcFile>>

UBootNext == UBoot \/ UBootServes \/ UBootLeaves

Next == App \/ UBootNext \/ Rc \/ AppReboot \/ PowerCut

SystemSpec == SystemInit /\ [][Next]_allVars
-----------------------------------------------------------------------------
(***************************************************************************)
(* Properties                                                              *)
(***************************************************************************)
\* Unless one of the events of Harms happened, the device never ends up
\* with a boot file it cannot start from, whatever the clients sent and
\* whenever the power was cut.
DeadOnlyByHarm == phase = "dead" => harm # {}

\* The write-ahead rule the start-up script relies on: while a file of the boot
\* partition is cut short, update.flag and a complete copy of that file in
\* firmware/ are durable, so that the next boot makes the copy again.
CopyIsRedoable ==
  harm = {} =>
    \A f \in Files : ~Whole(boot[f]) => disk.flag /\ flag /\ Whole(fw[f]) /\ disk.fw[f] = fw[f]

\* update.flag is given up by the start-up script only when every staged file
\* has reached the boot partition.
InstalledBeforeFlagGone ==
  phase = "rmdone" /\ harm = {} => \A f \in Files : fw[f] # Absent => boot[f] = fw[f]

\* A reset that loses what the upgrade needed of the page cache.
WritesLost == \E m \in Survived : ResetTo(m) /\ ~Survives(m)

\* A power cut in the middle of a request's rm: update.flag stays, for what rm has left.
CutInRemoval == \E m \in Survived : ResetTo(m) /\ "cut in rm" \in HarmOf(m)

\* A reset brings update.flag back for the package it stood for: the removal of the flag
\* was not written back, or rm of a request had not removed any file yet.
FlagComesBack ==
  /\ \E m \in Survived : ResetTo(m)
  /\ flag' /\ fw' = fw
  /\ phase = "rmdone" \/ (step.at = "wipe" /\ fw = staged)

\* update.flag is the lock of firmware/ for all four programs, from one boot to the next:
\* where it appears it stands for complete files, and what it protects is only taken back
\* whole, by the app, the server of u-boot and the script.  A reset may bring it back for
\* the same files.  Three events break the lock: a reset that loses writes, a power cut in
\* the middle of a request's rm, and an empty save.
SystemFlagFreezes ==
  [][\/ Staged!Stage /\ ~flag
     \/ Staged!Withdraw
     \/ UNCHANGED (IF flag /\ step.at # "wipe" THEN fw ELSE EmptyDir)
     \/ FlagComesBack
     \/ WritesLost \/ CutInRemoval \/ EmptySave]_allVars

\* The state of AtomicUpgrade: what the next boot would run, and the package that
\* a reboot of the app would have adopted.
NoPackage == <<>>
Installed == IF flag /\ phase # "app" THEN Overlay(fw, boot) ELSE boot
Offered   == IF flag /\ phase = "app" /\ stage # "none" THEN staged ELSE NoPackage

Atomic == INSTANCE AtomicUpgrade WITH
  Packages  <- Directories,
  None      <- NoPackage,
  OverlayOf <- Overlay,
  installed <- Installed,
  offer     <- Offered,
  broken    <- harm # {}

\* Power cuts, resets and half-made copies are invisible: the system the next
\* boot would run goes from one complete set of files to the next in one step,
\* and the package adopted is the one that was offered, unless harm was done.
UpgradeIsAtomic == Atomic!AtomicSpec
-----------------------------------------------------------------------------
(***************************************************************************)
(* The installation alone: a staged package, no client, any number of      *)
(* power cuts.  u-boot and the script run whenever the device has power.   *)
(***************************************************************************)
InstallInit ==
  /\ \E img \in Images, part \in SUBSET Files :
       fw = [f \in Files |-> IF f \in part THEN <<img, img>> ELSE Absent]
  /\ flag = TRUE
  /\ boot = Delivered
  /\ disk = Cached
  /\ AppStart
  /\ stage = "whole"
  /\ staged = fw
  /\ phase = "uboot"
  /\ rcFile = 1
  /\ harm = {}

InstallNext == UBootNext \/ Rc \/ PowerCut

InstallSpec ==
  /\ InstallInit
  /\ [][InstallNext]_allVars
  /\ WF_allVars(UBoot)
  /\ WF_allVars(Rc)

\* Once the power stays on, the device gets out of the installation: it does
\* not reboot for ever into a script that finds update.flag set again.
PowerStaysOn == <>[][phase' = "uboot" => RcReboot]_allVars
InstallEnds  == PowerStaysOn => <>[](phase \in {"app", "dead", "download"})

\* How many steps the boot loader and the script still need until the app runs, at most.
InstallRank ==
  CASE phase \in {"app", "download", "dead"} -> 0
    [] phase = "rc"      -> IF flag THEN 2 * FileCount + 5 ELSE 1
    [] phase = "uboot"   -> IF flag THEN 2 * FileCount + 6 ELSE 2
    [] phase = "rmdone"  -> 3
    [] phase = "copy"    -> 2 * (FileCount + 1 - rcFile) + 4
    [] phase = "copying" -> 2 * (FileCount + 1 - rcFile) + 3

\* Between two power cuts the installation only gets nearer to its end, failed copies
\* and the reboot in the middle of it included: the script never comes to where it has
\* been, and what it does after its reboot does not start the installation again.
InstallAdvances == [][UBoot \/ Rc => InstallRank' < InstallRank]_allVars

\* Where it ends, every file of the package has reached the boot partition,
\* however often the copy was cut: no cut makes the device forget the package.
InstallIsComplete ==
  phase = "app" /\ harm = {} => \A f \in Files : fw[f] # Absent => boot[f] = fw[f]
==============================================================================
