----------------------------- MODULE AppUpgrade -----------------------------
(***************************************************************************)
(* The firmware upgrade commands of the app (alink_upgrade.c, firmware.c). *)
(*                                                                         *)
(* Every handler runs under the mutex of alink_order_task, so handlers of  *)
(* different connections never overlap: a handler that touches no file is  *)
(* one action.  UPGRADE request (rm -rf of firmware/) and WRITE (one file  *)
(* after the other) change the disk in several steps and are split there,  *)
(* because the reboot thread and a power cut do not wait for the mutex.    *)
(*                                                                         *)
(* Writing may fail (a full disk); reading cache.bin back, and removing a  *)
(* file or an empty directory, are taken to succeed.  A package names each *)
(* file once, in the order of Files.                                       *)
(***************************************************************************)
EXTENDS OtaDisk

CONSTANTS WRITE_FAIL_RETRY_CNT,  \* bound of the loop in firmware_write
          BufferUnits            \* FIRMWARE_BUFFER_SIZE, in units

ASSUME AppAssumption ==
  /\ WRITE_FAIL_RETRY_CNT \in Nat
  /\ BufferUnits \in Nat
  /\ BufferUnits >= 2 * FileCount

UPDATE_STAT_NO_START       == 0
UPDATE_STAT_REQUEST        == 1
UPDATE_STAT_DOWNLOAD_IMAGE == 2
UPDATE_STAT_CHECK          == 3
UPDATE_STAT_WRITE_IMAGE    == 4
UPDATE_STAT_WAIT_REBOOT    == 5

NoImage == Factory   \* header of the zeroed firmware_info_t: no client sends it

VARIABLES update_state,
          firmware_save_ok,
          run_mode,      \* 1 app running, 0 "boot mode"
          sHeader,       \* image the accepted header describes, or NoImage
          recv,          \* cache.bin: the image each received unit came from
          cacheOpen,     \* cache_file_fd >= 0
          step,          \* the handler that is between two disk changes
          rebootTask,    \* auto_reboot_task: "none", "sleep" or "synced"
          stage,         \* history: what has become of the last staged package
          staged         \* history: firmware/ when update.flag was created

appVars == <<update_state, firmware_save_ok, run_mode, sHeader, recv, cacheOpen,
             step, rebootTask, stage, staged>>
vars == <<otaVars, appVars>>

uOffset == Len(recv)
Idle    == [at |-> "idle"]
Steps   == {Idle} \cup [at : {"wipe"}, img : Images] \cup [at : {"save"}, file : Nat]
                  \cup [at : {"flag"}]

\* Types; in particular the cache never holds more than the buffer (firmware_recv_data).
TypeOK ==
  /\ OtaTypeOK
  /\ update_state \in 0..5
  /\ firmware_save_ok \in {0, 1}
  /\ run_mode \in {0, 1}
  /\ sHeader \in Builds
  /\ recv \in Seq(Images) /\ Len(recv) <= BufferUnits
  /\ cacheOpen \in BOOLEAN
  /\ step \in Steps
  /\ rebootTask \in {"none", "sleep", "synced"}
  /\ stage \in {"none", "whole", "wiping"}
  /\ staged \in Directories

\* alink_upgrade_init and the static initialisers: a freshly started app.
AppStart ==
  /\ update_state = UPDATE_STAT_NO_START
  /\ firmware_save_ok = 0
  /\ run_mode = 1
  /\ sHeader = NoImage
  /\ recv = <<>>
  /\ cacheOpen = FALSE
  /\ step = Idle
  /\ rebootTask = "none"

Init ==
  /\ OtaInit
  /\ AppStart
  /\ stage = "none"
  /\ staged = EmptyDir
-----------------------------------------------------------------------------
(***************************************************************************)
(* firmware.c                                                              *)
(***************************************************************************)

\* firmware_recv_data: a chunk must continue what was received, and fit; the
\* length in the header is not consulted.
Fits(imageOffset, n) ==
  /\ imageOffset = uOffset
  /\ uOffset + n <= BufferUnits

\* Mutant: the CRC of whatever was received, however much that is.
CheckOfAnyLength == sHeader # NoImage /\ \A i \in 1..uOffset : recv[i] = sHeader

\* firmware_check: a valid header, all of its length received, and its CRC
\* (taken to identify the bytes).
firmware_check ==
  /\ sHeader # NoImage
  /\ uOffset = 2 * FileCount
  /\ \A i \in 1..uOffset : recv[i] = sHeader

\* The record that starts at file k of the package, as far as it was received.
Record(k) == SubSeq(recv, 2 * k - 1, 2 * k)

\* File k of the loop in firmware_write can be parsed: the loop is still
\* running and both units of the record lie below uOffset.
Parses(k) ==
  /\ cacheOpen
  /\ k <= WRITE_FAIL_RETRY_CNT
  /\ 2 * k <= uOffset

\* firmware_write ends by closing cache.bin, whatever the outcome.
CacheLeftOpen == UNCHANGED cacheOpen   \* mutant
CloseCache    == cacheOpen' = FALSE

\* firmware_set_upgrade_flag(false)
FlagLeftSet == UNCHANGED <<flag, stage, staged>>   \* mutant
ClearFlag ==
  /\ flag' = FALSE
  /\ stage' = "none"
  /\ staged' = EmptyDir

LoopEnded(k) == ~Parses(k)   \* mutant: whatever ends the loop is success

\* The loop has consumed every received unit when it is about to start file k.
Consumed(k) == 2 * (k - 1) = uOffset
-----------------------------------------------------------------------------
(***************************************************************************)
(* The request: rm -rf firmware/, a new cache.bin, a new header.           *)
(***************************************************************************)
RequestUpgrade(img) ==
  /\ step = Idle
  /\ update_state # UPDATE_STAT_WAIT_REBOOT
  /\ step' = [at |-> "wipe", img |-> img]
  /\ stage' = IF stage = "whole" THEN "wiping" ELSE stage
  /\ UNCHANGED <<otaVars, update_state, firmware_save_ok, run_mode, sHeader, recv,
                 cacheOpen, rebootTask, staged>>

\* rm removes the files in directory order, which nothing fixes.
WipeFile(f) ==
  /\ step.at = "wipe"
  /\ fw[f] # Absent
  /\ fw' = [fw EXCEPT ![f] = Absent]
  /\ UNCHANGED <<flag, boot, disk, appVars>>

RequestDone(opened) ==
  /\ step.at = "wipe"
  /\ fw = EmptyDir
  /\ step' = Idle
  /\ IF opened
     THEN /\ sHeader' = step.img
          /\ recv' = <<>>
          /\ cacheOpen' = TRUE
          /\ update_state' = UPDATE_STAT_REQUEST
     ELSE UNCHANGED <<sHeader, recv, cacheOpen, update_state>>
  /\ UNCHANGED <<otaVars, firmware_save_ok, run_mode, rebootTask, stage, staged>>

\* One chunk: n units of image img at imageOffset, or refused (no change).
DownloadImage(img, imageOffset, n) ==
  /\ step = Idle
  /\ update_state \in {UPDATE_STAT_REQUEST, UPDATE_STAT_DOWNLOAD_IMAGE}
  /\ Fits(imageOffset, n)
  /\ cacheOpen
  /\ recv' = recv \o [i \in 1..n |-> img]
  /\ update_state' = UPDATE_STAT_DOWNLOAD_IMAGE
  /\ UNCHANGED <<otaVars, firmware_save_ok, run_mode, sHeader, cacheOpen, step,
                 rebootTask, stage, staged>>

CheckImage ==
  /\ step = Idle
  /\ firmware_check
  /\ update_state' = UPDATE_STAT_CHECK
  /\ UNCHANGED <<otaVars, firmware_save_ok, run_mode, sHeader, recv, cacheOpen,
                 step, rebootTask, stage, staged>>
-----------------------------------------------------------------------------
(***************************************************************************)
(* WRITE: remove update.flag, write the files, create update.flag.         *)
(***************************************************************************)
WriteImage ==
  /\ step = Idle
  /\ update_state >= UPDATE_STAT_DOWNLOAD_IMAGE
  /\ ClearFlag
  /\ update_state' = UPDATE_STAT_WRITE_IMAGE
  /\ step' = [at |-> "save", file |-> 1]
  /\ UNCHANGED <<fw, boot, disk, firmware_save_ok, run_mode, sHeader, recv, cacheOpen,
                 rebootTask>>

SaveFile ==
  /\ step.at = "save"
  /\ Parses(step.file)
  /\ step.file \in Files
  /\ fw' = [fw EXCEPT ![step.file] = Record(step.file)]
  /\ step' = [step EXCEPT !.file = @ + 1]
  /\ UNCHANGED <<flag, boot, disk, update_state, firmware_save_ok, run_mode, sHeader, recv,
                 cacheOpen, rebootTask, stage, staged>>

\* The disk is full: the file is created and cut short.  file_offset already
\* points past the record's header, so the next pass reads the file's bytes as
\* a record and gives up: the loop bound is no retry.
SaveFileShort ==
  /\ step.at = "save"
  /\ Parses(step.file)
  /\ step.file \in Files
  /\ fw' = [fw EXCEPT ![step.file] = SubSeq(Record(step.file), 1, 1)]
  /\ CloseCache
  /\ step' = Idle
  /\ UNCHANGED <<flag, boot, disk, update_state, firmware_save_ok, run_mode, sHeader, recv,
                 rebootTask, stage, staged>>

\* firmware_write returns false: no (more) record can be read, or open failed.
SaveFails ==
  /\ step.at = "save"
  /\ ~Consumed(step.file)
  /\ CloseCache
  /\ step' = Idle
  /\ UNCHANGED <<otaVars, update_state, firmware_save_ok, run_mode, sHeader, recv,
                 rebootTask, stage, staged>>

SaveSucceeds ==
  /\ step.at = "save"
  /\ Consumed(step.file)
  /\ CloseCache
  /\ step' = [at |-> "flag"]
  /\ UNCHANGED <<otaVars, update_state, firmware_save_ok, run_mode, sHeader, recv,
                 rebootTask, stage, staged>>

\* firmware_set_upgrade_flag(true): open may fail, and the six bytes may not be
\* written into a file that exists by then.
SetFlag(created, written) ==
  /\ step.at = "flag"
  /\ step' = Idle
  /\ IF created
     THEN /\ flag' = TRUE
          /\ stage' = "whole"
          /\ staged' = fw
     ELSE UNCHANGED <<flag, stage, staged>>
  /\ firmware_save_ok' = IF created /\ written THEN 1 ELSE firmware_save_ok
  /\ UNCHANGED <<fw, boot, disk, update_state, run_mode, sHeader, recv, cacheOpen, rebootTask>>

\* firmware_write has nothing to do when no unit was received, and returns true:
\* GOTO APP and then WRITE, right after the start, create update.flag for
\* whatever an earlier package or an interrupted WRITE left in firmware/.
EmptySave == step.at = "flag" /\ step' = Idle /\ flag' /\ recv = <<>> /\ fw # EmptyDir

\* The status reply of WRITE STATUS (it changes nothing).
WriteStatus ==
  CASE update_state # UPDATE_STAT_WRITE_IMAGE -> "UPDATE_RET_STATUS_ERROR"
    [] firmware_save_ok = 1                   -> "UPDATE_RET_COMPLETE"
    [] OTHER                                  -> "UPDATE_RET_ERROR"
-----------------------------------------------------------------------------
(***************************************************************************)
(* Reboot                                                                  *)
(***************************************************************************)
GotoApp ==
  /\ step = Idle
  /\ update_state' = UPDATE_STAT_WAIT_REBOOT
  /\ firmware_save_ok' = 0
  /\ rebootTask' = IF rebootTask = "none" THEN "sleep" ELSE rebootTask
  /\ UNCHANGED <<otaVars, run_mode, sHeader, recv, cacheOpen, step, stage, staged>>

RebootSystem ==
  /\ step = Idle
  /\ run_mode' = 0
  /\ UNCHANGED <<otaVars, update_state, firmware_save_ok, sHeader, recv, cacheOpen,
                 step, rebootTask, stage, staged>>

\* auto_reboot_task wakes up after its three seconds, without the mutex.
RebootSync ==
  /\ rebootTask = "sleep"
  /\ rebootTask' = "synced"
  /\ Sync
  /\ UNCHANGED <<fw, flag, boot, update_state, firmware_save_ok, run_mode, sHeader, recv,
                 cacheOpen, step, stage, staged>>

Command ==
  \/ \E img \in Images : RequestUpgrade(img)
  \/ \E img \in Images, off \in 0..BufferUnits, n \in 0..1 : DownloadImage(img, off, n)
  \/ CheckImage
  \/ WriteImage
  \/ GotoApp
  \/ RebootSystem

HandlerStep ==
  \/ \E f \in Files : WipeFile(f)
  \/ \E opened \in BOOLEAN : RequestDone(opened)
  \/ SaveFile
  \/ SaveFileShort
  \/ SaveFails
  \/ SaveSucceeds
  \/ \E created, written \in BOOLEAN : SetFlag(created, written)

AppNext == Command \/ HandlerStep \/ RebootSync

AppSpec == Init /\ [][AppNext]_vars
-----------------------------------------------------------------------------
(***************************************************************************)
(* Properties                                                              *)
(***************************************************************************)
\* While update.flag exists the staged package is the one the flag was created
\* for: a file of it may be missing once a new request has begun to remove them,
\* but no file is ever replaced, cut short or left over from another package.
StageIsKept ==
  /\ stage = "whole" => flag /\ fw = staged
  /\ stage = "wiping" => flag /\ \A f \in Files : fw[f] \in {Absent, staged[f]}

\* firmware_write opens its files without O_TRUNC: it must never meet an older
\* file, whose tail would survive behind the new bytes.
NoStaleTail ==
  step.at = "save" /\ cacheOpen => \A f \in Files : f >= step.file => fw[f] = Absent

\* After a CHECK was answered OK, the cache holds exactly the image of the
\* accepted header until the next request or WRITE.
CheckedImage ==
  update_state = UPDATE_STAT_CHECK =>
    /\ sHeader # NoImage
    /\ Len(recv) = 2 * FileCount
    /\ \A i \in 1..Len(recv) : recv[i] = sHeader

\* When update.flag appears, firmware/ holds what was received, every record of it and
\* nothing else: neither a file of an earlier package nor one that was cut short.  Where
\* nothing was received WRITE sets the flag for whatever there is.
StagedIsReceived ==
  [][~flag /\ flag' /\ recv # <<>> =>
       fw = [f \in Files |-> IF 2 * f <= uOffset THEN SubSeq(recv, 2 * f - 1, 2 * f)
                                                 ELSE Absent]]_vars

\* The package of StagedPackage: firmware/ while update.flag exists, until a new
\* request begins to remove it.
Staged == INSTANCE StagedPackage WITH
  Possible <- Directories,
  Complete <- Packages,
  None     <- EmptyDir,
  package  <- IF flag /\ step.at # "wipe" THEN fw ELSE EmptyDir

\* What update.flag protects is complete when the flag appears, and no handler, no failed
\* WRITE and no reboot thread changes a file of it: it is taken back whole.  An empty
\* save alone creates the flag for what may be incomplete.
AppFlagFreezes ==
  /\ Staged!StagedInit
  /\ [][\/ Staged!Stage /\ ~flag
        \/ Staged!Withdraw
        \/ UNCHANGED (IF flag /\ step.at # "wipe" THEN fw ELSE EmptyDir)
        \/ EmptySave]_vars
=============================================================================
