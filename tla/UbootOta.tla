------------------------------ MODULE UbootOta ------------------------------
(***************************************************************************)
(* The upgrade server of the boot loader (the OTA command): upgrade.c and  *)
(* firmware.c of 0003-add-OTA.patch as changed by 0005, run by the         *)
(* download loop of the u-boot environment.                                *)
(*                                                                         *)
(* u-boot is single threaded: the net loop answers one command, then       *)
(* OTA_process writes at most one file.  So a package is written while     *)
(* commands keep coming in, and the session may end between two files.     *)
(*                                                                         *)
(* Removing is taken to succeed: the code ignores a failed fs_opendir or   *)
(* fs_unlink, of update.flag and in firmware/ alike, and goes on, so that  *)
(* the flag or older files may stay where the file system is damaged.      *)
(* Nothing here says what the server does then.                            *)
(***************************************************************************)
EXTENDS OtaDisk

CONSTANTS WRITE_FAIL_RETRY_CNT,
          BufferUnits,            \* FIRMWARE_BUFFER_SIZE, in units
          Found                   \* what may be on the disk when the server is started

ASSUME UbootAssumption ==
  /\ WRITE_FAIL_RETRY_CNT \in Nat
  /\ BufferUnits \in Nat
  /\ Found \subseteq Media

UPDATE_STAT_NO_START       == 0
UPDATE_STAT_REQUEST        == 1
UPDATE_STAT_DOWNLOAD_IMAGE == 2
UPDATE_STAT_CHECK          == 3
UPDATE_STAT_WRITE_IMAGE    == 4

Statuses == {"UNKNOWN", "OK", "ERROR", "COMPLETE", "STATUS_ERROR"}
NoImage  == Factory   \* header of the zeroed firmware_info_t: no client sends it

VARIABLES session,              \* the OTA command: "off", "on" or "left" for booting
          update_state,
          firmware_check_over,  \* 1 when a CHECK succeeded since the last request
          sHeader,              \* image the accepted header describes
          recv,                 \* the received units, in memory
          start_write,
          write_step,           \* 0 to clear firmware/, 1 writing (1..99 %), 100 done
          file_offset,          \* of the writer, in units
          write_fail,
          write_fail_retry,
          status                \* byStatus of the last reply

serverVars == <<update_state, firmware_check_over, sHeader, recv>>
writerVars == <<start_write, write_step, file_offset, write_fail, write_fail_retry>>
ubootVars  == <<otaVars, session, serverVars, writerVars, status>>

uOffset == Len(recv)

\* Types; in particular what is received fits the buffer, and the writer stays in it.
UbootTypeOK ==
  /\ OtaTypeOK
  /\ session \in {"off", "on", "left"}
  /\ update_state \in 0..4
  /\ firmware_check_over \in {0, 1}
  /\ sHeader \in Builds
  /\ recv \in Seq(Images) /\ uOffset <= BufferUnits
  /\ start_write \in {0, 1}
  /\ write_step \in {0, 1, 100}
  /\ file_offset \in 0..BufferUnits
  /\ write_fail \in {0, 1}
  /\ write_fail_retry \in 0..WRITE_FAIL_RETRY_CNT
  /\ status \in Statuses

\* The server is needed because the boot partition lost its files, or because
\* the package staged in firmware/ did not boot.
UbootInit ==
  /\ \E m \in Found : fw = m.fw /\ flag = m.flag /\ boot = m.boot
  /\ disk = Cached
  /\ session = "off"
  /\ update_state = UPDATE_STAT_NO_START
  /\ firmware_check_over = 0
  /\ sHeader = NoImage
  /\ recv = <<>>
  /\ start_write = 0
  /\ write_step = 0
  /\ file_offset = 0
  /\ write_fail = 0
  /\ write_fail_retry = 0
  /\ status = "UNKNOWN"
-----------------------------------------------------------------------------
\* OTA_start: alink_init resets the server and not the writer.
OTA_start ==
  /\ session = "off"
  /\ session' = "on"
  /\ update_state' = UPDATE_STAT_NO_START
  /\ firmware_check_over' = 0
  /\ sHeader' = NoImage
  /\ recv' = <<>>
  /\ UNCHANGED <<otaVars, writerVars, status>>

LeaveAnyway == session' = "left"   \* mutant: OTA is started only once

\* The loop of the environment starts OTA again until update.flag exists.
LeaveOTA == session' = IF flag THEN "left" ELSE "off"

\* The connection fails or times out, or the client leaves.
SessionEnds ==
  /\ session = "on"
  /\ LeaveOTA
  /\ UNCHANGED <<otaVars, serverVars, writerVars, status>>

\* GOTO APP only closes the connection: the loop of the environment goes on.
GotoApp ==
  /\ session = "on"
  /\ LeaveOTA
  /\ update_state' = UPDATE_STAT_NO_START
  /\ status' = "OK"
  /\ UNCHANGED <<otaVars, firmware_check_over, sHeader, recv, writerVars>>

SetReboot ==
  /\ session = "on"
  /\ update_state' = UPDATE_STAT_NO_START
  /\ status' = "UNKNOWN"   \* the default reply of alink_handler
  /\ UNCHANGED <<otaVars, session, firmware_check_over, sHeader, recv, writerVars>>

RequestUpgrade(img) ==
  /\ session = "on"
  /\ sHeader' = img
  /\ recv' = <<>>
  /\ update_state' = UPDATE_STAT_REQUEST
  /\ firmware_check_over' = 0
  /\ status' = "OK"
  /\ UNCHANGED <<otaVars, session, writerVars>>

\* A request with a bad header still forgets that the image was checked.
RequestRefused ==
  /\ session = "on"
  /\ firmware_check_over' = 0
  /\ status' = "ERROR"
  /\ UNCHANGED <<otaVars, session, update_state, sHeader, recv, writerVars>>

Downloading == update_state \in {UPDATE_STAT_REQUEST, UPDATE_STAT_DOWNLOAD_IMAGE}

Fits(imageOffset, n) ==
  /\ imageOffset = uOffset
  /\ uOffset + n <= BufferUnits

DownloadImage(img, imageOffset, n) ==
  /\ session = "on"
  /\ Downloading
  /\ Fits(imageOffset, n)
  /\ recv' = recv \o [i \in 1..n |-> img]
  /\ update_state' = UPDATE_STAT_DOWNLOAD_IMAGE
  /\ status' = "OK"
  /\ UNCHANGED <<otaVars, session, firmware_check_over, sHeader, writerVars>>

\* A chunk that is late, sent again, too long or out of season.
DownloadRefused(imageOffset, n) ==
  /\ session = "on"
  /\ ~(Downloading /\ Fits(imageOffset, n))
  /\ status' = IF Downloading THEN "ERROR" ELSE "STATUS_ERROR"
  /\ UNCHANGED <<otaVars, session, serverVars, writerVars>>

firmware_check ==
  /\ sHeader # NoImage
  /\ uOffset = 2 * FileCount
  /\ \A i \in 1..uOffset : recv[i] = sHeader

CheckImage ==
  /\ session = "on"
  /\ LET fresh == update_state = UPDATE_STAT_DOWNLOAD_IMAGE
         good  == fresh /\ firmware_check_over = 0 /\ firmware_check
     IN /\ status' = CASE ~fresh -> "STATUS_ERROR"
                       [] fresh /\ (good \/ firmware_check_over = 1) -> "OK"
                       [] OTHER -> "ERROR"
        /\ firmware_check_over' = IF good THEN 1 ELSE firmware_check_over
        /\ update_state' = IF good THEN UPDATE_STAT_CHECK ELSE update_state
  /\ UNCHANGED <<otaVars, session, sHeader, recv, writerVars>>

FlagKept == UNCHANGED flag   \* mutant: update.flag survives WRITE

\* firmware_set_upgrade_flag(false) returns true whether or not FIRMWARE_SET_FS_TYPE and
\* fs_unlink succeed; here they do.
ClearFlag == flag' = FALSE

WriteImage ==
  /\ session = "on"
  /\ update_state >= UPDATE_STAT_DOWNLOAD_IMAGE
  /\ ClearFlag
  /\ start_write' = 1
  /\ write_step' = 0
  /\ write_fail' = 0
  /\ write_fail_retry' = WRITE_FAIL_RETRY_CNT
  /\ update_state' = UPDATE_STAT_WRITE_IMAGE
  /\ status' = "OK"
  /\ UNCHANGED <<fw, boot, session, firmware_check_over, sHeader, recv, file_offset>>
  /\ WriteThrough

WriteBegun == write_fail = 0 /\ write_step > 0     \* mutant: done before 100 %
WriteOver  == write_fail = 0 /\ write_step = 100

\* WRITE STATUS ends a finished write: only now update.flag is created.
WriteStatus(written) ==
  /\ session = "on"
  /\ update_state = UPDATE_STAT_WRITE_IMAGE
  /\ status' = CASE write_fail = 1 -> "ERROR"
                 [] WriteOver /\ ~written -> "ERROR"
                 [] WriteOver /\ written -> "COMPLETE"
                 [] OTHER -> "OK"
  /\ IF WriteOver
     THEN /\ start_write' = 0
          /\ write_step' = 0
          /\ write_fail' = 0
          /\ flag' = written
          /\ update_state' = UPDATE_STAT_NO_START
     ELSE UNCHANGED <<start_write, write_step, write_fail, flag, update_state>>
  /\ UNCHANGED <<fw, boot, session, firmware_check_over, sHeader, recv, file_offset,
                 write_fail_retry>>
  /\ WriteThrough

\* WRITE and WRITE STATUS in a state that refuses them.
WriteRefused ==
  /\ session = "on"
  /\ \/ update_state < UPDATE_STAT_DOWNLOAD_IMAGE
     \/ update_state # UPDATE_STAT_WRITE_IMAGE
  /\ status' = "STATUS_ERROR"
  /\ UNCHANGED <<otaVars, session, serverVars, writerVars>>
-----------------------------------------------------------------------------
(***************************************************************************)
(* OTA_process: one step of firmware_write between two packets.            *)
(***************************************************************************)
Writing == session = "on" /\ start_write = 1 /\ write_fail = 0

\* Mutant: a write goes on where the one before it stopped.
WriteClearGoesOn ==
  /\ Writing
  /\ write_step = 0
  /\ fw' = EmptyDir
  /\ write_step' = 1
  /\ write_fail_retry' = WRITE_FAIL_RETRY_CNT
  /\ UNCHANGED <<flag, boot, session, serverVars, start_write, write_fail, file_offset, status>>
  /\ WriteThrough

\* clear_dirent(FIRMWARE_DIR) returns 0 also when firmware/ cannot be opened or a file of
\* it cannot be removed; here all of them are removed.
WriteClear ==
  /\ Writing
  /\ write_step = 0
  /\ fw' = EmptyDir
  /\ write_step' = 1
  /\ file_offset' = 0
  /\ write_fail_retry' = WRITE_FAIL_RETRY_CNT
  /\ UNCHANGED <<flag, boot, session, serverVars, start_write, write_fail, status>>
  /\ WriteThrough

\* Mutant: the retries are not counted.
RetryForEver == UNCHANGED <<write_fail, write_fail_retry>>
RetryOrGiveUp ==
  IF write_fail_retry = 0
  THEN write_fail' = 1 /\ UNCHANGED write_fail_retry
  ELSE write_fail_retry' = write_fail_retry - 1 /\ UNCHANGED write_fail

\* The file system cannot be selected.
WriteClearFails ==
  /\ Writing
  /\ write_step = 0
  /\ RetryOrGiveUp
  /\ UNCHANGED <<otaVars, session, serverVars, start_write, write_step, file_offset, status>>

\* A record starts here: its header comes first, and all of it was received.
AtRecord    == file_offset % 2 = 0
RecordFits  == file_offset + 2 <= uOffset
RecordFile  == file_offset \div 2 + 1

WriteFile ==
  /\ Writing
  /\ write_step = 1
  /\ file_offset < uOffset
  /\ AtRecord /\ RecordFits
  /\ RecordFile \in Files
  /\ fw' = [fw EXCEPT ![RecordFile] = SubSeq(recv, file_offset + 1, file_offset + 2)]
  /\ file_offset' = file_offset + 2
  /\ write_step' = IF file_offset + 2 = uOffset THEN 100 ELSE 1
  /\ write_fail_retry' = WRITE_FAIL_RETRY_CNT
  /\ UNCHANGED <<flag, boot, session, serverVars, start_write, write_fail, status>>
  /\ WriteThrough

\* The three ways out: no record here, a record that is not all there, a failed
\* fs_write (the file is removed).  The last two leave file_offset behind the
\* record's header, where the next attempt finds no record.
WriteFails ==
  /\ Writing
  /\ write_step = 1
  /\ file_offset < uOffset
  /\ file_offset' = IF AtRecord THEN file_offset + 1 ELSE file_offset
  /\ fw' = IF AtRecord /\ RecordFits /\ RecordFile \in Files
           THEN [fw EXCEPT ![RecordFile] = Absent] ELSE fw
  /\ RetryOrGiveUp
  /\ UNCHANGED <<flag, boot, session, serverVars, start_write, write_step, status>>
  /\ WriteThrough

\* Nothing (left) to write and not done: the writer waits for ever.
WriteStalls ==
  /\ Writing
  /\ write_step = 1
  /\ file_offset >= uOffset
  /\ write_fail_retry' = WRITE_FAIL_RETRY_CNT
  /\ UNCHANGED <<otaVars, session, serverVars, start_write, write_step, file_offset,
                 write_fail, status>>

OTA_process == WriteClear \/ WriteClearFails \/ WriteFile \/ WriteFails \/ WriteStalls

UbootCommand ==
  \/ GotoApp
  \/ SetReboot
  \/ \E img \in Images : RequestUpgrade(img)
  \/ RequestRefused
  \/ \E img \in Images, off \in 0..BufferUnits, n \in 0..1 : DownloadImage(img, off, n)
  \/ \E off \in 0..BufferUnits, n \in 0..1 : DownloadRefused(off, n)
  \/ CheckImage
  \/ WriteImage
  \/ \E written \in BOOLEAN : WriteStatus(written)
  \/ WriteRefused

UbootNext == OTA_start \/ SessionEnds \/ UbootCommand \/ OTA_process

\* The net loop calls OTA_process in every round.
UbootSpec == UbootInit /\ [][UbootNext]_ubootVars /\ WF_ubootVars(OTA_process)
-----------------------------------------------------------------------------
(***************************************************************************)
(* Properties                                                              *)
(***************************************************************************)
\* The package of StagedPackage: firmware/ while update.flag exists.
Staged == INSTANCE StagedPackage WITH
  Possible <- Directories,
  Complete <- Packages,
  None     <- EmptyDir,
  package  <- IF flag THEN fw ELSE EmptyDir

\* update.flag protects a package: between two packages the flag is removed
\* first, and the writer, which outlives sessions and new requests, is never at
\* work while the flag is there.
FlagFreezesFirmware == Staged!StagedSpec

\* When update.flag appears, firmware/ holds what was received, all of it and
\* nothing else, although requests and downloads went on during the write.
FlagMeansReceived ==
  [][~flag /\ flag' =>
       fw = [f \in Files |-> IF 2 * f <= uOffset THEN SubSeq(recv, 2 * f - 1, 2 * f)
                                                 ELSE Absent]]_ubootVars

\* Whatever the clients send and whenever the session ends, the server does to the disk
\* only what the rest of the upgrade reckons with: nothing is written while update.flag
\* exists, and it is created for complete files only; and the loop of the environment is
\* left only with it.
ServesDisk ==
  /\ [][ServerRemovesFlag \/ ServerWrites \/ ServerStages]_otaVars
  /\ [](session = "left" => flag)

\* How many steps the writer may still take, at most: so many attempts for each unit
\* that is left, and before that to clear firmware/.
Attempts == WRITE_FAIL_RETRY_CNT + 1
WriteLeft ==
  CASE write_fail = 1 \/ write_step = 100 -> 0
    [] write_fail = 0 /\ write_step = 0 -> uOffset * Attempts + Attempts + write_fail_retry + 1
    [] OTHER -> (uOffset - file_offset) * Attempts + write_fail_retry + 1

\* A checked image is written or given up within a number of steps that depends on its
\* size alone: every round of the net loop brings the writer nearer to the end, failed
\* attempts and what is still in the state of an earlier write included, and it never
\* gets to where it waits for ever.
Unfinished == update_state = UPDATE_STAT_WRITE_IMAGE /\ firmware_check
WriteAdvances ==
  /\ [](Unfinished /\ write_step = 1 => file_offset < uOffset)
  /\ [][Unfinished /\ OTA_process => WriteLeft' < WriteLeft]_ubootVars

\* The client that asks WRITE STATUS learns the outcome: a checked image is
\* written or declared failed, unless the session ends or the client starts over.
WriteEnds ==
  <>[][~WriteImage]_ubootVars =>
    ((session = "on" /\ update_state = UPDATE_STAT_WRITE_IMAGE /\ firmware_check)
       ~> (write_step = 100 \/ write_fail = 1
             \/ update_state # UPDATE_STAT_WRITE_IMAGE \/ session # "on"))

\* "just check once if correct, save time" (upgrade_check_image): a CHECK sent
\* again after it succeeded is answered OK from firmware_check_over.
RepeatedCheckIsOK ==
  [][CheckImage /\ update_state = UPDATE_STAT_CHECK /\ firmware_check_over = 1
       => status' = "OK"]_ubootVars
==============================================================================
