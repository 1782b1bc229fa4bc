--------------------------- MODULE UbootOtaProofs ---------------------------
(***************************************************************************)
(* The upgrade server of u-boot implements StagedPackage and keeps the     *)
(* promise the whole upgrade relies on, for any number of builds and       *)
(* files, any bound of the retries and whatever is found on the disk.      *)
(***************************************************************************)
EXTENDS UbootOta, OtaDiskProofs

\* The writer is at work only while the flag is gone, and has something to show
\* when it says that it is done.
WriterInv ==
  /\ flag => start_write = 0
  /\ write_step # 0 => start_write = 1
  /\ write_step = 100 => fw # EmptyDir

UbootInv == UbootTypeOK /\ WriterInv

USE DEF UPDATE_STAT_NO_START, UPDATE_STAT_REQUEST, UPDATE_STAT_DOWNLOAD_IMAGE,
        UPDATE_STAT_CHECK, UPDATE_STAT_WRITE_IMAGE
-----------------------------------------------------------------------------
(***************************************************************************)
(* Types                                                                   *)
(***************************************************************************)
LEMMA EmptyRecv == <<>> \in Seq(Images) /\ Len(<<>>) <= BufferUnits
BY UbootAssumption

LEMMA ChunkType ==
  ASSUME recv \in Seq(Images), NEW img \in Images, NEW n \in 0..1
  PROVE  /\ recv \o [i \in 1..n |-> img] \in Seq(Images)
         /\ Len(recv \o [i \in 1..n |-> img]) = Len(recv) + n
<1> DEFINE chunk == [i \in 1..n |-> img]
<1>1. chunk \in Seq(Images) /\ Len(chunk) = n
  OBVIOUS
<1> HIDE DEF chunk
<1>2. recv \o chunk \in Seq(Images) /\ Len(recv \o chunk) = Len(recv) + n
  BY <1>1, ConcatProperties
<1> QED
  BY <1>2 DEF chunk

LEMMA InitUbootType == UbootInit => UbootTypeOK
<1> SUFFICES ASSUME UbootInit PROVE UbootTypeOK
  OBVIOUS
<1> USE DEF UbootInit
<1>1. PICK m \in Found : fw = m.fw /\ flag = m.flag /\ boot = m.boot
  OBVIOUS
<1>2. m \in Media
  BY UbootAssumption
<1>3. OtaTypeOK
  BY <1>1, <1>2 DEF OtaTypeOK, Media, Cached
<1>4. recv \in Seq(Images) /\ uOffset <= BufferUnits
  BY EmptyRecv DEF uOffset
<1>5. /\ update_state \in 0..4 /\ firmware_check_over \in {0, 1}
      /\ start_write \in {0, 1} /\ write_step \in {0, 1, 100} /\ write_fail \in {0, 1}
      /\ file_offset \in 0..BufferUnits /\ write_fail_retry \in 0..WRITE_FAIL_RETRY_CNT
  BY UbootAssumption
<1>6. session \in {"off", "on", "left"} /\ sHeader \in Builds /\ status \in Statuses
  BY DEF NoImage, Builds, Statuses
<1> QED
  BY <1>3, <1>4, <1>5, <1>6 DEF UbootTypeOK

\* An action that writes through keeps the types of the disk.
LEMMA WriteThroughType ==
  ASSUME OtaTypeOK, fw' \in Directories, flag' \in BOOLEAN, UNCHANGED boot, WriteThrough
  PROVE  OtaTypeOK'
BY DEF OtaTypeOK, Media, WriteThrough

LEMMA CommandType == UbootTypeOK /\ UbootCommand => UbootTypeOK'
<1> SUFFICES ASSUME UbootTypeOK, UbootCommand PROVE UbootTypeOK'
  OBVIOUS
<1> USE DEF UbootTypeOK, writerVars, serverVars, Statuses
<1>1. UNCHANGED otaVars => OtaTypeOK'
  BY DEF otaVars, OtaTypeOK, Media
<1>2. CASE GotoApp
  BY <1>1, <1>2 DEF GotoApp, LeaveOTA, uOffset
<1>3. CASE SetReboot
  BY <1>1, <1>3 DEF SetReboot, uOffset
<1>4. ASSUME NEW img \in Images, RequestUpgrade(img) PROVE UbootTypeOK'
  <2>1. recv' \in Seq(Images) /\ Len(recv') <= BufferUnits
    BY <1>4, EmptyRecv DEF RequestUpgrade
  <2> QED
    BY <1>1, <1>4, <2>1 DEF RequestUpgrade, uOffset, Builds
<1>5. CASE RequestRefused
  BY <1>1, <1>5 DEF RequestRefused, uOffset
<1>6. ASSUME NEW img \in Images, NEW off \in 0..BufferUnits, NEW n \in 0..1,
             DownloadImage(img, off, n)
      PROVE UbootTypeOK'
  <2>1. recv' \in Seq(Images) /\ Len(recv') <= BufferUnits
    BY <1>6, ChunkType DEF DownloadImage, Fits, uOffset
  <2> QED
    BY <1>1, <1>6, <2>1 DEF DownloadImage, Fits, uOffset
<1>7. ASSUME NEW off \in 0..BufferUnits, NEW n \in 0..1, DownloadRefused(off, n)
      PROVE UbootTypeOK'
  BY <1>1, <1>7 DEF DownloadRefused, uOffset
<1>8. CASE CheckImage
  BY <1>1, <1>8 DEF CheckImage, uOffset
<1>9. CASE WriteImage
  <2>1. OtaTypeOK'
    BY <1>9, WriteThroughType DEF WriteImage, ClearFlag, OtaTypeOK
  <2> QED
    BY <1>9, <2>1, UbootAssumption DEF WriteImage, ClearFlag, uOffset
<1>10. ASSUME NEW written \in BOOLEAN, WriteStatus(written) PROVE UbootTypeOK'
  <2>1. flag' \in BOOLEAN /\ UNCHANGED <<fw, boot>> /\ WriteThrough
    BY <1>10 DEF WriteStatus, WriteOver, OtaTypeOK
  <2>2. OtaTypeOK'
    BY <2>1, WriteThroughType DEF OtaTypeOK
  <2> QED
    BY <1>10, <2>2 DEF WriteStatus, WriteOver, uOffset
<1>11. CASE WriteRefused
  BY <1>1, <1>11 DEF WriteRefused, uOffset
<1> QED
  BY <1>2, <1>3, <1>4, <1>5, <1>6, <1>7, <1>8, <1>9, <1>10, <1>11 DEF UbootCommand

LEMMA WriterType == UbootTypeOK /\ OTA_process => UbootTypeOK'
<1> SUFFICES ASSUME UbootTypeOK, OTA_process PROVE UbootTypeOK'
  OBVIOUS
<1> USE DEF UbootTypeOK, serverVars
<1>1. CASE WriteClear
  <2>1. OtaTypeOK'
    BY <1>1, DirTypes, WriteThroughType DEF WriteClear, OtaTypeOK
  <2> QED
    BY <1>1, <2>1, UbootAssumption DEF WriteClear, uOffset
<1>2. CASE WriteFile
  <2>1. /\ file_offset \in Nat /\ file_offset + 2 <= Len(recv)
        /\ file_offset % 2 = 0 /\ file_offset \div 2 + 1 \in Files
    BY <1>2 DEF WriteFile, AtRecord, RecordFits, RecordFile, uOffset
  <2>2. PICK k \in Nat : k = file_offset \div 2 + 1
    BY <2>1 DEF Files
  <2>3. k >= 1 /\ 2 * k <= Len(recv) /\ 2 * k - 1 = file_offset + 1 /\ 2 * k = file_offset + 2
    BY <2>1, <2>2
  <2>4. SubSeq(recv, 2 * k - 1, 2 * k) \in Contents
    BY <2>3, RecordType
  <2>5. SubSeq(recv, file_offset + 1, file_offset + 2) \in Contents
    BY <2>3, <2>4
  <2>6. fw' \in Directories
    BY <1>2, <2>1, <2>5 DEF WriteFile, RecordFile, OtaTypeOK, Directories
  <2>7. OtaTypeOK'
    BY <1>2, <2>6, WriteThroughType DEF WriteFile, OtaTypeOK
  <2>8. file_offset' \in 0..BufferUnits
    BY <1>2, <2>1, UbootAssumption DEF WriteFile, uOffset
  <2> QED
    BY <1>2, <2>7, <2>8, UbootAssumption DEF WriteFile, uOffset
<1>3. CASE WriteFails
  <2>1. fw' \in Directories
    BY <1>3, DirTypes DEF WriteFails, RetryOrGiveUp, OtaTypeOK, Directories
  <2>2. OtaTypeOK'
    BY <1>3, <2>1, WriteThroughType DEF WriteFails, RetryOrGiveUp, OtaTypeOK
  <2>3. file_offset' \in 0..BufferUnits
    BY <1>3, UbootAssumption DEF WriteFails, RetryOrGiveUp, uOffset
  <2>4. write_fail_retry' \in 0..WRITE_FAIL_RETRY_CNT /\ write_fail' \in {0, 1}
    BY <1>3, UbootAssumption DEF WriteFails, RetryOrGiveUp
  <2> QED
    BY <1>3, <2>2, <2>3, <2>4 DEF WriteFails, RetryOrGiveUp, uOffset
<1>4. CASE WriteStalls
  <2>1. OtaTypeOK'
    BY <1>4 DEF WriteStalls, otaVars, OtaTypeOK, Media
  <2> QED
    BY <1>4, <2>1, UbootAssumption DEF WriteStalls, uOffset
<1>5. CASE WriteClearFails
  <2>1. OtaTypeOK'
    BY <1>5 DEF WriteClearFails, otaVars, OtaTypeOK, Media
  <2>2. write_fail_retry' \in 0..WRITE_FAIL_RETRY_CNT /\ write_fail' \in {0, 1}
    BY <1>5, UbootAssumption DEF WriteClearFails, RetryOrGiveUp
  <2> QED
    BY <1>5, <2>1, <2>2 DEF WriteClearFails, uOffset
<1> QED
  BY <1>1, <1>2, <1>3, <1>4, <1>5 DEF OTA_process

LEMMA NextUbootType == UbootTypeOK /\ [UbootNext]_ubootVars => UbootTypeOK'
<1> SUFFICES ASSUME UbootTypeOK, [UbootNext]_ubootVars PROVE UbootTypeOK'
  OBVIOUS
<1> USE DEF UbootTypeOK, writerVars, serverVars
<1>1. UNCHANGED otaVars => OtaTypeOK'
  BY DEF otaVars, OtaTypeOK, Media
<1>2. CASE OTA_start
  <2>1. recv' \in Seq(Images) /\ Len(recv') <= BufferUnits
    BY <1>2, EmptyRecv DEF OTA_start
  <2>2. sHeader' \in Builds
    BY <1>2 DEF OTA_start, NoImage, Builds
  <2> QED
    BY <1>1, <1>2, <2>1, <2>2 DEF OTA_start, uOffset
<1>3. CASE SessionEnds
  BY <1>1, <1>3 DEF SessionEnds, LeaveOTA, uOffset
<1>4. CASE UNCHANGED ubootVars
  BY <1>1, <1>4 DEF ubootVars, uOffset
<1> QED
  BY <1>2, <1>3, <1>4, CommandType, WriterType DEF UbootNext

\* Every variable of the server and of its writer keeps its type.
THEOREM UbootTypeCorrect == UbootSpec => []UbootTypeOK
BY InitUbootType, NextUbootType, PTL DEF UbootSpec
-----------------------------------------------------------------------------
(***************************************************************************)
(* The writer and update.flag exclude each other                           *)
(***************************************************************************)
LEMMA InitWriter == UbootInit => WriterInv
BY DEF UbootInit, WriterInv

\* What a command does to firmware/, the flag and the writer.
LEMMA CommandStep ==
  ASSUME UbootTypeOK, WriterInv, UbootCommand
  PROVE  /\ WriterInv'
         /\ UNCHANGED fw
<1> USE DEF WriterInv, otaVars, serverVars, writerVars
<1>1. ASSUME UNCHANGED <<fw, flag, start_write, write_step>>
      PROVE  /\ WriterInv'
             /\ UNCHANGED fw
  BY <1>1
<1>2. CASE GotoApp \/ SetReboot \/ RequestRefused \/ CheckImage \/ WriteRefused
  BY <1>1, <1>2 DEF GotoApp, SetReboot, RequestRefused, CheckImage, WriteRefused
<1>3. ASSUME NEW img \in Images, RequestUpgrade(img)
      PROVE  UNCHANGED <<fw, flag, start_write, write_step>>
  BY <1>3 DEF RequestUpgrade
<1>4. ASSUME NEW img \in Images, NEW off \in 0..BufferUnits, NEW n \in 0..1,
             DownloadImage(img, off, n)
      PROVE  UNCHANGED <<fw, flag, start_write, write_step>>
  BY <1>4 DEF DownloadImage
<1>5. ASSUME NEW off \in 0..BufferUnits, NEW n \in 0..1, DownloadRefused(off, n)
      PROVE  UNCHANGED <<fw, flag, start_write, write_step>>
  BY <1>5 DEF DownloadRefused
<1>6. CASE WriteImage
  BY <1>6 DEF WriteImage, ClearFlag
<1>7. ASSUME NEW written \in BOOLEAN, WriteStatus(written)
      PROVE  /\ WriterInv'
             /\ UNCHANGED fw
  <2>1. CASE write_fail = 0 /\ write_step = 100
    BY <1>7, <2>1 DEF WriteStatus, WriteOver
  <2>2. CASE ~(write_fail = 0 /\ write_step = 100)
    BY <1>1, <1>7, <2>2 DEF WriteStatus, WriteOver
  <2> QED
    BY <2>1, <2>2
<1> QED
  BY <1>1, <1>2, <1>3, <1>4, <1>5, <1>6, <1>7 DEF UbootCommand

\* A file that is written is no empty place of the directory.
LEMMA WrittenFile ==
  ASSUME UbootTypeOK, WriteFile
  PROVE  fw' # EmptyDir
<1>1. /\ RecordFile \in Files
      /\ fw' = [fw EXCEPT ![RecordFile] = SubSeq(recv, file_offset + 1, file_offset + 2)]
      /\ fw \in Directories
  BY DEF WriteFile, UbootTypeOK, OtaTypeOK
<1>2. /\ recv \in Seq(Images) /\ file_offset \in Nat /\ file_offset + 2 <= Len(recv)
      /\ file_offset % 2 = 0
  BY DEF WriteFile, UbootTypeOK, AtRecord, RecordFits, uOffset
<1>3. PICK k \in Nat : k = file_offset \div 2 + 1
  BY <1>2
<1>4. k >= 1 /\ 2 * k <= Len(recv) /\ 2 * k - 1 = file_offset + 1 /\ 2 * k = file_offset + 2
  BY <1>2, <1>3
<1>5. Whole(SubSeq(recv, 2 * k - 1, 2 * k))
  BY <1>2, <1>4, RecordType
<1>6. Whole(fw'[RecordFile])
  BY <1>1, <1>4, <1>5 DEF Directories
<1>7. ~Whole(EmptyDir[RecordFile])
  BY <1>1 DEF EmptyDir, Whole, Absent
<1> QED
  BY <1>6, <1>7

\* The writer works with the flag removed.
LEMMA WriterStep ==
  ASSUME UbootTypeOK, WriterInv, OTA_process
  PROVE  WriterInv' /\ ~flag /\ ~flag'
<1> USE DEF WriterInv, otaVars
<1>1. ~flag /\ start_write = 1
  BY DEF OTA_process, WriteClear, WriteClearFails, WriteFile, WriteFails, WriteStalls, Writing
<1>2. CASE WriteClear
  BY <1>1, <1>2 DEF WriteClear
<1>3. CASE WriteFile
  BY <1>1, <1>3, WrittenFile DEF WriteFile
<1>4. CASE WriteFails
  BY <1>1, <1>4 DEF WriteFails, RetryOrGiveUp
<1>5. CASE WriteStalls
  BY <1>1, <1>5 DEF WriteStalls
<1>6. CASE WriteClearFails
  BY <1>1, <1>6 DEF WriteClearFails
<1> QED
  BY <1>2, <1>3, <1>4, <1>5, <1>6 DEF OTA_process

LEMMA NextUbootInv ==
  ASSUME UbootInv, [UbootNext]_ubootVars
  PROVE  /\ UbootInv'
         /\ UNCHANGED fw \/ ~flag'
<1>1. UbootTypeOK /\ UbootTypeOK' /\ WriterInv
  BY NextUbootType DEF UbootInv
<1>2. CASE UbootCommand
  BY <1>1, <1>2, CommandStep DEF UbootInv
<1>3. CASE OTA_process
  BY <1>1, <1>3, WriterStep DEF UbootInv
<1>4. CASE OTA_start \/ SessionEnds \/ UNCHANGED ubootVars
  <2>1. UNCHANGED <<fw, flag, start_write, write_step>>
    BY <1>4 DEF OTA_start, SessionEnds, ubootVars, otaVars, writerVars
  <2> QED
    BY <1>1, <2>1 DEF UbootInv, WriterInv
<1> QED
  BY <1>2, <1>3, <1>4 DEF UbootNext

-----------------------------------------------------------------------------
(***************************************************************************)
(* What the flag stands for                                                *)
(***************************************************************************)
\* The files before offset n of what was received.
Written(n) ==
  \A f \in Files : fw[f] = IF 2 * f <= n THEN SubSeq(recv, 2 * f - 1, 2 * f) ELSE Absent

\* In state WRITE_IMAGE nothing is received; so what the writer has written since it
\* was started is a beginning of it.
WrittenInv ==
  update_state = UPDATE_STAT_WRITE_IMAGE /\ write_step # 0 =>
    /\ Written(file_offset)
    /\ write_step = 100 => file_offset = uOffset

LEMMA SameWritten ==
  ASSUME WrittenInv, UNCHANGED <<fw, recv, write_step, file_offset>>,
         update_state' = update_state \/ update_state' # UPDATE_STAT_WRITE_IMAGE
  PROVE  WrittenInv'
BY DEF WrittenInv, Written, uOffset

LEMMA CommandWritten ==
  ASSUME WrittenInv, UbootCommand
  PROVE  WrittenInv'
<1> USE DEF otaVars, serverVars, writerVars
<1>1. CASE GotoApp \/ SetReboot \/ RequestRefused \/ CheckImage \/ WriteRefused
  BY <1>1, SameWritten DEF GotoApp, SetReboot, RequestRefused, CheckImage, WriteRefused
<1>2. ASSUME NEW img \in Images, RequestUpgrade(img) PROVE WrittenInv'
  BY <1>2 DEF RequestUpgrade, WrittenInv
<1>3. ASSUME NEW img \in Images, NEW off \in 0..BufferUnits, NEW n \in 0..1,
             DownloadImage(img, off, n)
      PROVE  WrittenInv'
  BY <1>3 DEF DownloadImage, WrittenInv
<1>4. ASSUME NEW off \in 0..BufferUnits, NEW n \in 0..1, DownloadRefused(off, n)
      PROVE  WrittenInv'
  BY <1>4, SameWritten DEF DownloadRefused
<1>5. CASE WriteImage
  BY <1>5 DEF WriteImage, WrittenInv
<1>6. ASSUME NEW written \in BOOLEAN, WriteStatus(written) PROVE WrittenInv'
  <2>1. CASE WriteOver
    BY <1>6, <2>1 DEF WriteStatus, WrittenInv
  <2>2. CASE ~WriteOver
    BY <1>6, <2>2, SameWritten DEF WriteStatus
  <2> QED
    BY <2>1, <2>2
<1> QED
  BY <1>1, <1>2, <1>3, <1>4, <1>5, <1>6 DEF UbootCommand

\* The record at an even offset is the next file.
LEMMA RecordAt ==
  ASSUME NEW n \in Nat, n % 2 = 0
  PROVE  /\ n \div 2 + 1 \in Nat /\ 2 * (n \div 2 + 1) = n + 2
         /\ 2 * (n \div 2 + 1) - 1 = n + 1
  OBVIOUS

LEMMA WriterWritten ==
  ASSUME UbootTypeOK, WrittenInv, OTA_process
  PROVE  WrittenInv'
<1>0. fw \in Directories /\ file_offset \in Nat /\ recv \in Seq(Images) /\ Len(recv) \in Nat
  BY DEF UbootTypeOK, OtaTypeOK
<1> USE DEF otaVars, serverVars
<1>1. CASE WriteClear
  <2>1. /\ fw' = EmptyDir /\ file_offset' = 0 /\ write_step' = 1
    BY <1>1 DEF WriteClear
  <2>2. \A f \in Files : ~(2 * f <= 0) /\ fw'[f] = Absent
    BY <2>1 DEF Files, EmptyDir
  <2> QED
    BY <2>1, <2>2 DEF WrittenInv, Written
<1>2. CASE WriteFile
  <2>1. /\ RecordFile \in Files /\ file_offset % 2 = 0 /\ file_offset' = file_offset + 2
        /\ fw' = [fw EXCEPT ![RecordFile] = SubSeq(recv, file_offset + 1, file_offset + 2)]
        /\ UNCHANGED <<recv, update_state>> /\ write_step = 1
        /\ write_step' = IF file_offset + 2 = uOffset THEN 100 ELSE 1
    BY <1>2 DEF WriteFile, AtRecord
  <2>2. 2 * RecordFile = file_offset + 2 /\ 2 * RecordFile - 1 = file_offset + 1
    BY <1>0, <2>1, RecordAt DEF RecordFile
  <2>3. ASSUME update_state = UPDATE_STAT_WRITE_IMAGE, NEW f \in Files
        PROVE  fw'[f] = IF 2 * f <= file_offset + 2 THEN SubSeq(recv, 2 * f - 1, 2 * f) ELSE Absent
    <3>0. fw[f] = IF 2 * f <= file_offset THEN SubSeq(recv, 2 * f - 1, 2 * f) ELSE Absent
      BY <2>1, <2>3 DEF WrittenInv, Written
    <3>1. CASE f = RecordFile
      <4>1. fw'[f] = SubSeq(recv, file_offset + 1, file_offset + 2)
        BY <1>0, <2>1, <3>1 DEF Directories
      <4>2. 2 * f = file_offset + 2 /\ 2 * f - 1 = file_offset + 1
        BY <2>2, <3>1
      <4> QED
        BY <1>0, <4>1, <4>2
    <3>2. CASE f # RecordFile
      <4>1. fw'[f] = fw[f]
        BY <1>0, <2>1, <3>2 DEF Directories
      <4>2. RecordFile \in Nat /\ f \in Nat
        BY <2>1 DEF Files
      <4>3. 2 * f <= file_offset + 2 <=> 2 * f <= file_offset
        <5> HIDE DEF RecordFile
        <5> QED
          BY <1>0, <2>1, <2>2, <3>2, <4>2
      <4> QED
        BY <3>0, <4>1, <4>3
    <3> QED
      BY <3>1, <3>2
  <2>4. update_state' = UPDATE_STAT_WRITE_IMAGE => Written(file_offset)'
    BY <2>1, <2>3 DEF Written
  <2>5. write_step' = 100 => file_offset' = uOffset'
    BY <2>1 DEF uOffset
  <2> QED
    BY <2>4, <2>5 DEF WrittenInv
<1>3. CASE WriteFails
  <2>1. /\ write_step = 1 /\ UNCHANGED <<recv, update_state, write_step>>
        /\ file_offset' = (IF AtRecord THEN file_offset + 1 ELSE file_offset)
        /\ fw' = IF AtRecord /\ RecordFits /\ RecordFile \in Files
                 THEN [fw EXCEPT ![RecordFile] = Absent] ELSE fw
    BY <1>3 DEF WriteFails
  <2>2. ASSUME update_state = UPDATE_STAT_WRITE_IMAGE, NEW f \in Files
        PROVE  fw'[f] = IF 2 * f <= file_offset' THEN SubSeq(recv, 2 * f - 1, 2 * f) ELSE Absent
    <3>0. fw[f] = IF 2 * f <= file_offset THEN SubSeq(recv, 2 * f - 1, 2 * f) ELSE Absent
      BY <2>1, <2>2 DEF WrittenInv, Written
    <3>1. CASE ~AtRecord
      BY <2>1, <3>0, <3>1
    <3>2. CASE AtRecord
      <4>1. file_offset % 2 = 0 /\ file_offset' = file_offset + 1 /\ f \in Nat
        BY <2>1, <3>2 DEF AtRecord, Files
      <4>2. 2 * f <= file_offset + 1 <=> 2 * f <= file_offset
        <5>1. PICK h \in Nat : file_offset = 2 * h
          <6>1. file_offset \div 2 \in Nat /\ file_offset = 2 * (file_offset \div 2)
            BY <1>0, <4>1
          <6> QED
            BY <6>1
        <5> QED
          BY <4>1, <5>1
      <4>3. fw'[f] = fw[f]
        <5>1. CASE fw' = fw
          BY <5>1
        <5>2. CASE RecordFile \in Files /\ fw' = [fw EXCEPT ![RecordFile] = Absent]
          <6>1. CASE f = RecordFile
            <7>1. 2 * f = file_offset + 2
              BY <1>0, <4>1, <6>1, RecordAt DEF RecordFile
            <7>2. ~(2 * f <= file_offset)
              BY <1>0, <7>1
            <7> QED
              BY <1>0, <3>0, <5>2, <6>1, <7>2 DEF Directories
          <6>2. CASE f # RecordFile
            BY <1>0, <5>2, <6>2 DEF Directories
          <6> QED
            BY <6>1, <6>2
        <5> QED
          BY <2>1, <5>1, <5>2
      <4> QED
        BY <3>0, <4>1, <4>2, <4>3
    <3> QED
      BY <3>1, <3>2
  <2> QED
    BY <2>1, <2>2 DEF WrittenInv, Written
<1>4. CASE WriteStalls \/ WriteClearFails
  BY <1>4, SameWritten DEF WriteStalls, WriteClearFails
<1> QED
  BY <1>1, <1>2, <1>3, <1>4 DEF OTA_process

LEMMA NextWritten ==
  ASSUME UbootTypeOK, WrittenInv, [UbootNext]_ubootVars
  PROVE  WrittenInv'
<1>1. CASE OTA_start
  BY <1>1 DEF OTA_start, WrittenInv
<1>2. CASE SessionEnds \/ UNCHANGED ubootVars
  BY <1>2, SameWritten DEF SessionEnds, ubootVars, otaVars, serverVars, writerVars
<1> QED
  BY <1>1, <1>2, CommandWritten, WriterWritten DEF UbootNext

\* The flag appears at the end of a write, when firmware/ is what was received.
LEMMA FlagAppears ==
  ASSUME UbootTypeOK, WriterInv, WrittenInv, UbootNext, ~flag, flag'
  PROVE  /\ WriteOver
         /\ Written(uOffset)
         /\ UNCHANGED <<fw, boot>> /\ WriteThrough
<1>1. PICK written \in BOOLEAN : WriteStatus(written)
  <2>1. ~OTA_process
    BY WriterStep
  <2>2. ~OTA_start /\ ~SessionEnds
    BY DEF OTA_start, SessionEnds, otaVars
  <2>3. UbootCommand
    BY <2>1, <2>2 DEF UbootNext
  <2>4. ~(GotoApp \/ SetReboot \/ RequestRefused \/ CheckImage \/ WriteRefused \/ WriteImage)
    BY DEF GotoApp, SetReboot, RequestRefused, CheckImage, WriteRefused, WriteImage,
           ClearFlag, otaVars
  <2>5. ~\E img \in Images : RequestUpgrade(img)
    BY DEF RequestUpgrade, otaVars
  <2>6. ~\E img \in Images, off \in 0..BufferUnits, n \in 0..1 : DownloadImage(img, off, n)
    BY DEF DownloadImage, otaVars
  <2>7. ~\E off \in 0..BufferUnits, n \in 0..1 : DownloadRefused(off, n)
    BY DEF DownloadRefused, otaVars
  <2> QED
    BY <2>3, <2>4, <2>5, <2>6, <2>7 DEF UbootCommand
<1>2. update_state = UPDATE_STAT_WRITE_IMAGE /\ WriteOver
  BY <1>1 DEF WriteStatus
<1>3. Written(uOffset)
  BY <1>2 DEF WriteOver, WrittenInv
<1> QED
  BY <1>1, <1>2, <1>3 DEF WriteStatus

\* update.flag appears only for what was received, all of it and nothing else, for any
\* number of files and whatever was requested while the writer was at work.
THEOREM FlagStandsForReceived == UbootSpec => FlagMeansReceived
<1> DEFINE AllOfIt ==
      [f \in Files |-> IF 2 * f <= uOffset THEN SubSeq(recv, 2 * f - 1, 2 * f) ELSE Absent]
<1>1. UbootInit => WrittenInv
  BY DEF UbootInit, WrittenInv
<1>2. ASSUME UbootTypeOK, WriterInv, WrittenInv, UbootNext, ~flag, flag'
      PROVE  fw = AllOfIt
  <2>1. Written(uOffset)
    BY <1>2, FlagAppears
  <2>2. fw = [f \in Files |-> fw[f]]
    BY <1>2 DEF UbootTypeOK, OtaTypeOK, Directories
  <2> QED
    BY <2>1, <2>2 DEF Written
<1>3. UbootInit => UbootInv
  BY InitUbootType, InitWriter DEF UbootInv
<1>4. UbootInv /\ [UbootNext]_ubootVars => UbootInv'
  BY NextUbootInv
<1>5. UbootInv /\ WrittenInv /\ [UbootNext]_ubootVars => WrittenInv'
  BY NextWritten DEF UbootInv
<1>6. UbootInv /\ WrittenInv /\ [UbootNext]_ubootVars
        => [~flag /\ flag' => fw = AllOfIt]_ubootVars
  BY <1>2 DEF UbootInv
<1> QED
  BY <1>1, <1>3, <1>4, <1>5, <1>6, PTL DEF UbootSpec, FlagMeansReceived
\* What was received is staged: complete files, and at least one.
LEMMA StagesSound ==
  ASSUME UbootTypeOK, WriterInv, WrittenInv, UbootNext, ~flag, flag'
  PROVE  ServerStages
<1>1. WriteOver /\ Written(uOffset) /\ UNCHANGED <<fw, boot>> /\ WriteThrough
  BY FlagAppears
<1>2. fw # EmptyDir
  BY <1>1 DEF WriterInv, WriteOver
<1>3. ASSUME NEW f \in Files PROVE fw[f] = Absent \/ Whole(fw[f])
  <2>1. CASE 2 * f <= uOffset
    <3>1. f \in Nat /\ f >= 1 /\ recv \in Seq(Images)
      BY DEF Files, UbootTypeOK
    <3>2. Whole(SubSeq(recv, 2 * f - 1, 2 * f))
      BY <2>1, <3>1, RecordType DEF uOffset
    <3> QED
      BY <1>1, <2>1, <3>2 DEF Written
  <2>2. CASE ~(2 * f <= uOffset)
    BY <1>1, <2>2 DEF Written
  <2> QED
    BY <2>1, <2>2
<1>4. flag' = TRUE
  BY NextUbootType DEF UbootTypeOK, OtaTypeOK
<1> QED
  BY <1>1, <1>2, <1>3, <1>4 DEF ServerStages, Sound, NotStaged, Packages, UbootTypeOK, OtaTypeOK

\* The server implements StagedPackage: what update.flag stands for appears
\* complete, is never touched, and goes in one step, although the writer of
\* u-boot outlives the requests and the sessions that started it.
THEOREM UbootImplementsStaged == UbootSpec => FlagFreezesFirmware
<1>1. UbootInit => UbootInv /\ WrittenInv
  BY InitUbootType, InitWriter DEF UbootInv, UbootInit, WrittenInv
<1>2. UbootInv /\ [UbootNext]_ubootVars => UbootInv'
  BY NextUbootInv
<1>3. UbootInv /\ WrittenInv /\ [UbootNext]_ubootVars => WrittenInv'
  BY NextWritten DEF UbootInv
<1>4. UbootInv => Staged!StagedInit
  BY DEF UbootInv, UbootTypeOK, OtaTypeOK, Staged!StagedInit
<1>5. ASSUME UbootInv, WrittenInv, [UbootNext]_ubootVars
      PROVE  [Staged!Stage \/ Staged!Withdraw]_(IF flag THEN fw ELSE EmptyDir)
  <2>1. CASE ~flag'
    BY <2>1 DEF Staged!Withdraw
  <2>2. CASE flag' /\ flag
    BY <1>5, <2>2, NextUbootInv
  <2>3. CASE flag' /\ ~flag
    <3>1. UbootNext
      BY <1>5, <2>3 DEF ubootVars, otaVars
    <3>2. fw \in Packages /\ fw' = fw
      BY <1>5, <2>3, <3>1, StagesSound DEF UbootInv, ServerStages
    <3> QED
      BY <2>3, <3>2 DEF Staged!Stage
  <2> QED
    BY <2>1, <2>2, <2>3
<1> QED
  BY <1>1, <1>2, <1>3, <1>4, <1>5, PTL DEF UbootSpec, FlagFreezesFirmware, Staged!StagedSpec
-----------------------------------------------------------------------------
(***************************************************************************)
(* What the whole upgrade may rely on                                      *)
(***************************************************************************)
\* Nothing waits to be written back.
DurableInv == disk = Cached

ServerStep == ServerRemovesFlag \/ ServerWrites \/ ServerStages

\* A step of the writer writes one file, empties the directory, or changes nothing.
LEMMA WriterServes ==
  ASSUME UbootTypeOK, WriterInv, DurableInv, OTA_process
  PROVE  ServerWrites \/ UNCHANGED otaVars
<1>0. ~flag /\ fw \in Directories
  BY WriterStep DEF UbootTypeOK, OtaTypeOK
<1>1. CASE WriteClear
  BY <1>0, <1>1 DEF WriteClear, ServerWrites, NotStaged
<1>2. CASE WriteFile
  <2>1. /\ RecordFile \in Files /\ file_offset % 2 = 0 /\ file_offset + 2 <= Len(recv)
        /\ fw' = [fw EXCEPT ![RecordFile] = SubSeq(recv, file_offset + 1, file_offset + 2)]
        /\ UNCHANGED <<flag, boot>> /\ WriteThrough
    BY <1>2 DEF WriteFile, AtRecord, RecordFits, uOffset
  <2>2. file_offset \in Nat /\ recv \in Seq(Images)
    BY DEF UbootTypeOK
  <2>3. 2 * RecordFile = file_offset + 2 /\ 2 * RecordFile - 1 = file_offset + 1
    BY <2>1, <2>2, RecordAt DEF RecordFile
  <2>4. RecordFile \in Nat /\ RecordFile >= 1
    BY <2>1 DEF Files
  <2>5. SubSeq(recv, file_offset + 1, file_offset + 2) \in Received
    <3> HIDE DEF RecordFile
    <3>1. SubSeq(recv, 2 * RecordFile - 1, 2 * RecordFile) \in Received
      BY <2>1, <2>2, <2>3, <2>4, RecordType
    <3> QED
      BY <2>3, <3>1
  <2> QED
    BY <1>0, <2>1, <2>5 DEF ServerWrites, NotStaged
<1>3. CASE WriteFails
  <2>1. UNCHANGED <<flag, boot>> /\ WriteThrough
    BY <1>3 DEF WriteFails
  <2>2. CASE fw' = fw
    BY <2>1, <2>2 DEF DurableInv, Cached, WriteThrough, otaVars
  <2>3. CASE RecordFile \in Files /\ fw' = [fw EXCEPT ![RecordFile] = Absent]
    <3>1. Absent \in Received
      BY DEF Received
    <3>2. \E f \in Files, c \in Received : fw' = [fw EXCEPT ![f] = c]
      BY <2>3, <3>1
    <3> QED
      BY <1>0, <2>1, <3>2 DEF ServerWrites, NotStaged
  <2> QED
    BY <1>3, <2>2, <2>3 DEF WriteFails
<1>4. CASE WriteStalls \/ WriteClearFails
  BY <1>4 DEF WriteStalls, WriteClearFails
<1> QED
  BY <1>1, <1>2, <1>3, <1>4 DEF OTA_process

\* A command takes the flag away, creates it, or leaves the disk alone.
LEMMA CommandServes ==
  ASSUME UbootTypeOK, WriterInv, WrittenInv, DurableInv, UbootCommand
  PROVE  ServerStep \/ UNCHANGED otaVars
<1>1. CASE GotoApp \/ SetReboot \/ RequestRefused \/ CheckImage \/ WriteRefused
  BY <1>1 DEF GotoApp, SetReboot, RequestRefused, CheckImage, WriteRefused
<1>2. ASSUME NEW img \in Images, RequestUpgrade(img) PROVE UNCHANGED otaVars
  BY <1>2 DEF RequestUpgrade
<1>3. ASSUME NEW img \in Images, NEW off \in 0..BufferUnits, NEW n \in 0..1,
             DownloadImage(img, off, n)
      PROVE  UNCHANGED otaVars
  BY <1>3 DEF DownloadImage
<1>4. ASSUME NEW off \in 0..BufferUnits, NEW n \in 0..1, DownloadRefused(off, n)
      PROVE  UNCHANGED otaVars
  BY <1>4 DEF DownloadRefused
<1>5. CASE WriteImage
  BY <1>5 DEF WriteImage, ClearFlag, ServerStep, ServerRemovesFlag
<1>6. ASSUME NEW written \in BOOLEAN, WriteStatus(written)
      PROVE  ServerStep \/ UNCHANGED otaVars
  <2>1. UNCHANGED <<fw, boot>> /\ WriteThrough /\ flag \in BOOLEAN /\ flag' \in BOOLEAN
    BY <1>6 DEF WriteStatus, UbootTypeOK, OtaTypeOK
  <2>2. CASE flag' = FALSE
    BY <2>1, <2>2 DEF ServerStep, ServerRemovesFlag
  <2>3. CASE flag' = TRUE /\ flag = FALSE
    BY <2>3, StagesSound DEF UbootNext, ServerStep
  <2>4. CASE flag' = flag
    BY <2>1, <2>4 DEF DurableInv, Cached, WriteThrough, otaVars
  <2> QED
    BY <2>1, <2>2, <2>3, <2>4
<1> QED
  BY <1>1, <1>2, <1>3, <1>4, <1>5, <1>6 DEF UbootCommand

LEMMA NextServes ==
  ASSUME UbootTypeOK, WriterInv, WrittenInv, DurableInv, [UbootNext]_ubootVars
  PROVE  [ServerStep]_otaVars /\ DurableInv'
<1>1. ServerStep \/ UNCHANGED otaVars
  BY CommandServes, WriterServes
     DEF UbootNext, OTA_start, SessionEnds, ubootVars, ServerStep
<1>2. DurableInv'
  <2>1. CASE ServerStep
    BY <2>1, ServerDisk DEF ServerStep, DurableInv, UbootTypeOK
  <2>2. CASE UNCHANGED otaVars
    BY <2>2 DEF otaVars, DurableInv, Cached
  <2> QED
    BY <1>1, <2>1, <2>2
<1> QED
  BY <1>1, <1>2

\* The loop of the environment is left with the flag, and then nothing runs any more.
LeftInv == session = "left" => flag

LEMMA NextLeft ==
  ASSUME LeftInv, [UbootNext]_ubootVars
  PROVE  LeftInv'
<1> USE DEF LeftInv, otaVars, serverVars, writerVars
<1>1. CASE OTA_start
  BY <1>1 DEF OTA_start
<1>2. CASE SessionEnds \/ GotoApp
  BY <1>2 DEF SessionEnds, GotoApp, LeaveOTA
<1>3. CASE UNCHANGED ubootVars
  BY <1>3 DEF ubootVars
<1>4. ASSUME session = "on", session' = "on" PROVE LeftInv'
  BY <1>4
<1>5. CASE UbootCommand /\ ~GotoApp
  <2>1. session = "on" /\ session' = "on"
    BY <1>5 DEF UbootCommand, SetReboot, RequestUpgrade, RequestRefused, DownloadImage,
                DownloadRefused, CheckImage, WriteImage, WriteStatus, WriteRefused
  <2> QED
    BY <1>4, <2>1
<1>6. CASE OTA_process
  <2>1. session = "on" /\ session' = "on"
    BY <1>6 DEF OTA_process, WriteClear, WriteClearFails, WriteFile, WriteFails, WriteStalls,
                Writing
  <2> QED
    BY <1>4, <2>1
<1> QED
  BY <1>1, <1>2, <1>3, <1>5, <1>6 DEF UbootNext

\* What OtaSystem assumes of the server of u-boot holds of it, whatever it finds on the
\* disk: the system may be reasoned about without its commands and without its writer.
THEOREM ServerServesDisk == UbootSpec => ServesDisk
<1>1. UbootInit => UbootInv /\ WrittenInv /\ DurableInv /\ LeftInv
  BY InitUbootType, InitWriter DEF UbootInv, UbootInit, WrittenInv, DurableInv, LeftInv
<1>2. UbootInv /\ [UbootNext]_ubootVars => UbootInv'
  BY NextUbootInv
<1>3. UbootInv /\ WrittenInv /\ [UbootNext]_ubootVars => WrittenInv'
  BY NextWritten DEF UbootInv
<1>4. UbootInv /\ WrittenInv /\ DurableInv /\ [UbootNext]_ubootVars
        => [ServerRemovesFlag \/ ServerWrites \/ ServerStages]_otaVars /\ DurableInv'
  BY NextServes DEF UbootInv, ServerStep
<1>5. LeftInv /\ [UbootNext]_ubootVars => LeftInv'
  BY NextLeft
<1>6. LeftInv => (session = "left" => flag)
  BY DEF LeftInv
<1> QED
  BY <1>1, <1>2, <1>3, <1>4, <1>5, <1>6, PTL DEF UbootSpec, ServesDisk
-----------------------------------------------------------------------------
(***************************************************************************)
(* The writer gets to the end                                              *)
(***************************************************************************)
\* While there is something to write, the writer that has begun has not run out of it:
\* it leaves the end of the package only by having reached it.
BeforeEndInv ==
  update_state = UPDATE_STAT_WRITE_IMAGE /\ write_step = 1
    /\ uOffset % 2 = 0 /\ uOffset > 0
  => file_offset < uOffset

LEMMA SameBeforeEnd ==
  ASSUME BeforeEndInv, UNCHANGED <<recv, write_step, file_offset>>,
         update_state' = update_state \/ update_state' # UPDATE_STAT_WRITE_IMAGE
  PROVE  BeforeEndInv'
BY DEF BeforeEndInv, uOffset

LEMMA CommandBeforeEnd ==
  ASSUME BeforeEndInv, UbootCommand
  PROVE  BeforeEndInv'
<1> USE DEF otaVars, serverVars, writerVars
<1>1. CASE GotoApp \/ SetReboot \/ RequestRefused \/ CheckImage \/ WriteRefused
  BY <1>1, SameBeforeEnd DEF GotoApp, SetReboot, RequestRefused, CheckImage, WriteRefused
<1>2. ASSUME NEW img \in Images, RequestUpgrade(img) PROVE BeforeEndInv'
  BY <1>2 DEF RequestUpgrade, BeforeEndInv
<1>3. ASSUME NEW img \in Images, NEW off \in 0..BufferUnits, NEW n \in 0..1,
             DownloadImage(img, off, n)
      PROVE  BeforeEndInv'
  BY <1>3 DEF DownloadImage, BeforeEndInv
<1>4. ASSUME NEW off \in 0..BufferUnits, NEW n \in 0..1, DownloadRefused(off, n)
      PROVE  BeforeEndInv'
  BY <1>4, SameBeforeEnd DEF DownloadRefused
<1>5. CASE WriteImage
  BY <1>5 DEF WriteImage, BeforeEndInv
<1>6. ASSUME NEW written \in BOOLEAN, WriteStatus(written) PROVE BeforeEndInv'
  <2>1. CASE WriteOver
    BY <1>6, <2>1 DEF WriteStatus, BeforeEndInv
  <2>2. CASE ~WriteOver
    BY <1>6, <2>2, SameBeforeEnd DEF WriteStatus
  <2> QED
    BY <2>1, <2>2
<1> QED
  BY <1>1, <1>2, <1>3, <1>4, <1>5, <1>6 DEF UbootCommand

LEMMA WriterBeforeEnd ==
  ASSUME UbootTypeOK, BeforeEndInv, OTA_process
  PROVE  BeforeEndInv'
<1>0. file_offset \in Nat /\ Len(recv) \in Nat
  BY DEF UbootTypeOK
<1> USE DEF otaVars, serverVars
<1>1. CASE WriteClear
  BY <1>0, <1>1 DEF WriteClear, BeforeEndInv, uOffset
<1>2. CASE WriteFile
  BY <1>0, <1>2 DEF WriteFile, RecordFits, BeforeEndInv, uOffset
<1>3. CASE WriteFails
  <2>1. /\ write_step = 1 /\ file_offset < Len(recv) /\ UNCHANGED <<recv, update_state>>
        /\ file_offset' = IF AtRecord THEN file_offset + 1 ELSE file_offset
    BY <1>3 DEF WriteFails, uOffset
  <2>2. ASSUME AtRecord, Len(recv) % 2 = 0 PROVE file_offset + 1 < Len(recv)
    BY <1>0, <2>1, <2>2 DEF AtRecord
  <2> QED
    BY <1>0, <2>1, <2>2 DEF BeforeEndInv, uOffset
<1>4. CASE WriteStalls \/ WriteClearFails
  BY <1>4, SameBeforeEnd DEF WriteStalls, WriteClearFails
<1> QED
  BY <1>1, <1>2, <1>3, <1>4 DEF OTA_process

LEMMA NextBeforeEnd ==
  ASSUME UbootTypeOK, BeforeEndInv, [UbootNext]_ubootVars
  PROVE  BeforeEndInv'
<1>1. CASE OTA_start
  BY <1>1 DEF OTA_start, BeforeEndInv
<1>2. CASE SessionEnds \/ UNCHANGED ubootVars
  BY <1>2, SameBeforeEnd DEF SessionEnds, ubootVars, otaVars, serverVars, writerVars
<1> QED
  BY <1>1, <1>2, CommandBeforeEnd, WriterBeforeEnd DEF UbootNext

\* So many attempts for each unit that is left: one unit less is so many attempts less.
LEMMA UnitsTimes ==
  ASSUME NEW n \in Nat, NEW r \in Nat
  PROVE  /\ n * r \in Nat
         /\ (n + 1) * r = n * r + r
         /\ (n + 2) * r = n * r + r + r
OBVIOUS

\* Each attempt of the writer lowers what is left to it.
LEMMA StepAdvances ==
  ASSUME UbootTypeOK, BeforeEndInv, OTA_process,
         update_state = UPDATE_STAT_WRITE_IMAGE, firmware_check
  PROVE  WriteLeft' < WriteLeft
<1> DEFINE A == Attempts
<1>0. /\ file_offset \in Nat /\ uOffset \in Nat /\ write_fail_retry \in Nat
      /\ A \in Nat /\ A = WRITE_FAIL_RETRY_CNT + 1 /\ A >= 1
  BY UbootAssumption DEF UbootTypeOK, uOffset, Attempts
<1>1. write_fail = 0 /\ UNCHANGED uOffset
  BY DEF OTA_process, WriteClear, WriteClearFails, WriteFile, WriteFails, WriteStalls,
         Writing, serverVars, uOffset
<1> HIDE DEF A
<1>2. CASE WriteClear
  <2>1. /\ write_step = 0 /\ write_step' = 1 /\ write_fail' = 0
        /\ file_offset' = 0 /\ write_fail_retry' = WRITE_FAIL_RETRY_CNT
    BY <1>1, <1>2 DEF WriteClear
  <2>2. WriteLeft = uOffset * A + A + write_fail_retry + 1
    BY <1>1, <2>1 DEF WriteLeft, A
  <2>3. WriteLeft' = uOffset * A + A
    <3>1. WriteLeft' = (uOffset - 0) * A + WRITE_FAIL_RETRY_CNT + 1
      BY <1>1, <2>1 DEF WriteLeft, A, Attempts
    <3>2. uOffset - 0 = uOffset /\ uOffset * A \in Nat
      BY <1>0, UnitsTimes
    <3> QED
      BY <1>0, <3>1, <3>2, UbootAssumption
  <2> QED
    BY <1>0, <2>2, <2>3, UnitsTimes
<1>3. CASE WriteClearFails
  <2>1. /\ write_step = 0 /\ write_step' = 0
        /\ RetryOrGiveUp
    BY <1>3 DEF WriteClearFails
  <2>2. WriteLeft = uOffset * A + A + write_fail_retry + 1 /\ uOffset * A \in Nat
    BY <1>0, <1>1, <2>1, UnitsTimes DEF WriteLeft, A
  <2>3. CASE write_fail_retry = 0
    <3>1. WriteLeft' = 0
      BY <2>1, <2>3 DEF RetryOrGiveUp, WriteLeft
    <3> QED
      BY <1>0, <2>2, <3>1
  <2>4. CASE write_fail_retry # 0
    <3>1. write_fail_retry' = write_fail_retry - 1 /\ write_fail' = 0
      BY <1>1, <2>1, <2>4 DEF RetryOrGiveUp
    <3>2. WriteLeft' = uOffset * A + A + (write_fail_retry - 1) + 1
      BY <1>1, <2>1, <3>1 DEF WriteLeft, A, Attempts
    <3> QED
      BY <1>0, <2>2, <2>4, <3>2
  <2> QED
    BY <2>3, <2>4
<1>4. CASE WriteFile
  <2>1. /\ write_step = 1 /\ write_fail' = 0 /\ file_offset + 2 <= uOffset
        /\ file_offset' = file_offset + 2
        /\ write_step' = (IF file_offset + 2 = uOffset THEN 100 ELSE 1)
        /\ write_fail_retry' = WRITE_FAIL_RETRY_CNT
    BY <1>1, <1>4 DEF WriteFile, RecordFits
  <2>2. PICK n \in Nat : uOffset - file_offset = n + 2
    <3>1. uOffset - file_offset - 2 \in Nat
      BY <1>0, <2>1
    <3> QED
      BY <1>0, <3>1
  <2>3. WriteLeft = (n + 2) * A + write_fail_retry + 1
    BY <1>1, <2>1, <2>2 DEF WriteLeft, A
  <2>4. WriteLeft' = 0 \/ WriteLeft' = n * A + A
    <3>1. CASE write_step' = 100
      BY <3>1 DEF WriteLeft
    <3>2. CASE write_step' = 1
      <4>1. WriteLeft' = (uOffset - (file_offset + 2)) * A + WRITE_FAIL_RETRY_CNT + 1
        BY <1>1, <2>1, <3>2 DEF WriteLeft, A, Attempts
      <4>2. uOffset - (file_offset + 2) = n /\ n * A \in Nat
        BY <1>0, <2>2, UnitsTimes
      <4> QED
        BY <1>0, <4>1, <4>2, UbootAssumption
    <3> QED
      BY <2>1, <3>1, <3>2
  <2>5. n * A \in Nat /\ (n + 2) * A = n * A + A + A
    BY <1>0, <2>2, UnitsTimes
  <2> QED
    BY <1>0, <2>3, <2>4, <2>5
<1>5. CASE WriteFails
  <2>1. /\ write_step = 1 /\ write_step' = 1 /\ file_offset < uOffset
        /\ file_offset' \in {file_offset, file_offset + 1}
        /\ RetryOrGiveUp
    BY <1>5 DEF WriteFails
  <2>2. PICK n \in Nat : uOffset - file_offset = n + 1
    <3>1. uOffset - file_offset - 1 \in Nat
      BY <1>0, <2>1
    <3> QED
      BY <1>0, <3>1
  <2>3. /\ WriteLeft = (n + 1) * A + write_fail_retry + 1
        /\ n * A \in Nat /\ (n + 1) * A = n * A + A
    BY <1>0, <1>1, <2>1, <2>2, UnitsTimes DEF WriteLeft, A
  <2>4. CASE write_fail_retry = 0
    <3>1. WriteLeft' = 0
      BY <2>1, <2>4 DEF RetryOrGiveUp, WriteLeft
    <3> QED
      BY <1>0, <2>3, <3>1
  <2>5. CASE write_fail_retry # 0
    <3>1. write_fail_retry' = write_fail_retry - 1 /\ write_fail' = 0
      BY <1>1, <2>1, <2>5 DEF RetryOrGiveUp
    <3>2. PICK d : d = uOffset - file_offset'
      OBVIOUS
    <3>3. d = n + 1 \/ d = n
      <4>1. file_offset' = file_offset \/ file_offset' = file_offset + 1
        BY <2>1
      <4>2. CASE file_offset' = file_offset
        BY <2>2, <3>2, <4>2
      <4>3. CASE file_offset' = file_offset + 1
        <5>1. d = uOffset - (file_offset + 1)
          BY <3>2, <4>3
        <5> QED
          BY <1>0, <2>2, <5>1
      <4> QED
        BY <4>1, <4>2, <4>3
    <3>4. WriteLeft' = d * A + (write_fail_retry - 1) + 1
      BY <1>1, <2>1, <3>1, <3>2 DEF WriteLeft, A, Attempts
    <3>5. CASE d = n + 1
      BY <1>0, <2>3, <2>5, <3>4, <3>5
    <3>6. CASE d = n
      BY <1>0, <2>3, <2>5, <3>4, <3>6
    <3> QED
      BY <3>3, <3>5, <3>6
  <2> QED
    BY <2>4, <2>5
<1>6. ~WriteStalls
  <2>1. uOffset = 2 * FileCount
    BY DEF firmware_check
  <2>2. uOffset % 2 = 0 /\ uOffset > 0
    BY <2>1, OtaAssumption
  <2>3. WriteStalls => write_step = 1 /\ file_offset >= uOffset
    BY DEF WriteStalls
  <2> QED
    BY <1>0, <2>2, <2>3 DEF BeforeEndInv
<1> QED
  BY <1>2, <1>3, <1>4, <1>5, <1>6 DEF OTA_process

\* What WriteEnds rests on besides fairness, for any size of the package and any bound
\* of the retries: the writer of a checked image cannot go on for ever.
THEOREM WriterAdvances == UbootSpec => WriteAdvances
<1>1. UbootInit => UbootTypeOK /\ BeforeEndInv
  BY InitUbootType DEF UbootInit, BeforeEndInv
<1>2. UbootTypeOK /\ BeforeEndInv /\ [UbootNext]_ubootVars => UbootTypeOK' /\ BeforeEndInv'
  BY NextUbootType, NextBeforeEnd
<1>3. UbootTypeOK /\ BeforeEndInv
        => [Unfinished /\ OTA_process => WriteLeft' < WriteLeft]_ubootVars
  BY StepAdvances DEF Unfinished
<1>4. BeforeEndInv => (Unfinished /\ write_step = 1 => file_offset < uOffset)
  <2>1. firmware_check => uOffset % 2 = 0 /\ uOffset > 0
    <3>1. firmware_check => uOffset = 2 * FileCount
      BY DEF firmware_check
    <3> QED
      BY <3>1, OtaAssumption
  <2> QED
    BY <2>1 DEF BeforeEndInv, Unfinished
<1> QED
  BY <1>1, <1>2, <1>3, <1>4, PTL DEF UbootSpec, WriteAdvances
=============================================================================
