--------------------------- MODULE OtaSystemProofs ---------------------------
(***************************************************************************)
(* The safety invariants of AppUpgrade and of the system it is a part of,  *)
(* for any number of builds and files: an upgrade interrupted anywhere     *)
(* leaves a device that starts, unless one of the events of Harms took     *)
(* place.                                                                  *)
(***************************************************************************)
EXTENDS OtaSystem, OtaDiskProofs

(***************************************************************************)
(* The app alone                                                           *)
(***************************************************************************)
\* While firmware/ is being removed no whole package is staged, and while one
\* is being written nothing is staged at all.
StageInv ==
  /\ StageIsKept
  /\ step.at = "wipe" => stage # "whole"
  /\ step.at \in {"save", "flag"} => stage = "none"

\* Between two handlers an open cache.bin means that firmware/ is still as
\* empty as the request left it.
CacheInv ==
  /\ NoStaleTail
  /\ cacheOpen /\ step.at # "save" => fw = EmptyDir

\* A package is written with update.flag removed, the files behind the loop of
\* firmware_write are complete, and so is what it reports as written.
SaveInv ==
  /\ step.at = "save" => /\ step.file >= 1
                         /\ cacheOpen => \A f \in Files : f < step.file => Whole(fw[f])
                         /\ ~cacheOpen => step.file = 1
  /\ step.at = "flag" => recv = <<>> \/ Sound(fw)
  /\ step.at \in {"save", "flag"} => ~flag

USE DEF UPDATE_STAT_NO_START, UPDATE_STAT_REQUEST, UPDATE_STAT_DOWNLOAD_IMAGE,
        UPDATE_STAT_CHECK, UPDATE_STAT_WRITE_IMAGE, UPDATE_STAT_WAIT_REBOOT
-----------------------------------------------------------------------------
(***************************************************************************)
(* Types                                                                   *)
(***************************************************************************)
LEMMA ChunkType ==
  ASSUME recv \in Seq(Images), NEW img \in Images, NEW n \in 0..1
  PROVE  /\ recv \o [i \in 1..n |-> img] \in Seq(Images)
         /\ Len(recv \o [i \in 1..n |-> img]) = Len(recv) + n
<1> DEFINE chunk == [i \in 1..n |-> img]
<1>1. chunk \in Seq(Images) /\ Len(chunk) = n
  OBVIOUS
<1> HIDE DEF chunk
<1>2. recv \o chunk \in Seq(Images) /\ Len(recv \o chunk) = Len(recv) + n
  BY <1>1, ConcatProperties
<1> QED
  BY <1>2 DEF chunk

LEMMA InitType == Init => TypeOK
<1> SUFFICES ASSUME Init PROVE TypeOK
  OBVIOUS
<1>1. OtaTypeOK
  BY DirTypes DEF Init, OtaInit, OtaTypeOK, Media, Cached
<1>2. recv \in Seq(Images) /\ Len(recv) <= BufferUnits
  BY AppAssumption DEF Init, AppStart
<1>3. /\ step \in Steps
      /\ staged \in Directories
      /\ sHeader \in Builds
  BY DirTypes DEF Init, AppStart, Steps, NoImage, Builds
<1>4. /\ update_state \in 0..5
      /\ firmware_save_ok \in {0, 1}
      /\ run_mode \in {0, 1}
  BY DEF Init, AppStart
<1>5. /\ cacheOpen \in BOOLEAN
      /\ rebootTask \in {"none", "sleep", "synced"}
      /\ stage \in {"none", "whole", "wiping"}
  BY DEF Init, AppStart
<1> QED
  BY <1>1, <1>2, <1>3, <1>4, <1>5 DEF TypeOK

\* Which of the disk's variables an action touches decides its type.
LEMMA DiskType ==
  ASSUME OtaTypeOK, fw' \in Directories, flag' \in BOOLEAN, UNCHANGED <<boot, disk>>
  PROVE  OtaTypeOK'
BY DEF OtaTypeOK, Media

LEMMA NextType == TypeOK /\ [AppNext]_vars => TypeOK'
<1> SUFFICES ASSUME TypeOK, [AppNext]_vars PROVE TypeOK'
  OBVIOUS
<1> USE DEF TypeOK, Steps, Idle
<1>1. ASSUME NEW img \in Images, RequestUpgrade(img) PROVE TypeOK'
  BY <1>1 DEF RequestUpgrade, otaVars, OtaTypeOK, Media
<1>2. ASSUME NEW img \in Images, NEW off \in 0..BufferUnits, NEW n \in 0..1,
             DownloadImage(img, off, n)
      PROVE TypeOK'
  <2>1. recv' \in Seq(Images) /\ Len(recv') <= BufferUnits
    BY <1>2, ChunkType DEF DownloadImage, Fits, uOffset
  <2> QED
    BY <1>2, <2>1 DEF DownloadImage, otaVars, OtaTypeOK, Media
<1>3. CASE CheckImage
  BY <1>3 DEF CheckImage, otaVars, OtaTypeOK, Media
<1>4. CASE WriteImage
  <2>1. OtaTypeOK'
    BY <1>4, DiskType DEF WriteImage, ClearFlag, OtaTypeOK
  <2> QED
    BY <1>4, <2>1, DirTypes DEF WriteImage, ClearFlag
<1>5. CASE GotoApp
  BY <1>5 DEF GotoApp, otaVars, OtaTypeOK, Media
<1>6. CASE RebootSystem
  BY <1>6 DEF RebootSystem, otaVars, OtaTypeOK, Media
<1>7. ASSUME NEW f \in Files, WipeFile(f) PROVE TypeOK'
  <2>1. OtaTypeOK'
    BY <1>7, DiskType, DirTypes, DirExcept DEF WipeFile, OtaTypeOK
  <2> QED
    BY <1>7, <2>1 DEF WipeFile, appVars
<1>8. ASSUME NEW opened \in BOOLEAN, RequestDone(opened) PROVE TypeOK'
  <2>1. OtaTypeOK'
    BY <1>8, DiskType DEF RequestDone, otaVars, OtaTypeOK
  <2>2. step.img \in Images
    BY <1>8 DEF RequestDone
  <2>3. CASE opened
    <3>1. <<>> \in Seq(Images) /\ Len(<<>>) <= BufferUnits
      BY AppAssumption
    <3> QED
      BY <1>8, <2>1, <2>2, <2>3, <3>1 DEF RequestDone, Builds
  <2>4. CASE ~opened
    BY <1>8, <2>1, <2>4 DEF RequestDone
  <2> QED
    BY <2>3, <2>4
<1>9. CASE SaveFile
  <2>1. Record(step.file) \in Contents
    BY <1>9, RecordType DEF SaveFile, Parses, Record, uOffset, Files
  <2>2. OtaTypeOK'
    BY <1>9, <2>1, DiskType, DirExcept DEF SaveFile, OtaTypeOK
  <2>3. step' \in Steps
    BY <1>9 DEF SaveFile
  <2> QED
    BY <1>9, <2>2, <2>3 DEF SaveFile
<1>10. CASE SaveFileShort
  <2>1. SubSeq(Record(step.file), 1, 1) \in Contents
    BY <1>10, RecordType DEF SaveFileShort, CloseCache, Parses, Record, uOffset, Files
  <2>2. OtaTypeOK'
    BY <1>10, <2>1, DiskType, DirExcept DEF SaveFileShort, CloseCache, OtaTypeOK
  <2> QED
    BY <1>10, <2>2 DEF SaveFileShort, CloseCache
<1>11. CASE SaveFails
  BY <1>11 DEF SaveFails, CloseCache, otaVars, OtaTypeOK, Media
<1>12. CASE SaveSucceeds
  BY <1>12 DEF SaveSucceeds, CloseCache, otaVars, OtaTypeOK, Media
<1>13. ASSUME NEW created \in BOOLEAN, NEW written \in BOOLEAN, SetFlag(created, written)
       PROVE TypeOK'
  <2>1. OtaTypeOK'
    BY <1>13, DiskType DEF SetFlag, OtaTypeOK
  <2> QED
    BY <1>13, <2>1 DEF SetFlag, OtaTypeOK
<1>14. CASE RebootSync
  <2>1. OtaTypeOK'
    BY <1>14 DEF RebootSync, Sync, Cached, OtaTypeOK, Media
  <2> QED
    BY <1>14, <2>1 DEF RebootSync
<1>15. CASE UNCHANGED vars
  BY <1>15 DEF vars, otaVars, appVars, OtaTypeOK, Media
<1> QED
  BY <1>1, <1>2, <1>3, <1>4, <1>5, <1>6, <1>7, <1>8, <1>9, <1>10, <1>11, <1>12, <1>13,
     <1>14, <1>15 DEF AppNext, Command, HandlerStep

\* Every variable of the app and of the disk keeps its type.
THEOREM TypeCorrect == AppSpec => []TypeOK
BY InitType, NextType, PTL DEF AppSpec
-----------------------------------------------------------------------------
(***************************************************************************)
(* The staged package                                                      *)
(***************************************************************************)
LEMMA InitStage == Init => StageInv
BY DEF Init, AppStart, Idle, StageInv, StageIsKept

LEMMA NextStage == TypeOK /\ StageInv /\ [AppNext]_vars => StageInv'
<1> SUFFICES ASSUME TypeOK, StageInv, [AppNext]_vars PROVE StageInv'
  OBVIOUS
<1> USE DEF StageInv, StageIsKept, Idle
<1>1. ASSUME NEW img \in Images, RequestUpgrade(img) PROVE StageInv'
  BY <1>1 DEF RequestUpgrade, otaVars, TypeOK
<1>2. ASSUME NEW img \in Images, NEW off \in 0..BufferUnits, NEW n \in 0..1,
             DownloadImage(img, off, n)
      PROVE StageInv'
  BY <1>2 DEF DownloadImage, otaVars
<1>3. CASE CheckImage
  BY <1>3 DEF CheckImage, otaVars
<1>4. CASE WriteImage
  BY <1>4 DEF WriteImage, ClearFlag
<1>5. CASE GotoApp
  BY <1>5 DEF GotoApp, otaVars
<1>6. CASE RebootSystem
  BY <1>6 DEF RebootSystem, otaVars
<1>7. ASSUME NEW f \in Files, WipeFile(f) PROVE StageInv'
  <2>1. \A g \in Files : fw'[g] = IF g = f THEN Absent ELSE fw[g]
    BY <1>7, DirTypes, DirExcept DEF WipeFile, TypeOK, OtaTypeOK
  <2> QED
    BY <1>7, <2>1 DEF WipeFile, appVars
<1>8. ASSUME NEW opened \in BOOLEAN, RequestDone(opened) PROVE StageInv'
  BY <1>8 DEF RequestDone, otaVars
<1>9. CASE SaveFile
  BY <1>9 DEF SaveFile, TypeOK, Steps
<1>10. CASE SaveFileShort
  BY <1>10 DEF SaveFileShort, CloseCache
<1>11. CASE SaveFails
  BY <1>11 DEF SaveFails, CloseCache, otaVars
<1>12. CASE SaveSucceeds
  BY <1>12 DEF SaveSucceeds, CloseCache, otaVars
<1>13. ASSUME NEW created \in BOOLEAN, NEW written \in BOOLEAN, SetFlag(created, written)
       PROVE StageInv'
  BY <1>13 DEF SetFlag
<1>14. CASE RebootSync
  BY <1>14 DEF RebootSync
<1>15. CASE UNCHANGED vars
  BY <1>15 DEF vars, otaVars, appVars
<1> QED
  BY <1>1, <1>2, <1>3, <1>4, <1>5, <1>6, <1>7, <1>8, <1>9, <1>10, <1>11, <1>12, <1>13,
     <1>14, <1>15 DEF AppNext, Command, HandlerStep

\* While update.flag exists nobody replaces, cuts short or mixes the files of
\* the staged package: WRITE removes the flag before it touches firmware/.
THEOREM StageKept == AppSpec => []StageIsKept
<1>1. Init => TypeOK /\ StageInv
  BY InitType, InitStage
<1>2. TypeOK /\ StageInv /\ [AppNext]_vars => (TypeOK /\ StageInv)'
  BY NextType, NextStage
<1>3. StageInv => StageIsKept
  BY DEF StageInv
<1> QED
  BY <1>1, <1>2, <1>3, PTL DEF AppSpec
-----------------------------------------------------------------------------
(***************************************************************************)
(* The cache of the download                                               *)
(***************************************************************************)
LEMMA InitChecked == Init => CheckedImage
BY DEF Init, AppStart, CheckedImage

LEMMA NextChecked == CheckedImage /\ [AppNext]_vars => CheckedImage'
<1> SUFFICES ASSUME CheckedImage, [AppNext]_vars PROVE CheckedImage'
  OBVIOUS
<1> USE DEF CheckedImage, firmware_check, uOffset
<1>1. ASSUME NEW img \in Images, NEW off \in 0..BufferUnits, NEW n \in 0..1,
             DownloadImage(img, off, n)
      PROVE CheckedImage'
  BY <1>1 DEF DownloadImage
<1>2. ASSUME NEW opened \in BOOLEAN, RequestDone(opened) PROVE CheckedImage'
  BY <1>2 DEF RequestDone
<1>3. CASE CheckImage
  BY <1>3 DEF CheckImage
<1>4. CASE WriteImage
  BY <1>4 DEF WriteImage, ClearFlag
<1>5. CASE GotoApp
  BY <1>5 DEF GotoApp
<1>6. CASE UNCHANGED <<update_state, sHeader, recv>>
  BY <1>6
<1>7. \/ \E img \in Images : RequestUpgrade(img)
      \/ RebootSystem
      \/ \E f \in Files : WipeFile(f)
      \/ SaveFile \/ SaveFileShort \/ SaveFails \/ SaveSucceeds
      \/ \E created, written \in BOOLEAN : SetFlag(created, written)
      \/ RebootSync
      \/ UNCHANGED vars
      => UNCHANGED <<update_state, sHeader, recv>>
  BY DEF RequestUpgrade, RebootSystem, WipeFile, SaveFile, SaveFileShort, SaveFails,
         SaveSucceeds, SetFlag, RebootSync, vars, appVars
<1> QED
  BY <1>1, <1>2, <1>3, <1>4, <1>5, <1>6, <1>7 DEF AppNext, Command, HandlerStep

\* From a CHECK answered OK to the next command of the upgrade, cache.bin holds
\* one genuine image: the one the accepted header describes.
THEOREM CheckedStays == AppSpec => []CheckedImage
BY InitChecked, NextChecked, PTL DEF AppSpec
-----------------------------------------------------------------------------
(***************************************************************************)
(* firmware/ is empty when a package is written                            *)
(***************************************************************************)
LEMMA InitCache == Init => CacheInv
BY DEF Init, AppStart, Idle, CacheInv, NoStaleTail

LEMMA NextCache == TypeOK /\ CacheInv /\ [AppNext]_vars => CacheInv'
<1> SUFFICES ASSUME TypeOK, CacheInv, [AppNext]_vars PROVE CacheInv'
  OBVIOUS
<1> USE DEF CacheInv, NoStaleTail, Idle
<1>1. ASSUME NEW img \in Images, RequestUpgrade(img) PROVE CacheInv'
  BY <1>1 DEF RequestUpgrade, otaVars
<1>2. ASSUME NEW img \in Images, NEW off \in 0..BufferUnits, NEW n \in 0..1,
             DownloadImage(img, off, n)
      PROVE CacheInv'
  BY <1>2 DEF DownloadImage, otaVars
<1>3. CASE CheckImage
  BY <1>3 DEF CheckImage, otaVars
<1>4. CASE WriteImage
  BY <1>4 DEF WriteImage, ClearFlag, EmptyDir
<1>5. CASE GotoApp
  BY <1>5 DEF GotoApp, otaVars
<1>6. CASE RebootSystem
  BY <1>6 DEF RebootSystem, otaVars
<1>7. ASSUME NEW f \in Files, WipeFile(f) PROVE CacheInv'
  \* with an open cache there is nothing left to remove
  <2>1. ~cacheOpen
    BY <1>7 DEF WipeFile, EmptyDir
  <2> QED
    BY <1>7, <2>1 DEF WipeFile, appVars
<1>8. ASSUME NEW opened \in BOOLEAN, RequestDone(opened) PROVE CacheInv'
  BY <1>8 DEF RequestDone, otaVars
<1>9. CASE SaveFile
  <2>1. step.file \in Nat /\ step'.at = "save" /\ step'.file = step.file + 1
    BY <1>9 DEF SaveFile, TypeOK, Steps
  <2>2. ASSUME NEW f \in Files, f >= step.file + 1, cacheOpen PROVE fw'[f] = Absent
    <3>1. f \in Nat /\ f # step.file /\ f >= step.file
      BY <2>1, <2>2 DEF Files
    <3>2. fw[f] = Absent
      BY <1>9, <2>2, <3>1 DEF SaveFile
    <3>3. fw'[f] = fw[f]
      BY <1>9, <3>1 DEF SaveFile, TypeOK, OtaTypeOK, Directories
    <3> QED
      BY <3>2, <3>3
  <2> QED
    BY <1>9, <2>1, <2>2 DEF SaveFile
<1>10. CASE SaveFileShort
  BY <1>10 DEF SaveFileShort, CloseCache
<1>11. CASE SaveFails
  BY <1>11 DEF SaveFails, CloseCache
<1>12. CASE SaveSucceeds
  BY <1>12 DEF SaveSucceeds, CloseCache
<1>13. ASSUME NEW created \in BOOLEAN, NEW written \in BOOLEAN, SetFlag(created, written)
       PROVE CacheInv'
  BY <1>13 DEF SetFlag
<1>14. CASE RebootSync
  BY <1>14 DEF RebootSync
<1>15. CASE UNCHANGED vars
  BY <1>15 DEF vars, otaVars, appVars
<1> QED
  BY <1>1, <1>2, <1>3, <1>4, <1>5, <1>6, <1>7, <1>8, <1>9, <1>10, <1>11, <1>12, <1>13,
     <1>14, <1>15 DEF AppNext, Command, HandlerStep

\* firmware_write never opens a file that is already there: its open() has no
\* O_TRUNC, and an older tail would survive behind the new bytes.
THEOREM NoTailSurvives == AppSpec => []NoStaleTail
<1>1. Init => TypeOK /\ CacheInv
  BY InitType, InitCache
<1>2. TypeOK /\ CacheInv /\ [AppNext]_vars => (TypeOK /\ CacheInv)'
  BY NextType, NextCache
<1>3. CacheInv => NoStaleTail
  BY DEF CacheInv
<1> QED
  BY <1>1, <1>2, <1>3, PTL DEF AppSpec
-----------------------------------------------------------------------------
(***************************************************************************)
(* What WRITE leaves in firmware/ when it succeeds                         *)
(***************************************************************************)
LEMMA InitSave == Init => SaveInv
BY DEF Init, AppStart, Idle, SaveInv

LEMMA NextSave == TypeOK /\ CacheInv /\ SaveInv /\ [AppNext]_vars => SaveInv'
<1> SUFFICES ASSUME TypeOK, CacheInv, SaveInv, [AppNext]_vars PROVE SaveInv'
  OBVIOUS
<1> USE DEF SaveInv, Idle
<1>1. ASSUME NEW img \in Images, RequestUpgrade(img) PROVE SaveInv'
  BY <1>1 DEF RequestUpgrade, otaVars
<1>2. ASSUME NEW img \in Images, NEW off \in 0..BufferUnits, NEW n \in 0..1,
             DownloadImage(img, off, n)
      PROVE SaveInv'
  BY <1>2 DEF DownloadImage, otaVars
<1>3. CASE CheckImage
  BY <1>3 DEF CheckImage, otaVars
<1>4. CASE WriteImage
  BY <1>4 DEF WriteImage, ClearFlag, Files
<1>5. CASE GotoApp
  BY <1>5 DEF GotoApp, otaVars
<1>6. CASE RebootSystem
  BY <1>6 DEF RebootSystem, otaVars
<1>7. ASSUME NEW f \in Files, WipeFile(f) PROVE SaveInv'
  BY <1>7 DEF WipeFile, appVars
<1>8. ASSUME NEW opened \in BOOLEAN, RequestDone(opened) PROVE SaveInv'
  BY <1>8 DEF RequestDone, otaVars
<1>9. CASE SaveFile
  <2>1. /\ step.file \in Files /\ cacheOpen /\ 2 * step.file <= Len(recv)
        /\ step'.at = "save" /\ step'.file = step.file + 1
    BY <1>9 DEF SaveFile, Parses, uOffset, TypeOK, Steps
  <2>2. Whole(Record(step.file))
    BY <2>1, RecordType DEF Record, Files, TypeOK
  <2>3. ASSUME NEW f \in Files, f < step.file + 1 PROVE Whole(fw'[f])
    <3>1. CASE f = step.file
      BY <1>9, <2>1, <2>2, <3>1 DEF SaveFile, TypeOK, OtaTypeOK, Directories
    <3>2. CASE f # step.file
      <4>1. f < step.file
        BY <2>1, <2>3, <3>2 DEF Files
      <4>2. fw'[f] = fw[f]
        BY <1>9, <3>2 DEF SaveFile, TypeOK, OtaTypeOK, Directories
      <4> QED
        BY <1>9, <2>1, <4>1, <4>2 DEF SaveFile
    <3> QED
      BY <3>1, <3>2
  <2> QED
    BY <1>9, <2>1, <2>3 DEF SaveFile, Files
<1>10. CASE SaveFileShort
  BY <1>10 DEF SaveFileShort, CloseCache
<1>11. CASE SaveFails
  BY <1>11 DEF SaveFails, CloseCache, otaVars
<1>12. CASE SaveSucceeds
  <2>1. step.file \in Nat
    BY <1>12 DEF SaveSucceeds, CloseCache, TypeOK, Steps, Idle
  <2>2. CASE cacheOpen
    <3>1. Sound(fw)
      BY <1>12, <2>1, <2>2 DEF SaveSucceeds, CloseCache, CacheInv, NoStaleTail, Sound, Files
    <3> QED
      BY <1>12, <3>1 DEF SaveSucceeds, CloseCache, otaVars, Sound
  <2>3. CASE ~cacheOpen
    <3>1. Len(recv) = 0
      BY <1>12, <2>3 DEF SaveSucceeds, CloseCache, Consumed, uOffset
    <3>2. recv = <<>>
      BY <3>1, EmptySeq DEF TypeOK
    <3> QED
      BY <1>12, <3>2 DEF SaveSucceeds, CloseCache, otaVars
  <2> QED
    BY <2>2, <2>3
<1>13. ASSUME NEW created \in BOOLEAN, NEW written \in BOOLEAN, SetFlag(created, written)
       PROVE SaveInv'
  BY <1>13 DEF SetFlag
<1>14. CASE RebootSync
  BY <1>14 DEF RebootSync, Sound
<1>15. CASE UNCHANGED vars
  BY <1>15 DEF vars, otaVars, appVars, Sound
<1> QED
  BY <1>1, <1>2, <1>3, <1>4, <1>5, <1>6, <1>7, <1>8, <1>9, <1>10, <1>11, <1>12, <1>13,
     <1>14, <1>15 DEF AppNext, Command, HandlerStep

\* The files before the one that WRITE is at are the received records, and when it is
\* through there are no others.
SavedInv ==
  /\ step.at = "save" /\ cacheOpen =>
       /\ 2 * (step.file - 1) <= uOffset
       /\ \A f \in Files : f < step.file => fw[f] = Record(f)
  /\ step.at = "flag" =>
       \/ recv = <<>>
       \/ \A f \in Files : fw[f] = IF 2 * f <= uOffset THEN Record(f) ELSE Absent

\* Only SaveFile, SaveSucceeds and what ends a handler matter.
LEMMA SameSaved ==
  ASSUME SavedInv, UNCHANGED <<fw, recv, cacheOpen, step>>
  PROVE  SavedInv'
BY DEF SavedInv, Record, uOffset

LEMMA NextSaved ==
  ASSUME TypeOK, CacheInv, SaveInv, SavedInv, [AppNext]_vars
  PROVE  SavedInv'
<1> USE DEF Idle
<1>1. ASSUME step'.at \notin {"save", "flag"} PROVE SavedInv'
  BY <1>1 DEF SavedInv
<1>2. ASSUME NEW img \in Images, RequestUpgrade(img) PROVE SavedInv'
  BY <1>1, <1>2 DEF RequestUpgrade
<1>3. ASSUME NEW img \in Images, NEW off \in 0..BufferUnits, NEW n \in 0..1,
             DownloadImage(img, off, n)
      PROVE  SavedInv'
  BY <1>1, <1>3 DEF DownloadImage
<1>4. CASE CheckImage \/ GotoApp \/ RebootSystem
  BY <1>1, <1>4 DEF CheckImage, GotoApp, RebootSystem
<1>5. CASE WriteImage
  <2>1. step' = [at |-> "save", file |-> 1] /\ UNCHANGED <<fw, recv, cacheOpen>>
    BY <1>5 DEF WriteImage
  <2>2. \A f \in Files : ~(f < 1)
    BY DEF Files
  <2>3. 2 * (1 - 1) <= Len(recv)
    BY DEF TypeOK
  <2> QED
    BY <2>1, <2>2, <2>3 DEF SavedInv, uOffset
<1>6. ASSUME NEW f \in Files, WipeFile(f) PROVE SavedInv'
  BY <1>1, <1>6 DEF WipeFile, appVars
<1>7. ASSUME NEW opened \in BOOLEAN, RequestDone(opened) PROVE SavedInv'
  BY <1>1, <1>7 DEF RequestDone
<1>8. CASE SaveFile
  <2>1. /\ step.at = "save" /\ step.file \in Files /\ step.file \in Nat
        /\ cacheOpen /\ 2 * step.file <= Len(recv)
        /\ fw' = [fw EXCEPT ![step.file] = Record(step.file)]
        /\ step'.at = "save" /\ step'.file = step.file + 1
        /\ UNCHANGED <<recv, cacheOpen>>
    BY <1>8 DEF SaveFile, Parses, uOffset, TypeOK, Steps, Files
  <2>2. ASSUME NEW f \in Files, f < step.file + 1 PROVE fw'[f] = Record(f)
    <3>1. CASE f = step.file
      BY <2>1, <3>1 DEF TypeOK, OtaTypeOK, Directories
    <3>2. CASE f # step.file
      <4>1. f < step.file
        BY <2>1, <2>2, <3>2 DEF Files
      <4>2. fw'[f] = fw[f]
        BY <2>1, <3>2 DEF TypeOK, OtaTypeOK, Directories
      <4> QED
        BY <2>1, <4>1, <4>2 DEF SavedInv
    <3> QED
      BY <3>1, <3>2
  <2>3. \A f \in Files : f < step'.file => fw'[f] = Record(f)'
    BY <2>1, <2>2 DEF Record
  <2>4. 2 * (step'.file - 1) <= uOffset'
    <3>1. 2 * (step.file + 1 - 1) <= Len(recv)
      BY <2>1
    <3> QED
      BY <2>1, <3>1 DEF uOffset
  <2> QED
    BY <2>1, <2>3, <2>4 DEF SavedInv
<1>9. CASE SaveFileShort \/ SaveFails
  BY <1>1, <1>9 DEF SaveFileShort, SaveFails
<1>10. CASE SaveSucceeds
  <2>1. /\ step.at = "save" /\ step.file \in Nat /\ 2 * (step.file - 1) = Len(recv)
        /\ step'.at = "flag" /\ UNCHANGED <<fw, recv>>
    BY <1>10 DEF SaveSucceeds, Consumed, uOffset, otaVars, TypeOK, Steps
  <2>2. CASE cacheOpen
    <3>1. ASSUME NEW f \in Files
          PROVE  fw[f] = IF 2 * f <= uOffset THEN Record(f) ELSE Absent
      <4>1. CASE f < step.file
        <5>1. 2 * f <= Len(recv)
          BY <2>1, <4>1 DEF Files
        <5>2. fw[f] = Record(f)
          BY <2>1, <2>2, <4>1 DEF SavedInv
        <5> QED
          BY <5>1, <5>2 DEF uOffset
      <4>2. CASE ~(f < step.file)
        <5>1. f >= step.file /\ ~(2 * f <= Len(recv))
          BY <2>1, <4>2 DEF Files
        <5>2. fw[f] = Absent
          BY <2>1, <2>2, <5>1 DEF CacheInv, NoStaleTail
        <5> QED
          BY <5>1, <5>2 DEF uOffset
      <4> QED
        BY <4>1, <4>2
    <3>2. \A f \in Files : fw'[f] = IF 2 * f <= uOffset' THEN Record(f)' ELSE Absent
      BY <2>1, <3>1 DEF Record, uOffset
    <3> QED
      BY <2>1, <3>2 DEF SavedInv
  <2>3. CASE ~cacheOpen
    <3>1. Len(recv) = 0
      BY <2>1, <2>3 DEF SaveInv
    <3>2. recv = <<>>
      BY <3>1, EmptySeq DEF TypeOK
    <3> QED
      BY <2>1, <3>2 DEF SavedInv
  <2> QED
    BY <2>2, <2>3
<1>11. ASSUME NEW created \in BOOLEAN, NEW written \in BOOLEAN, SetFlag(created, written)
       PROVE  SavedInv'
  BY <1>1, <1>11 DEF SetFlag
<1>12. CASE RebootSync \/ UNCHANGED vars
  BY <1>12, SameSaved DEF RebootSync, vars, otaVars, appVars
<1> QED
  BY <1>2, <1>3, <1>4, <1>5, <1>6, <1>7, <1>8, <1>9, <1>10, <1>11, <1>12
     DEF AppNext, Command, HandlerStep

\* The inductive invariant of the app alone.
AppInv == TypeOK /\ CacheInv /\ SaveInv /\ SavedInv

LEMMA InitAppInv == Init => AppInv
<1>1. Init => SavedInv
  BY DEF Init, AppStart, Idle, SavedInv
<1> QED
  BY <1>1, InitType, InitCache, InitSave DEF AppInv

LEMMA NextAppInv == AppInv /\ [AppNext]_vars => AppInv'
BY NextType, NextCache, NextSave, NextSaved DEF AppInv

\* Which actions change the flag and what it stands for.
LEMMA FlagSteps ==
  ASSUME AppInv, [AppNext]_vars
  PROVE  \/ UNCHANGED <<fw, flag>>
            /\ (step'.at = "wipe" => step.at = "wipe" \/ step = Idle)
            /\ (step.at = "wipe" => step'.at = "wipe" \/ fw = EmptyDir)
         \/ ~flag'
         \/ UNCHANGED <<flag, step>> /\ step.at = "wipe"
         \/ step.at = "flag" /\ step' = Idle /\ UNCHANGED <<fw, recv>> /\ ~flag /\ flag'
<1> USE DEF Idle, otaVars
<1>1. ASSUME NEW img \in Images, RequestUpgrade(img)
      PROVE  UNCHANGED <<fw, flag>> /\ step = Idle
  BY <1>1 DEF RequestUpgrade
<1>2. ASSUME NEW img \in Images, NEW off \in 0..BufferUnits, NEW n \in 0..1,
             DownloadImage(img, off, n)
      PROVE  UNCHANGED <<fw, flag, step>>
  BY <1>2 DEF DownloadImage
<1>3. CheckImage \/ GotoApp \/ RebootSystem \/ RebootSync => UNCHANGED <<fw, flag, step>>
  BY DEF CheckImage, GotoApp, RebootSystem, RebootSync
<1>4. WriteImage => ~flag'
  BY DEF WriteImage, ClearFlag
<1>5. ASSUME NEW f \in Files, WipeFile(f) PROVE step.at = "wipe" /\ UNCHANGED <<flag, step>>
  BY <1>5 DEF WipeFile, appVars
<1>6. ASSUME NEW opened \in BOOLEAN, RequestDone(opened)
      PROVE  UNCHANGED <<fw, flag>> /\ fw = EmptyDir /\ step'.at = "idle"
  BY <1>6 DEF RequestDone
<1>7. SaveFile \/ SaveFileShort => ~flag'
  BY DEF SaveFile, SaveFileShort, AppInv, SaveInv
<1>8. SaveFails \/ SaveSucceeds
        => UNCHANGED <<fw, flag>> /\ step.at = "save" /\ step'.at # "wipe"
  BY DEF SaveFails, SaveSucceeds
<1>9. ASSUME NEW created \in BOOLEAN, NEW written \in BOOLEAN, SetFlag(created, written)
      PROVE  /\ step.at = "flag" /\ step' = Idle /\ UNCHANGED <<fw, recv>> /\ ~flag
             /\ flag' \in BOOLEAN
  BY <1>9, NextAppInv DEF SetFlag, AppInv, SaveInv, TypeOK, OtaTypeOK
<1>10. UNCHANGED vars => UNCHANGED <<fw, flag, step>>
  BY DEF vars, appVars
<1> QED
  BY <1>1, <1>2, <1>3, <1>4, <1>5, <1>6, <1>7, <1>8, <1>9, <1>10
     DEF AppNext, Command, HandlerStep

\* Where something was received, the flag appears with all of it in firmware/.
LEMMA FlagMeansReceived ==
  ASSUME AppInv, [AppNext]_vars, ~flag, flag', recv # <<>>
  PROVE  fw = [f \in Files |-> IF 2 * f <= uOffset THEN SubSeq(recv, 2 * f - 1, 2 * f)
                                                   ELSE Absent]
<1>1. step.at = "flag"
  BY FlagSteps
<1>2. \A f \in Files : fw[f] = IF 2 * f <= uOffset THEN Record(f) ELSE Absent
  BY <1>1 DEF AppInv, SavedInv
<1>3. fw = [f \in Files |-> fw[f]]
  BY DEF AppInv, TypeOK, OtaTypeOK, Directories
<1> QED
  BY <1>2, <1>3 DEF Record

\* update.flag appears only for what was received, all of it and nothing else, for any
\* number of builds and files and whatever requests, refused downloads and failed writes
\* went before.
THEOREM StagedWasReceived == AppSpec => StagedIsReceived
<1>1. AppInv /\ [AppNext]_vars
        => [~flag /\ flag' /\ recv # <<>> =>
              fw = [f \in Files |-> IF 2 * f <= uOffset THEN SubSeq(recv, 2 * f - 1, 2 * f)
                                                        ELSE Absent]]_vars
  BY FlagMeansReceived
<1> QED
  BY <1>1, InitAppInv, NextAppInv, PTL DEF AppSpec, StagedIsReceived

\* The package of StagedPackage, as AppUpgrade and OtaSystem map it.
Package == IF flag /\ step.at # "wipe" THEN fw ELSE EmptyDir

LEMMA AppPackage ==
  ASSUME AppInv, [AppNext]_vars
  PROVE  (Staged!Stage /\ ~flag) \/ Staged!Withdraw \/ UNCHANGED Package \/ EmptySave
<1>1. fw' \in Directories
  BY NextAppInv DEF AppInv, TypeOK, OtaTypeOK
<1>2. CASE Package' = EmptyDir
  BY <1>2 DEF Staged!Withdraw, Package
<1>3. CASE Package' # EmptyDir
  <2>1. flag' /\ step'.at # "wipe" /\ fw' # EmptyDir
    BY <1>3 DEF Package
  <2>2. \/ UNCHANGED <<fw, flag>> /\ step.at # "wipe"
        \/ step.at = "flag" /\ step' = Idle /\ UNCHANGED fw /\ ~flag
    BY <2>1, FlagSteps
  <2>3. CASE UNCHANGED <<fw, flag>> /\ step.at # "wipe"
    BY <2>1, <2>3 DEF Package
  <2>4. CASE step.at = "flag" /\ step' = Idle /\ UNCHANGED fw /\ ~flag
    <3>1. recv = <<>> \/ Sound(fw)
      BY <2>4 DEF AppInv, SaveInv
    <3>2. CASE recv = <<>>
      BY <2>1, <2>4, <3>2 DEF EmptySave
    <3>3. CASE Sound(fw)
      BY <1>1, <2>1, <2>4, <3>3 DEF Staged!Stage, Packages, Package
    <3> QED
      BY <3>1, <3>2, <3>3
  <2> QED
    BY <2>2, <2>3, <2>4
<1> QED
  BY <1>2, <1>3

\* The app keeps StagedPackage as the upgrade server of u-boot does: what update.flag
\* stands for appears complete and in one step, is never touched, and goes in one step,
\* unless the flag is created by an empty save.
THEOREM AppImplementsStaged == AppSpec => AppFlagFreezes
<1>1. Init => Staged!StagedInit
  BY DEF Init, OtaInit, Staged!StagedInit
<1>2. AppInv /\ [AppNext]_vars
        => [\/ Staged!Stage /\ ~flag
            \/ Staged!Withdraw
            \/ UNCHANGED (IF flag /\ step.at # "wipe" THEN fw ELSE EmptyDir)
            \/ EmptySave]_vars
  BY AppPackage DEF Package
<1> QED
  BY <1>1, <1>2, InitAppInv, NextAppInv, PTL DEF AppSpec, AppFlagFreezes
-----------------------------------------------------------------------------
(***************************************************************************)
(* The system: app, u-boot, start-up script and power                      *)
(***************************************************************************)
\* Only the app holds an open cache.bin or is in the middle of a command.
QuietInv == phase # "app" => step = Idle /\ cacheOpen = FALSE

\* Which changes of the running program may not be durable yet.
DiskInv ==
  /\ phase \in {"uboot", "rc", "download", "dead"} => disk = Cached
  /\ phase \in {"copy", "copying"} => flag /\ disk.flag /\ disk.fw = fw
  /\ phase = "app" => disk.boot = boot
  /\ phase = "copying" => rcFile \in Files /\ fw[rcFile] # Absent

\* The files the start-up script has dealt with.
Copied(f) == fw[f] # Absent => boot[f] = fw[f]

\* Every file of the boot partition that is cut short can be copied again.
Redoable ==
  \A f \in Files : ~Whole(boot[f]) => disk.flag /\ flag /\ Whole(fw[f]) /\ disk.fw[f] = fw[f]

\* As long as no harm was done: what is staged is sound, the copies of it are
\* the only changes of the boot partition, and the ROM finds a boot loader.
HarmlessInv ==
  /\ flag \/ phase = "rmdone" => Sound(fw)
  /\ \A f \in Files : boot[f] # disk.boot[f] => Whole(fw[f])
  /\ Redoable
  /\ phase \in {"app", "rmdone"} => \A f \in Files : Whole(boot[f])
  /\ phase \in {"copy", "copying"} => \A f \in Files : f < rcFile => Copied(f)
  /\ phase = "rmdone" => \A f \in Files : Copied(f)
  /\ phase = "uboot" => Whole(boot[BootBin])
  /\ phase \notin {"dead", "download"}

SysInv ==
  /\ SystemTypeOK
  /\ CacheInv
  /\ SaveInv
  /\ QuietInv
  /\ DiskInv
  /\ harm = {} => HarmlessInv

USE DEF BootBin
-----------------------------------------------------------------------------
LEMMA FirstFile == BootBin \in Files
BY OtaAssumption DEF Files

LEMMA DeliveredWhole == \A f \in Files : Whole(Delivered[f])
BY DEF Delivered, Whole

LEMMA InitSysInv == SystemInit => SysInv
<1> SUFFICES ASSUME SystemInit PROVE SysInv
  OBVIOUS
<1> USE DEF SystemInit
<1>1. SystemTypeOK
  BY InitType, OtaAssumption DEF SystemTypeOK, Phases
<1>2. CacheInv /\ SaveInv
  BY InitCache, InitSave
<1>3. QuietInv
  BY DEF QuietInv, Init, AppStart
<1>4. DiskInv
  BY DEF DiskInv, Init, OtaInit
<1>5. HarmlessInv
  BY DeliveredWhole, FirstFile DEF HarmlessInv, Redoable, Init, OtaInit, Cached, Sound
<1> QED
  BY <1>1, <1>2, <1>3, <1>4, <1>5 DEF SysInv
-----------------------------------------------------------------------------
(***************************************************************************)
(* The app                                                                 *)
(***************************************************************************)
\* A command leaves the boot partition alone; as long as a flag is set it only
\* removes files, and it sets the flag only for what WRITE has completed.
LEMMA AppDisk ==
  ASSUME SaveInv, AppNext
  PROVE  /\ boot' = boot
         /\ disk' = disk \/ disk' = Cached
         /\ flag' => \/ flag /\ UNCHANGED fw
                     \/ flag /\ \E f \in Files : fw' = [fw EXCEPT ![f] = Absent]
                     \/ step.at = "flag" /\ step' = Idle /\ UNCHANGED fw
<1> USE DEF SaveInv
<1>1. ASSUME NEW img \in Images, RequestUpgrade(img)
      PROVE UNCHANGED otaVars
  BY <1>1 DEF RequestUpgrade
<1>2. ASSUME NEW img \in Images, NEW off \in 0..BufferUnits, NEW n \in 0..1,
             DownloadImage(img, off, n)
      PROVE UNCHANGED otaVars
  BY <1>2 DEF DownloadImage
<1>3. ASSUME NEW opened \in BOOLEAN, RequestDone(opened) PROVE UNCHANGED otaVars
  BY <1>3 DEF RequestDone
<1>4. CheckImage \/ GotoApp \/ RebootSystem \/ SaveFails \/ SaveSucceeds => UNCHANGED otaVars
  BY DEF CheckImage, GotoApp, RebootSystem, SaveFails, SaveSucceeds
<1>5. WriteImage => ~flag' /\ UNCHANGED <<boot, disk>>
  BY DEF WriteImage, ClearFlag
<1>6. SaveFile \/ SaveFileShort => ~flag /\ UNCHANGED <<flag, boot, disk>>
  BY DEF SaveFile, SaveFileShort
<1>7. ASSUME NEW f \in Files, WipeFile(f)
      PROVE  fw' = [fw EXCEPT ![f] = Absent] /\ UNCHANGED <<flag, boot, disk>>
  BY <1>7 DEF WipeFile
<1>8. ASSUME NEW created \in BOOLEAN, NEW written \in BOOLEAN, SetFlag(created, written)
      PROVE  step.at = "flag" /\ step' = Idle /\ UNCHANGED <<fw, boot, disk>>
  BY <1>8 DEF SetFlag
<1>9. RebootSync => disk' = Cached /\ UNCHANGED <<fw, flag, boot>>
  BY DEF RebootSync, Sync
<1> QED
  BY <1>1, <1>2, <1>3, <1>4, <1>5, <1>6, <1>7, <1>8, <1>9
     DEF AppNext, Command, HandlerStep, otaVars

LEMMA AppStep == SysInv /\ App => SysInv'
<1> SUFFICES ASSUME SysInv, App PROVE SysInv'
  OBVIOUS
<1> USE DEF SysInv, SystemTypeOK
<1>1. AppNext /\ phase = "app" /\ phase' = "app" /\ rcFile' = rcFile
  BY DEF App
<1>2. TypeOK' /\ CacheInv' /\ SaveInv'
  BY <1>1, NextType, NextCache, NextSave
<1>3. SystemTypeOK'
  BY <1>1, <1>2 DEF App, Harms
<1>4. QuietInv'
  BY <1>1 DEF QuietInv
<1>5. boot' = boot /\ (disk' = disk \/ disk' = Cached)
  BY <1>1, AppDisk
<1>6. disk'.boot = boot'
  BY <1>1, <1>5 DEF DiskInv, Cached
<1>7. DiskInv'
  BY <1>1, <1>6 DEF DiskInv
<1>8. ASSUME harm' = {} PROVE HarmlessInv'
  <2>1. harm = {} /\ ~EmptySave
    BY <1>8 DEF App
  <2>2. \A f \in Files : Whole(boot'[f])
    BY <1>1, <1>5, <2>1 DEF HarmlessInv
  <2>3. flag' => Sound(fw')
    <3>1. CASE flag /\ UNCHANGED fw
      BY <2>1, <3>1 DEF HarmlessInv, Sound
    <3>2. ASSUME flag, NEW f \in Files, fw' = [fw EXCEPT ![f] = Absent] PROVE Sound(fw')
      <4>1. \A g \in Files : fw'[g] = IF g = f THEN Absent ELSE fw[g]
        BY <3>2, DirTypes, DirExcept DEF TypeOK, OtaTypeOK
      <4> QED
        BY <2>1, <3>2, <4>1 DEF HarmlessInv, Sound
    <3>3. CASE flag' /\ step.at = "flag" /\ step' = Idle /\ UNCHANGED fw
      <4>1. recv # <<>> \/ fw = EmptyDir
        BY <2>1, <3>3 DEF EmptySave
      <4>2. Sound(fw)
        BY <3>3, <4>1 DEF SaveInv, Sound, EmptyDir
      <4> QED
        BY <3>3, <4>2 DEF Sound
    <3> QED
      BY <1>1, <3>1, <3>2, <3>3, AppDisk
  <2> QED
    BY <1>1, <1>6, <2>2, <2>3 DEF HarmlessInv, Redoable
<1> QED
  BY <1>2, <1>3, <1>4, <1>7, <1>8
-----------------------------------------------------------------------------
(***************************************************************************)
(* The boot loader                                                         *)
(***************************************************************************)
\* Without harm everything update_system or boot.scr loads is complete.
LEMMA SelectedWhole ==
  ASSUME phase = "uboot", HarmlessInv
  PROVE  Boots
<1>1. Whole(boot[BootBin])
  BY DEF HarmlessInv
<1>2. ~Whole(Absent)
  BY DEF Whole, Absent
<1>3. ASSUME NEW f \in Files PROVE Whole(Selected[f])
  <2>1. CASE flag
    BY <1>2, <2>1 DEF HarmlessInv, Redoable, Sound, Selected, Overlay
  <2>2. CASE ~flag
    BY <2>2 DEF HarmlessInv, Redoable, Selected
  <2> QED
    BY <2>1, <2>2
<1> QED
  BY <1>1, <1>3 DEF Boots

\* Boot loader and script are not interested in the app, which has not been started.
LEMMA NotTheApp ==
  ASSUME SysInv, phase # "app", phase' # "app" \/ phase = "rc",
         UNCHANGED <<step, cacheOpen>>
  PROVE  CacheInv' /\ SaveInv' /\ QuietInv'
BY DEF SysInv, QuietInv, CacheInv, NoStaleTail, SaveInv, Idle

LEMMA UBootStep == SysInv /\ UBoot => SysInv'
<1> SUFFICES ASSUME SysInv, UBoot PROVE SysInv'
  OBVIOUS
<1> USE DEF SysInv
<1>1. /\ phase = "uboot"
      /\ phase' \in {"rc", "download", "dead"}
      /\ UNCHANGED <<vars, rcFile>>
  BY DEF UBoot
<1>2. /\ UNCHANGED <<fw, flag, boot, disk>>
      /\ step' = step /\ cacheOpen' = cacheOpen /\ recv' = recv
  BY <1>1 DEF vars, otaVars, appVars
<1>3. TypeOK' /\ CacheInv' /\ SaveInv'
  BY <1>1, NextType, NextCache, NextSave DEF SystemTypeOK
<1>4. SystemTypeOK'
  BY <1>1, <1>3 DEF SystemTypeOK, UBoot, Phases
<1>5. QuietInv'
  BY <1>1, <1>2 DEF QuietInv
<1>6. disk = Cached /\ disk' = Cached'
  BY <1>1, <1>2 DEF DiskInv, Cached
<1>7. DiskInv'
  BY <1>1, <1>6 DEF DiskInv
<1>8. ASSUME harm' = {} PROVE HarmlessInv'
  <2>1. CASE harm = {}
    <3>1. phase' = "rc"
      BY <1>1, <2>1, SelectedWhole DEF UBoot
    <3> QED
      BY <1>1, <1>2, <2>1, <3>1 DEF HarmlessInv, Redoable, Sound
  <2>2. CASE harm # {}
    <3>1. flag /\ Whole(boot[BootBin]) /\ \A f \in Files : Whole(fw[f])
      BY <1>8, <2>2 DEF UBoot
    <3>2. Boots
      BY <3>1 DEF Boots, Selected, Overlay, Whole, Absent
    <3>3. phase' = "rc"
      BY <3>2 DEF UBoot
    <3>4. disk.flag = flag /\ disk.fw = fw /\ disk.boot = boot
      BY <1>6 DEF Cached
    <3> QED
      BY <1>2, <3>1, <3>3, <3>4 DEF HarmlessInv, Redoable, Sound
  <2> QED
    BY <2>1, <2>2
<1> QED
  BY <1>3, <1>4, <1>5, <1>7, <1>8

\* The server is needed only where harm was done.
LEMMA UBootServesStep == SysInv /\ UBootServes => SysInv'
<1> SUFFICES ASSUME SysInv, UBootServes PROVE SysInv'
  OBVIOUS
<1> USE DEF SysInv, SystemTypeOK
<1>1. /\ phase = "download" /\ phase' = "download"
      /\ UNCHANGED <<step, cacheOpen, rcFile, harm>>
      /\ UNCHANGED <<update_state, firmware_save_ok, run_mode, sHeader, recv, rebootTask>>
  BY DEF UBootServes, bootVars
<1>2. OtaTypeOK' /\ disk' = Cached'
  BY ServerDisk DEF UBootServes, TypeOK
<1>3. (stage' = stage /\ staged' = staged) \/ (stage' = "none" /\ staged' = EmptyDir)
  BY DEF UBootServes
<1>4. TypeOK'
  BY <1>1, <1>2, <1>3, DirTypes DEF TypeOK
<1>5. CacheInv' /\ SaveInv' /\ QuietInv'
  BY <1>1, NotTheApp
<1>6. DiskInv'
  BY <1>1, <1>2 DEF DiskInv
<1>7. harm' # {}
  BY <1>1 DEF HarmlessInv
<1> QED
  BY <1>1, <1>4, <1>5, <1>6, <1>7

LEMMA UBootLeavesStep == SysInv /\ UBootLeaves => SysInv'
<1> SUFFICES ASSUME SysInv, UBootLeaves PROVE SysInv'
  OBVIOUS
<1> USE DEF SysInv, SystemTypeOK
<1>1. phase = "download" /\ phase' = "uboot" /\ UNCHANGED <<vars, rcFile, harm>>
  BY DEF UBootLeaves
<1>2. UNCHANGED <<fw, flag, boot, disk, step, cacheOpen>>
  BY <1>1 DEF vars, otaVars, appVars
<1>3. TypeOK'
  BY <1>1, NextType
<1>4. CacheInv' /\ SaveInv' /\ QuietInv'
  BY <1>1, <1>2, NotTheApp
<1>5. DiskInv'
  BY <1>1, <1>2 DEF DiskInv, Cached
<1>6. harm' # {}
  BY <1>1 DEF HarmlessInv
<1> QED
  BY <1>1, <1>3, <1>4, <1>5, <1>6 DEF Phases
-----------------------------------------------------------------------------
(***************************************************************************)
(* The start-up script                                                     *)
(***************************************************************************)
LEMMA BootType ==
  ASSUME OtaTypeOK, boot' \in Directories, UNCHANGED <<fw, flag, disk>>
  PROVE  OtaTypeOK'
BY DEF OtaTypeOK, Media

LEMMA RcStep == SysInv /\ Rc => SysInv'
<1> SUFFICES ASSUME SysInv, Rc PROVE SysInv'
  OBVIOUS
<1> USE DEF SysInv, SystemTypeOK, Phases
<1>1. CASE RcNothingToDo
  <2>1. phase = "rc" /\ phase' = "app" /\ ~flag /\ UNCHANGED <<vars, rcFile, harm>>
    BY <1>1 DEF RcNothingToDo
  <2>2. UNCHANGED <<fw, flag, boot, disk, step, cacheOpen>>
    BY <2>1 DEF vars, otaVars, appVars
  <2>3. TypeOK'
    BY <2>1, NextType
  <2>4. CacheInv' /\ SaveInv' /\ QuietInv'
    BY <2>1, <2>2, NotTheApp
  <2>5. DiskInv'
    BY <2>1, <2>2 DEF DiskInv, Cached
  <2>6. harm = {} => HarmlessInv'
    BY <2>1, <2>2 DEF HarmlessInv, Redoable, Sound
  <2> QED
    BY <2>1, <2>3, <2>4, <2>5, <2>6
<1>2. CASE RcNoDirectory
  <2>1. /\ phase = "rc" /\ phase' = "app" /\ flag' = FALSE /\ fw = EmptyDir
        /\ stage' = "none" /\ staged' = EmptyDir
        /\ UNCHANGED <<fw, boot, disk, update_state, firmware_save_ok, run_mode, sHeader,
                       recv, cacheOpen, step, rebootTask, rcFile, harm>>
    BY <1>2 DEF RcNoDirectory
  <2>2. OtaTypeOK'
    BY <2>1, DiskType DEF TypeOK, OtaTypeOK, Media
  <2>3. TypeOK'
    BY <2>1, <2>2, DirTypes DEF TypeOK
  <2>4. CacheInv' /\ SaveInv' /\ QuietInv'
    BY <2>1, NotTheApp
  <2>5. DiskInv'
    BY <2>1 DEF DiskInv, Cached
  <2>6. \A f \in Files : ~Whole(fw[f])
    BY <2>1 DEF EmptyDir, Whole, Absent
  <2>7. harm = {} => HarmlessInv'
    BY <2>1, <2>6 DEF HarmlessInv, Redoable, Sound
  <2> QED
    BY <2>1, <2>3, <2>4, <2>5, <2>7
<1>3. CASE RcStart
  <2>1. phase = "rc" /\ phase' = "copy" /\ flag /\ rcFile' = 1 /\ UNCHANGED <<vars, harm>>
    BY <1>3 DEF RcStart
  <2>2. UNCHANGED <<fw, flag, boot, disk, step, cacheOpen>>
    BY <2>1 DEF vars, otaVars, appVars
  <2>3. TypeOK'
    BY <2>1, NextType
  <2>4. CacheInv' /\ SaveInv' /\ QuietInv'
    BY <2>1, <2>2, NotTheApp
  <2>5. DiskInv'
    BY <2>1, <2>2 DEF DiskInv, Cached
  <2>6. harm = {} => HarmlessInv'
    BY <2>1, <2>2 DEF HarmlessInv, Redoable, Sound, Files
  <2> QED
    BY <2>1, <2>3, <2>4, <2>5, <2>6, OtaAssumption
<1>4. CASE RcSkip
  <2>1. /\ phase = "copy" /\ phase' = "copy" /\ rcFile \in Files /\ fw[rcFile] = Absent
        /\ rcFile' = rcFile + 1 /\ UNCHANGED <<vars, harm>>
    BY <1>4 DEF RcSkip
  <2>2. UNCHANGED <<fw, flag, boot, disk, step, cacheOpen>>
    BY <2>1 DEF vars, otaVars, appVars
  <2>3. TypeOK'
    BY <2>1, NextType
  <2>4. CacheInv' /\ SaveInv' /\ QuietInv'
    BY <2>1, <2>2, NotTheApp
  <2>5. DiskInv'
    BY <2>1, <2>2 DEF DiskInv
  <2>6. \A f \in Files : f < rcFile + 1 => f < rcFile \/ f = rcFile
    BY <2>1 DEF Files
  <2>7. harm = {} => HarmlessInv'
    BY <2>1, <2>2, <2>6 DEF HarmlessInv, Redoable, Sound, Copied
  <2> QED
    BY <2>1, <2>3, <2>4, <2>5, <2>7, OtaAssumption DEF Files
<1>5. CASE RcCopyOpen
  <2>1. /\ phase = "copy" /\ phase' = "copying" /\ rcFile \in Files /\ fw[rcFile] # Absent
        /\ boot' = [boot EXCEPT ![rcFile] = SubSeq(fw[rcFile], 1, 1)]
        /\ UNCHANGED <<fw, flag, disk, appVars, rcFile, harm>>
    BY <1>5 DEF RcCopyOpen
  <2>2. fw[rcFile] \in Contents /\ boot \in Directories
    BY <2>1 DEF TypeOK, OtaTypeOK, Directories
  <2>3. SubSeq(fw[rcFile], 1, 1) \in Contents
    BY <2>1, <2>2, FirstUnitType
  <2>4. boot' \in Directories /\ \A g \in Files : g # rcFile => boot'[g] = boot[g]
    <3>1. rcFile \in Files
      BY <2>1
    <3> DEFINE c == SubSeq(fw[rcFile], 1, 1)
               b == [boot EXCEPT ![rcFile] = c]
    <3>2. boot' = b
      BY <2>1
    <3>3. c \in Contents /\ boot \in Directories
      BY <2>2, <2>3
    <3> HIDE DEF SysInv, SystemTypeOK, c
    <3>4. b \in Directories /\ \A g \in Files : g # rcFile => b[g] = boot[g]
      BY <3>1, <3>3, DirExcept
    <3> QED
      BY <3>2, <3>4
  <2>5. TypeOK'
    BY <2>1, <2>4, BootType DEF TypeOK, appVars
  <2>6. CacheInv' /\ SaveInv' /\ QuietInv'
    BY <2>1, NotTheApp DEF appVars
  <2>7. DiskInv'
    BY <2>1 DEF DiskInv
  <2>8. ASSUME harm = {} PROVE HarmlessInv'
    <3>1. Whole(fw[rcFile])
      BY <2>1, <2>8 DEF HarmlessInv, DiskInv, Sound
    <3>2. flag /\ disk.flag /\ disk.fw = fw
      BY <2>1 DEF DiskInv
    <3>3. \A f \in Files : f < rcFile => f # rcFile
      BY <2>1 DEF Files
    <3> QED
      BY <2>1, <2>4, <2>8, <3>1, <3>2, <3>3 DEF HarmlessInv, Redoable, Sound, Copied
  <2> QED
    BY <2>1, <2>5, <2>6, <2>7, <2>8
<1>6. CASE RcCopyDone
  <2>1. /\ phase = "copying" /\ phase' = "copy"
        /\ boot' = [boot EXCEPT ![rcFile] = fw[rcFile]]
        /\ rcFile' = rcFile + 1
        /\ UNCHANGED <<fw, flag, disk, appVars, harm>>
    BY <1>6 DEF RcCopyDone
  <2>2. rcFile \in Files /\ fw[rcFile] # Absent /\ flag /\ disk.flag /\ disk.fw = fw
    BY <2>1 DEF DiskInv
  <2>3. fw[rcFile] \in Contents /\ boot \in Directories
    BY <2>2 DEF TypeOK, OtaTypeOK, Directories
  <2>4. /\ boot' \in Directories /\ boot'[rcFile] = fw[rcFile]
        /\ \A g \in Files : g # rcFile => boot'[g] = boot[g]
    <3>1. LET b == [boot EXCEPT ![rcFile] = fw[rcFile]]
          IN  /\ b \in Directories /\ b[rcFile] = fw[rcFile]
              /\ \A g \in Files : g # rcFile => b[g] = boot[g]
      BY <2>2, <2>3, DirExcept
    <3> QED
      BY <2>1, <3>1
  <2>5. TypeOK'
    BY <2>1, <2>4, BootType DEF TypeOK, appVars
  <2>6. CacheInv' /\ SaveInv' /\ QuietInv'
    BY <2>1, NotTheApp DEF appVars
  <2>7. DiskInv'
    BY <2>1, <2>2 DEF DiskInv
  <2>8. ASSUME harm = {} PROVE HarmlessInv'
    <3>1. Whole(fw[rcFile])
      BY <2>2, <2>8 DEF HarmlessInv, Sound
    <3>2. \A f \in Files : f < rcFile + 1 => f < rcFile \/ f = rcFile
      BY <2>2 DEF Files
    <3> QED
      BY <2>1, <2>2, <2>4, <2>8, <3>1, <3>2 DEF HarmlessInv, Redoable, Sound, Copied
  <2> QED
    BY <2>1, <2>2, <2>5, <2>6, <2>7, <2>8, OtaAssumption DEF Files
<1>7. CASE RcCopyFails
  <2>1. /\ phase = "copying" /\ phase' = "copy" /\ rcFile' = rcFile + 1
        /\ harm' = harm \cup {"copy failed"} /\ UNCHANGED vars
    BY <1>7 DEF RcCopyFails
  <2>2. UNCHANGED <<fw, flag, boot, disk, step, cacheOpen>>
    BY <2>1 DEF vars, otaVars, appVars
  <2>3. TypeOK'
    BY <2>1, NextType
  <2>4. CacheInv' /\ SaveInv' /\ QuietInv'
    BY <2>1, <2>2, NotTheApp
  <2>5. DiskInv'
    BY <2>1, <2>2 DEF DiskInv
  <2>6. rcFile' \in 1..(FileCount + 1)
    <3>1. rcFile \in Files /\ rcFile' = rcFile + 1
      BY <2>1 DEF DiskInv
    <3> HIDE DEF SysInv, SystemTypeOK
    <3> QED
      BY <3>1, OtaAssumption DEF Files
  <2>7. harm' # {} /\ harm' \subseteq Harms
    BY <2>1 DEF Harms
  <2> QED
    BY <2>1, <2>3, <2>4, <2>5, <2>6, <2>7
<1>8. CASE RcRemoveFlag
  <2>1. /\ phase = "copy" /\ phase' = "rmdone" /\ rcFile = FileCount + 1
        /\ flag' = FALSE /\ stage' = "none" /\ staged' = EmptyDir
        /\ UNCHANGED <<fw, boot, disk, update_state, firmware_save_ok, run_mode, sHeader,
                       recv, cacheOpen, step, rebootTask, rcFile, harm>>
    BY <1>8 DEF RcRemoveFlag, LoopDone, FlagRemoved
  <2>2. OtaTypeOK'
    BY <2>1, DiskType DEF TypeOK, OtaTypeOK, Media
  <2>3. TypeOK'
    BY <2>1, <2>2, DirTypes DEF TypeOK
  <2>4. CacheInv' /\ SaveInv' /\ QuietInv'
    BY <2>1, NotTheApp
  <2>5. DiskInv'
    BY <2>1 DEF DiskInv
  <2>6. ASSUME harm = {} PROVE HarmlessInv'
    <3>1. flag
      BY <2>1 DEF DiskInv
    <3>2. \A f \in Files : f < rcFile
      BY <2>1, OtaAssumption DEF Files
    <3>3. \A f \in Files : Copied(f)
      BY <2>1, <2>6, <3>2 DEF HarmlessInv
    <3>4. ~Whole(Absent)
      BY DEF Whole, Absent
    <3>5. \A f \in Files : Whole(boot[f])
      BY <2>6, <3>1, <3>3, <3>4 DEF HarmlessInv, Redoable, Sound, Copied
    <3> QED
      BY <2>1, <2>6, <3>1, <3>3, <3>5 DEF HarmlessInv, Redoable, Sound, Copied
  <2> QED
    BY <2>1, <2>3, <2>4, <2>5, <2>6
<1>9. CASE RcReboot
  <2>1. /\ phase = "rmdone" /\ phase' = "uboot" /\ rcFile' = 1 /\ disk' = Cached
        /\ UNCHANGED <<fw, flag, boot, appVars, harm>>
    BY <1>9 DEF RcReboot, Sync
  <2>2. OtaTypeOK'
    BY <2>1 DEF TypeOK, OtaTypeOK, Media, Cached
  <2>3. TypeOK'
    BY <2>1, <2>2 DEF TypeOK, appVars
  <2>4. CacheInv' /\ SaveInv' /\ QuietInv'
    BY <2>1, NotTheApp DEF appVars
  <2>5. DiskInv'
    BY <2>1 DEF DiskInv, Cached
  <2>6. harm = {} => HarmlessInv'
    BY <2>1, FirstFile DEF HarmlessInv, Redoable, Sound, Cached
  <2> QED
    BY <2>1, <2>3, <2>4, <2>5, <2>6, OtaAssumption
<1> QED
  BY <1>1, <1>2, <1>3, <1>4, <1>5, <1>6, <1>7, <1>8, <1>9 DEF Rc
-----------------------------------------------------------------------------
(***************************************************************************)
(* A reset or a power cut                                                  *)
(***************************************************************************)
LEMMA ResetStep ==
  ASSUME SysInv, NEW m \in Survived, ResetTo(m)
  PROVE  SysInv'
<1> USE DEF SysInv, SystemTypeOK
<1>1. /\ fw' = m.fw /\ flag' = m.flag /\ boot' = m.boot /\ disk' = m
      /\ step' = Idle /\ cacheOpen' = FALSE
      /\ phase' = "uboot" /\ rcFile' = 1
      /\ harm' = harm \cup HarmOf(m)
  BY DEF ResetTo
<1>2. /\ m.fw \in SurvivingDirs(disk.fw, fw)
      /\ m.flag \in {disk.flag, flag}
      /\ m.boot \in SurvivingDirs(disk.boot, boot)
      /\ m = [fw |-> m.fw, flag |-> m.flag, boot |-> m.boot]
  BY DEF Survived
<1>3. /\ fw \in Directories /\ boot \in Directories /\ flag \in BOOLEAN
      /\ disk.fw \in Directories /\ disk.boot \in Directories /\ disk.flag \in BOOLEAN
  BY DEF TypeOK, OtaTypeOK, Media
<1>4. m.fw \in Directories /\ m.boot \in Directories /\ m.flag \in BOOLEAN
  BY <1>2, <1>3, SurvivingType
<1>5. \A f \in Files : disk.boot[f] = boot[f] => m.boot[f] = boot[f]
  BY <1>2, <1>3, SurvivingType
<1>6. m \in Media
  BY <1>2, <1>4 DEF Media
<1>7. OtaTypeOK'
  BY <1>1, <1>4, <1>6 DEF OtaTypeOK
<1>8. stage' \in {"none", "whole", "wiping"} /\ staged' \in Directories
  <2>1. /\ stage \in {"none", "whole", "wiping"} /\ staged \in Directories
        /\ \/ UNCHANGED <<stage, staged>>
           \/ stage' = "none" /\ staged' = EmptyDir
    BY DEF ResetTo, TypeOK
  <2> QED
    BY <2>1, DirTypes
<1>9. recv' \in Seq(Images) /\ Len(recv') <= BufferUnits
  <2>1. recv' = <<>>
    BY DEF ResetTo
  <2>2. <<>> \in Seq(Images) /\ Len(<<>>) <= BufferUnits
    BY AppAssumption
  <2> QED
    BY <2>1, <2>2
<1>10. /\ update_state' \in 0..5 /\ firmware_save_ok' \in {0, 1} /\ run_mode' \in {0, 1}
  BY DEF ResetTo, UPDATE_STAT_NO_START
<1>11. /\ sHeader' \in Builds /\ step' \in Steps
       /\ cacheOpen' \in BOOLEAN /\ rebootTask' \in {"none", "sleep", "synced"}
  BY DEF ResetTo, NoImage, Builds, Steps
<1>12. TypeOK'
  BY <1>7, <1>8, <1>9, <1>10, <1>11 DEF TypeOK
<1>13. harm' \subseteq Harms
  BY <1>1 DEF HarmOf, Harms
<1>14. SystemTypeOK'
  BY <1>1, <1>12, <1>13, OtaAssumption DEF Phases
<1>15. CacheInv' /\ SaveInv' /\ QuietInv'
  BY <1>1 DEF CacheInv, NoStaleTail, SaveInv, QuietInv, Idle
<1>16. DiskInv'
  BY <1>1, <1>2 DEF DiskInv, Cached
<1>17. ASSUME harm' = {} PROVE HarmlessInv'
  <2>1. harm = {} /\ Survives(m) /\ Whole(m.boot[BootBin])
    BY <1>1, <1>17 DEF HarmOf
  <2>2. m.flag => Sound(m.fw)
    BY <2>1 DEF Survives, HarmlessInv, Sound
  <2>3. \A f \in Files : ~Whole(m.boot[f]) => m.flag /\ Whole(m.fw[f])
    <3> SUFFICES ASSUME NEW f \in Files, ~Whole(m.boot[f]) PROVE m.flag /\ Whole(m.fw[f])
      OBVIOUS
    <3>1. m.flag
      \* without the flag nothing of the boot partition was lost, and then the
      \* flag was, in memory or on the disk
      <4>1. CASE ~m.flag
        <5>1. ~Whole(boot[f])
          BY <2>1, <4>1 DEF Survives
        <5>2. disk.flag /\ flag
          BY <2>1, <5>1 DEF HarmlessInv, Redoable
        <5> QED
          BY <1>2, <4>1, <5>2
      <4> QED
        BY <4>1
    <3>2. m.fw = fw
      BY <2>1, <3>1 DEF Survives
    <3>3. CASE boot[f] = disk.boot[f]
      BY <1>5, <2>1, <3>1, <3>2, <3>3 DEF HarmlessInv, Redoable
    <3>4. CASE boot[f] # disk.boot[f]
      BY <2>1, <3>1, <3>2, <3>4 DEF HarmlessInv
    <3> QED
      BY <3>3, <3>4
  <2> QED
    BY <1>1, <2>1, <2>2, <2>3 DEF HarmlessInv, Redoable, Sound
<1> QED
  BY <1>14, <1>15, <1>16, <1>17

LEMMA NextSysInv == SysInv /\ [Next]_allVars => SysInv'
<1> SUFFICES ASSUME SysInv, [Next]_allVars PROVE SysInv'
  OBVIOUS
<1>1. CASE App
  BY <1>1, AppStep
<1>2. CASE UBootNext
  BY <1>2, UBootStep, UBootServesStep, UBootLeavesStep DEF UBootNext
<1>3. CASE Rc
  BY <1>3, RcStep
<1>4. CASE AppReboot \/ PowerCut
  BY <1>4, ResetStep DEF AppReboot, PowerCut, Reset
<1>5. CASE UNCHANGED allVars
  <2>1. /\ UNCHANGED <<fw, flag, boot, disk, step, cacheOpen, recv>>
        /\ UNCHANGED <<phase, rcFile, harm>>
        /\ UNCHANGED vars
    BY <1>5 DEF allVars, bootVars, vars, otaVars, appVars
  <2>2. TypeOK'
    BY <2>1, NextType DEF SysInv, SystemTypeOK
  <2> QED
    BY <2>1, <2>2 DEF SysInv, SystemTypeOK, CacheInv, NoStaleTail, SaveInv, Sound, QuietInv,
       DiskInv, Cached, HarmlessInv, Redoable, Copied
<1> QED
  BY <1>1, <1>2, <1>3, <1>4, <1>5 DEF Next

\* The inductive invariant of the whole upgrade, from which the properties below
\* follow: what the cached and the durable files are in each phase of the device,
\* through every reset and power cut.
THEOREM SystemInvariant == SystemSpec => []SysInv
BY InitSysInv, NextSysInv, PTL DEF SystemSpec
-----------------------------------------------------------------------------
(***************************************************************************)
(* The properties of OtaSystem                                             *)
(***************************************************************************)
\* Every variable keeps its type, through resets and power cuts.
THEOREM SystemTypeCorrect == SystemSpec => []SystemTypeOK
<1>1. SysInv => SystemTypeOK
  BY DEF SysInv
<1> QED
  BY <1>1, SystemInvariant, PTL

\* However an upgrade is interrupted, the device starts again, unless one of the
\* events of Harms took place.
THEOREM DeviceSurvives == SystemSpec => []DeadOnlyByHarm
<1>1. SysInv => DeadOnlyByHarm
  BY DEF SysInv, HarmlessInv, DeadOnlyByHarm
<1> QED
  BY <1>1, SystemInvariant, PTL

\* The copy of the start-up script is idempotent: while a file of the boot
\* partition is cut short, what is needed to copy it again is durable.
THEOREM CopyRedoable == SystemSpec => []CopyIsRedoable
<1>1. SysInv => CopyIsRedoable
  BY DEF SysInv, HarmlessInv, Redoable, CopyIsRedoable
<1> QED
  BY <1>1, SystemInvariant, PTL

\* update.flag is removed after the last file was copied, never before.
THEOREM InstalledFirst == SystemSpec => []InstalledBeforeFlagGone
<1>1. SysInv => InstalledBeforeFlagGone
  BY DEF SysInv, HarmlessInv, Copied, InstalledBeforeFlagGone
<1> QED
  BY <1>1, SystemInvariant, PTL
-----------------------------------------------------------------------------
(***************************************************************************)
(* What is on offer                                                        *)
(***************************************************************************)
\* In the app, update.flag stands for a package that is accounted for; elsewhere it
\* is gone where the script has removed it.
OfferInv ==
  /\ phase = "rmdone" => ~flag
  /\ ~flag => stage = "none"
  /\ phase = "app" => StageInv /\ (flag => stage # "none")

\* What a command does to the package on offer: while the flag is there it stays the
\* same, and a new one is on offer when the flag appears.
LEMMA AppOffer ==
  ASSUME StageInv, SaveInv, flag => stage # "none", AppNext
  PROVE  (flag' => stage' # "none") /\ (flag /\ flag' => staged' = staged)
<1> USE DEF otaVars, appVars
<1>1. ASSUME NEW img \in Images, RequestUpgrade(img)
      PROVE  UNCHANGED <<flag, staged>> /\ (stage # "none" => stage' # "none")
  BY <1>1 DEF RequestUpgrade
<1>2. WriteImage => ~flag'
  BY DEF WriteImage, ClearFlag
<1>3. ASSUME NEW created \in BOOLEAN, NEW written \in BOOLEAN, SetFlag(created, written)
      PROVE  ~flag /\ (flag' => stage' # "none")
  <2>1. step.at = "flag"
    BY <1>3 DEF SetFlag
  <2>2. ~flag
    BY <2>1 DEF SaveInv
  <2> QED
    BY <1>3, <2>2 DEF SetFlag
<1>4. ASSUME NEW img \in Images, NEW off \in 0..BufferUnits, NEW n \in 0..1,
             DownloadImage(img, off, n)
      PROVE  UNCHANGED <<flag, stage, staged>>
  BY <1>4 DEF DownloadImage
<1>5. ASSUME NEW f \in Files, WipeFile(f) PROVE UNCHANGED <<flag, stage, staged>>
  BY <1>5 DEF WipeFile
<1>6. ASSUME NEW opened \in BOOLEAN, RequestDone(opened) PROVE UNCHANGED <<flag, stage, staged>>
  BY <1>6 DEF RequestDone
<1>7. CheckImage \/ GotoApp \/ RebootSystem \/ RebootSync => UNCHANGED <<flag, stage, staged>>
  BY DEF CheckImage, GotoApp, RebootSystem, RebootSync
<1>8. SaveFile \/ SaveFileShort \/ SaveFails \/ SaveSucceeds => UNCHANGED <<flag, stage, staged>>
  BY DEF SaveFile, SaveFileShort, SaveFails, SaveSucceeds
<1> QED
  BY <1>1, <1>2, <1>3, <1>4, <1>5, <1>6, <1>7, <1>8 DEF AppNext, Command, HandlerStep

LEMMA NextOffer == SysInv /\ OfferInv /\ [Next]_allVars => OfferInv'
<1> SUFFICES ASSUME SysInv, OfferInv, [Next]_allVars PROVE OfferInv'
  OBVIOUS
<1>0. TypeOK /\ SaveInv /\ QuietInv /\ DiskInv
  BY DEF SysInv, SystemTypeOK
<1>1. CASE App
  <2>1. AppNext /\ phase = "app" /\ phase' = "app"
    BY <1>1 DEF App
  <2>2. StageInv'
    BY <1>0, <2>1, NextStage DEF OfferInv
  <2>3. flag' => stage' # "none"
    BY <1>0, <2>1, AppOffer DEF OfferInv
  <2>4. ~flag' => stage' = "none"
    <3>1. stage' \in {"none", "whole", "wiping"}
      BY <1>0, <2>1, NextType DEF TypeOK
    <3> QED
      BY <2>2, <3>1 DEF StageInv, StageIsKept
  <2> QED
    BY <2>1, <2>2, <2>3, <2>4 DEF OfferInv
<1>2. ASSUME stage' = "none", step' = Idle, ~flag' PROVE OfferInv'
  BY <1>2 DEF OfferInv, StageInv, StageIsKept, Idle
<1>3. ASSUME UNCHANGED <<flag, stage>>, phase' \notin {"app", "rmdone"} PROVE OfferInv'
  BY <1>3 DEF OfferInv
<1>4. CASE UBoot \/ UBootLeaves
  BY <1>3, <1>4 DEF UBoot, UBootLeaves, vars, otaVars, appVars
<1>10. CASE UBootServes
  <2>1. phase' = "download"
    BY <1>10 DEF UBootServes, bootVars
  <2>2. ~flag' => stage' = "none"
    BY <1>10 DEF UBootServes, ServerWrites, ServerStages, NotStaged, OfferInv
  <2> QED
    BY <2>1, <2>2 DEF OfferInv
<1>5. CASE RcNothingToDo
  <2>1. phase = "rc" /\ ~flag /\ UNCHANGED <<flag, stage, step>>
    BY <1>5 DEF RcNothingToDo, vars, otaVars, appVars
  <2> QED
    BY <1>0, <1>2, <2>1 DEF OfferInv, QuietInv
<1>6. CASE RcNoDirectory \/ RcRemoveFlag
  <2>1. phase # "app" /\ stage' = "none" /\ ~flag' /\ UNCHANGED step
    BY <1>6 DEF RcNoDirectory, RcRemoveFlag, FlagRemoved
  <2> QED
    BY <1>0, <1>2, <2>1 DEF QuietInv
<1>7. CASE RcStart \/ RcSkip \/ RcCopyFails \/ RcCopyOpen \/ RcCopyDone \/ RcReboot
  BY <1>3, <1>7 DEF RcStart, RcSkip, RcCopyFails, RcCopyOpen, RcCopyDone, RcReboot,
                    vars, otaVars, appVars
<1>8. ASSUME NEW m \in Survived, ResetTo(m) PROVE OfferInv'
  BY <1>8 DEF ResetTo, OfferInv
<1>9. CASE UNCHANGED allVars
  BY <1>9 DEF allVars, bootVars, vars, otaVars, appVars, OfferInv, StageInv, StageIsKept
<1> QED
  BY <1>1, <1>4, <1>5, <1>6, <1>7, <1>8, <1>9, <1>10
     DEF Next, UBootNext, Rc, AppReboot, PowerCut, Reset

-----------------------------------------------------------------------------
(***************************************************************************)
(* The app in the system                                                   *)
(***************************************************************************)
\* What the steps of the app need besides SysInv, wherever the app is started.
RunInv == StageIsKept /\ CheckedImage /\ SavedInv

\* Outside the app no command is under way, and what was checked is forgotten or kept.
LEMMA QuietRun ==
  ASSUME StageIsKept', step' = Idle, CheckedImage,
         UNCHANGED <<update_state, sHeader, recv>> \/ update_state' = UPDATE_STAT_NO_START
  PROVE  RunInv'
<1>1. CheckedImage'
  BY DEF CheckedImage
<1>2. SavedInv'
  BY DEF SavedInv, Idle
<1> QED
  BY <1>1, <1>2 DEF RunInv

\* What firmware/ and the flag may become where the app does not run.
LEMMA QuietSteps ==
  ASSUME SysInv, OfferInv, UBootNext \/ Rc
  PROVE  /\ step = Idle /\ step' = Idle
         /\ UNCHANGED <<update_state, sHeader, recv>>
         /\ \/ UNCHANGED <<fw, flag, stage, staged>>
            \/ ~flag' /\ stage' = "none"
            \/ ~flag /\ stage = "none" /\ stage' = "none" /\ ServerStages
<1>1. ASSUME phase # "app" PROVE step = Idle
  BY <1>1 DEF SysInv, QuietInv
<1>2. CASE UBoot \/ UBootLeaves \/ RcNothingToDo \/ RcStart \/ RcSkip \/ RcCopyFails
  <2>1. phase # "app" /\ UNCHANGED vars
    BY <1>2 DEF UBoot, UBootLeaves, RcNothingToDo, RcStart, RcSkip, RcCopyFails
  <2> QED
    BY <1>1, <2>1 DEF vars, otaVars, appVars
<1>3. CASE RcCopyOpen \/ RcCopyDone \/ RcReboot
  <2>1. phase # "app" /\ UNCHANGED <<fw, flag>> /\ UNCHANGED appVars
    BY <1>3 DEF RcCopyOpen, RcCopyDone, RcReboot
  <2> QED
    BY <1>1, <2>1 DEF appVars
<1>4. CASE RcNoDirectory \/ RcRemoveFlag
  BY <1>1, <1>4 DEF RcNoDirectory, RcRemoveFlag, FlagRemoved
<1>5. CASE UBootServes
  <2>1. phase # "app" /\ UNCHANGED <<update_state, sHeader, recv, step>>
    BY <1>5 DEF UBootServes
  <2>2. CASE ServerRemovesFlag /\ stage' = "none"
    BY <1>1, <2>1, <2>2 DEF ServerRemovesFlag
  <2>3. CASE ServerWrites /\ UNCHANGED <<stage, staged>>
    BY <1>1, <2>1, <2>3 DEF ServerWrites, NotStaged, OfferInv
  <2>4. CASE ServerStages /\ UNCHANGED <<stage, staged>>
    BY <1>1, <2>1, <2>4 DEF ServerStages, NotStaged, OfferInv
  <2> QED
    BY <1>5, <2>2, <2>3, <2>4 DEF UBootServes
<1> QED
  BY <1>2, <1>3, <1>4, <1>5 DEF UBootNext, Rc

LEMMA NextRun == SysInv /\ OfferInv /\ RunInv /\ [Next]_allVars => RunInv'
<1> SUFFICES ASSUME SysInv, OfferInv, RunInv, [Next]_allVars PROVE RunInv'
  OBVIOUS
<1> USE DEF RunInv
<1>1. TypeOK /\ CacheInv /\ SaveInv
  BY DEF SysInv, SystemTypeOK
<1>2. CASE App
  <2>1. AppNext /\ phase' = "app"
    BY <1>2 DEF App
  <2>2. StageIsKept'
    BY <2>1, NextOffer DEF OfferInv, StageInv
  <2> QED
    BY <1>1, <2>1, <2>2, NextChecked, NextSaved
<1>3. CASE UBootNext \/ Rc
  <2>1. StageIsKept'
    BY <1>3, QuietSteps DEF StageIsKept
  <2> QED
    BY <1>3, <2>1, QuietSteps, QuietRun
<1>4. ASSUME NEW m \in Survived, ResetTo(m) PROVE RunInv'
  <2>1. step' = Idle /\ update_state' = UPDATE_STAT_NO_START
    BY <1>4 DEF ResetTo
  <2>2. CASE stage' = "none"
    BY <2>1, <2>2, QuietRun DEF StageIsKept
  <2>3. CASE m = Cached /\ UNCHANGED <<stage, staged>>
    <3>1. UNCHANGED <<fw, flag>>
      BY <1>4, <2>3 DEF ResetTo, Cached
    <3> QED
      BY <2>1, <2>3, <3>1, QuietRun DEF StageIsKept
  <2> QED
    BY <1>4, <2>2, <2>3 DEF ResetTo
<1>5. CASE UNCHANGED allVars
  BY <1>5, SameSaved DEF allVars, vars, otaVars, appVars, StageIsKept, CheckedImage
<1> QED
  BY <1>2, <1>3, <1>4, <1>5 DEF Next, AppReboot, PowerCut, Reset

\* The invariants that hold in every phase of the device.
SystemRunInv == SysInv /\ OfferInv /\ RunInv

LEMMA SystemRun == SystemSpec => []SystemRunInv
<1>1. SystemInit => OfferInv
  BY DEF SystemInit, Init, OfferInv
<1>2. SystemInit => RunInv
  BY InitStage, InitChecked, InitAppInv DEF SystemInit, StageInv, AppInv, RunInv
<1>3. SystemRunInv /\ [Next]_allVars => SystemRunInv'
  BY NextSysInv, NextOffer, NextRun DEF SystemRunInv
<1>4. SystemInit => SystemRunInv
  BY <1>1, <1>2, InitSysInv DEF SystemRunInv
<1> QED
  BY <1>3, <1>4, PTL DEF SystemSpec

\* In the whole system, where the app starts on what power cuts, a copy that was
\* interrupted or the server of u-boot have left, it keeps what it keeps on its own.
THEOREM SystemKeepsApp == SystemSpec => [](StageIsKept /\ NoStaleTail /\ CheckedImage)
<1>1. SystemRunInv => StageIsKept /\ NoStaleTail /\ CheckedImage
  BY DEF SystemRunInv, SysInv, CacheInv, RunInv
<1> QED
  BY <1>1, SystemRun, PTL

\* There, too, the app creates update.flag with all that was received in firmware/, and
\* none of what it had found there.
THEOREM SystemStagesReceived ==
  SystemSpec =>
    [][App /\ ~flag /\ flag' /\ recv # <<>> =>
         fw = [f \in Files |-> IF 2 * f <= uOffset THEN SubSeq(recv, 2 * f - 1, 2 * f)
                                                   ELSE Absent]]_allVars
<1>1. SystemRunInv => AppInv
  BY DEF SystemRunInv, SysInv, SystemTypeOK, RunInv, AppInv
<1>2. SystemRunInv =>
        [App /\ ~flag /\ flag' /\ recv # <<>> =>
           fw = [f \in Files |-> IF 2 * f <= uOffset THEN SubSeq(recv, 2 * f - 1, 2 * f)
                                                     ELSE Absent]]_allVars
  BY <1>1, FlagMeansReceived DEF App
<1> QED
  BY <1>2, SystemRun, PTL DEF SystemSpec

\* What a reset that loses nothing leaves of the package: all of it or nothing, unless rm
\* was at work.
LEMMA ResetPackage ==
  ASSUME SysInv, OfferInv, NEW m \in Survived, ResetTo(m), Survives(m)
  PROVE  Staged!Withdraw \/ UNCHANGED Package \/ FlagComesBack \/ CutInRemoval
<1>1. fw' = m.fw /\ flag' = m.flag /\ step' = Idle
  BY DEF ResetTo
<1>2. CASE ~m.flag
  BY <1>1, <1>2 DEF Staged!Withdraw, Package
<1>3. CASE m.flag
  <2>1. Package' = fw /\ fw' = fw /\ m.fw = fw /\ flag' /\ (flag \/ phase = "rmdone")
    BY <1>1, <1>3 DEF Survives, Package, Idle
  <2>2. CASE phase = "rmdone" \/ (step.at = "wipe" /\ fw = staged)
    BY <2>1, <2>2 DEF FlagComesBack
  <2>3. CASE phase # "rmdone" /\ step.at # "wipe"
    BY <2>1, <2>3 DEF Package
  <2>4. CASE phase # "rmdone" /\ step.at = "wipe" /\ fw # staged
    <3>1. stage = "wiping"
      <4>1. phase = "app"
        BY <2>4 DEF SysInv, QuietInv, Idle
      <4> QED
        BY <2>1, <2>4, <4>1 DEF OfferInv, StageInv, SysInv, SystemTypeOK, TypeOK
    <3>2. CASE fw = EmptyDir
      BY <2>1, <3>2 DEF Staged!Withdraw, Package
    <3>3. CASE fw # EmptyDir
      <4>1. "cut in rm" \in HarmOf(m)
        BY <1>3, <2>1, <2>4, <3>1, <3>3 DEF HarmOf
      <4> QED
        BY <4>1 DEF CutInRemoval
    <3> QED
      BY <3>2, <3>3
  <2> QED
    BY <2>2, <2>3, <2>4
<1> QED
  BY <1>2, <1>3

LEMMA NextPackage ==
  ASSUME SystemRunInv, [Next]_allVars
  PROVE  \/ Staged!Stage /\ ~flag
         \/ Staged!Withdraw \/ UNCHANGED Package \/ FlagComesBack
         \/ WritesLost \/ CutInRemoval \/ EmptySave
<1>1. SysInv /\ OfferInv /\ AppInv
  BY DEF SystemRunInv, SysInv, SystemTypeOK, RunInv, AppInv
<1>2. CASE App
  BY <1>1, <1>2, AppPackage DEF App
<1>3. CASE UBootNext \/ Rc
  <2>1. step = Idle /\ step' = Idle
    BY <1>1, <1>3, QuietSteps
  <2>2. CASE UNCHANGED <<fw, flag>>
    BY <2>1, <2>2 DEF Package
  <2>3. CASE ~flag'
    BY <2>3 DEF Staged!Withdraw, Package
  <2>4. CASE ~flag /\ ServerStages
    <3>1. flag' /\ fw' = fw /\ fw \in Packages
      BY <2>4 DEF ServerStages
    <3> QED
      BY <2>1, <2>4, <3>1 DEF Staged!Stage, Package, Idle
  <2> QED
    BY <1>1, <1>3, <2>2, <2>3, <2>4, QuietSteps
<1>4. CASE AppReboot \/ PowerCut
  BY <1>1, <1>4, ResetPackage DEF AppReboot, PowerCut, Reset, WritesLost
<1>5. CASE UNCHANGED allVars
  BY <1>5 DEF allVars, vars, otaVars, appVars, Package
<1> QED
  BY <1>2, <1>3, <1>4, <1>5 DEF Next

\* update.flag stands for complete files when it appears, and protects them from the app,
\* u-boot, its server, the script and the power, from one boot to the next, for any number
\* of builds and files: lost writes, a cut in the middle of rm and an empty save apart.
THEOREM FlagFreezesInSystem == SystemSpec => SystemFlagFreezes
<1>1. SystemRunInv /\ [Next]_allVars
        => [\/ Staged!Stage /\ ~flag
            \/ Staged!Withdraw
            \/ UNCHANGED (IF flag /\ step.at # "wipe" THEN fw ELSE EmptyDir)
            \/ FlagComesBack
            \/ WritesLost \/ CutInRemoval \/ EmptySave]_allVars
  BY NextPackage DEF Package
<1> QED
  BY <1>1, SystemRun, PTL DEF SystemSpec, SystemFlagFreezes
-----------------------------------------------------------------------------
(***************************************************************************)
(* The upgrade is atomic                                                   *)
(***************************************************************************)
LEMMA AtomicTypes ==
  /\ SystemTypeOK => Installed \in Directories /\ Offered \in Directories \cup {NoPackage}
  /\ SystemTypeOK' => Installed' \in Directories /\ Offered' \in Directories \cup {NoPackage}
<1>1. ASSUME NEW u \in Directories, NEW l \in Directories PROVE Overlay(u, l) \in Directories
  BY DEF Overlay, Directories
<1> QED
  BY <1>1 DEF SystemTypeOK, TypeOK, OtaTypeOK, Installed, Offered

LEMMA NoPackageIsNone == NoPackage \notin Directories
<1>1. DOMAIN NoPackage = {}
  BY DEF NoPackage
<1>2. \A d \in Directories : DOMAIN d = Files
  BY DEF Directories
<1> QED
  BY <1>1, <1>2, FirstFile

\* A directory that is laid over changes nothing where it is empty or already there.
LEMMA OverlayNothing ==
  ASSUME NEW u \in Directories, NEW l \in Directories,
         \A f \in Files : u[f] # Absent => l[f] = u[f]
  PROVE  Overlay(u, l) = l
<1>1. \A f \in Files : (IF u[f] # Absent THEN u[f] ELSE l[f]) = l[f]
  OBVIOUS
<1>2. l = [f \in Files |-> l[f]]
  BY DEF Directories
<1> QED
  BY <1>1, <1>2 DEF Overlay

\* Only what the upper directory lacks matters of the lower one.
LEMMA OverlayLower ==
  ASSUME NEW u, NEW k, NEW l, \A f \in Files : u[f] = Absent => k[f] = l[f]
  PROVE  Overlay(u, k) = Overlay(u, l)
BY DEF Overlay

LEMMA BrokenStep ==
  ASSUME SystemTypeOK', harm # {} \/ harm' # {}
  PROVE  Atomic!AtomicNext
<1>1. Installed' \in Directories /\ Offered' \in Directories \cup {NoPackage}
  BY AtomicTypes
<1>2. CASE harm' # {}
  BY <1>1, <1>2 DEF Atomic!AtomicNext, Atomic!Break
<1>3. CASE harm # {}
  BY <1>1, <1>3 DEF Atomic!AtomicNext, Atomic!Broken
<1> QED
  BY <1>2, <1>3

\* Where nothing is installed and no harm is done, offers may come and go.
LEMMA OfferStep ==
  ASSUME SystemTypeOK, SystemTypeOK', harm = {}, harm' = {}, Installed' = Installed,
         Offered' # NoPackage => Offered = NoPackage \/ Offered' = Offered
  PROVE  [Atomic!AtomicNext]_(Atomic!atomicVars)
<1>1. Offered' \in Directories \cup {NoPackage}
  BY AtomicTypes
<1>2. (harm # {})' = (harm # {})
  OBVIOUS
<1>3. CASE Offered' = Offered
  BY <1>2, <1>3 DEF Atomic!atomicVars
<1>4. CASE Offered' = NoPackage
  BY <1>2, <1>4 DEF Atomic!AtomicNext, Atomic!Withdraw
<1>5. CASE Offered' # NoPackage /\ Offered = NoPackage
  BY <1>1, <1>2, <1>5 DEF Atomic!AtomicNext, Atomic!Offer
<1> QED
  BY <1>3, <1>4, <1>5

\* The script copies below what u-boot lays over, until nothing is to be laid over.
LEMMA RcAtomic ==
  ASSUME SysInv, SysInv', OfferInv, Rc, harm = {}, harm' = {}
  PROVE  [Atomic!AtomicNext]_(Atomic!atomicVars)
<1>0. /\ SystemTypeOK /\ SystemTypeOK' /\ DiskInv /\ HarmlessInv
      /\ fw \in Directories /\ boot \in Directories
  BY DEF SysInv, SystemTypeOK, TypeOK, OtaTypeOK
<1>1. ASSUME Installed' = Installed, phase # "app", phase' # "app" \/ ~flag'
      PROVE  [Atomic!AtomicNext]_(Atomic!atomicVars)
  <2>1. Offered' = NoPackage
    BY <1>1 DEF Offered
  <2> QED
    BY <1>0, <1>1, <2>1, OfferStep
<1>2. ASSUME UNCHANGED <<fw, flag, boot>>, phase # "app", phase' # "app"
      PROVE  [Atomic!AtomicNext]_(Atomic!atomicVars)
  BY <1>1, <1>2 DEF Installed
<1>3. CASE RcNothingToDo
  <2>1. phase # "app" /\ ~flag /\ ~flag' /\ boot' = boot
    BY <1>3 DEF RcNothingToDo, vars, otaVars
  <2> QED
    BY <1>1, <2>1 DEF Installed
<1>4. CASE RcNoDirectory
  <2>1. phase = "rc" /\ flag /\ fw = EmptyDir /\ flag' = FALSE /\ boot' = boot
    BY <1>4 DEF RcNoDirectory
  <2>2. Overlay(fw, boot) = boot
    BY <1>0, <2>1, OverlayNothing DEF EmptyDir
  <2> QED
    BY <1>1, <2>1, <2>2 DEF Installed
<1>5. CASE RcStart \/ RcSkip \/ RcReboot
  BY <1>2, <1>5 DEF RcStart, RcSkip, RcReboot, vars, otaVars
<1>6. CASE RcCopyOpen
  <2>1. /\ phase = "copy" /\ phase' = "copying" /\ rcFile \in Files /\ fw[rcFile] # Absent
        /\ boot' = [boot EXCEPT ![rcFile] = SubSeq(fw[rcFile], 1, 1)] /\ UNCHANGED <<fw, flag>>
    BY <1>6 DEF RcCopyOpen
  <2>2. \A f \in Files : fw[f] = Absent => boot'[f] = boot[f]
    BY <1>0, <2>1 DEF Directories
  <2>3. Overlay(fw, boot') = Overlay(fw, boot)
    BY <2>2, OverlayLower
  <2>4. flag
    BY <1>0, <2>1 DEF DiskInv
  <2> QED
    BY <1>1, <2>1, <2>3, <2>4 DEF Installed
<1>7. CASE RcCopyDone
  <2>1. /\ phase = "copying" /\ phase' = "copy" /\ boot' = [boot EXCEPT ![rcFile] = fw[rcFile]]
        /\ UNCHANGED <<fw, flag>> /\ flag /\ rcFile \in Files /\ fw[rcFile] # Absent
    BY <1>0, <1>7 DEF RcCopyDone, DiskInv
  <2>2. \A f \in Files : fw[f] = Absent => boot'[f] = boot[f]
    BY <1>0, <2>1 DEF Directories
  <2>3. Overlay(fw, boot') = Overlay(fw, boot)
    BY <2>2, OverlayLower
  <2> QED
    BY <1>1, <2>1, <2>3 DEF Installed
<1>8. CASE RcCopyFails
  BY <1>8 DEF RcCopyFails
<1>9. CASE RcRemoveFlag
  <2>1. phase = "copy" /\ phase' = "rmdone" /\ flag' = FALSE /\ UNCHANGED <<fw, boot>> /\ flag
    BY <1>0, <1>9 DEF RcRemoveFlag, FlagRemoved, DiskInv
  <2>2. \A f \in Files : fw[f] # Absent => boot[f] = fw[f]
    BY <2>1 DEF SysInv, HarmlessInv, Copied
  <2>3. Overlay(fw, boot) = boot
    BY <1>0, <2>2, OverlayNothing
  <2> QED
    BY <1>1, <2>1, <2>3 DEF Installed
<1> QED
  BY <1>3, <1>4, <1>5, <1>6, <1>7, <1>8, <1>9 DEF Rc

\* A reset of the app adopts the package on offer, or nothing; any other is invisible.
LEMMA ResetAtomic ==
  ASSUME SysInv, SysInv', OfferInv, NEW m \in Survived, ResetTo(m), harm = {}, harm' = {}
  PROVE  [Atomic!AtomicNext]_(Atomic!atomicVars)
<1>0. /\ SystemTypeOK /\ SystemTypeOK' /\ DiskInv /\ HarmlessInv
      /\ fw \in Directories /\ boot \in Directories /\ staged \in Directories
      /\ disk.boot \in Directories /\ stage \in {"none", "whole", "wiping"}
  BY DEF SysInv, SystemTypeOK, TypeOK, OtaTypeOK, Media
<1>1. /\ fw' = m.fw /\ flag' = m.flag /\ boot' = m.boot /\ phase' = "uboot"
      /\ Survives(m) /\ ~(m.flag /\ stage = "wiping" /\ m.fw \notin {staged, EmptyDir})
  BY DEF ResetTo, HarmOf
<1>2. /\ m.flag \in {disk.flag, flag}
      /\ \A f \in Files : disk.boot[f] = boot[f] => m.boot[f] = boot[f]
  BY <1>0, SurvivingType DEF Survived
<1>3. Offered' = NoPackage /\ Installed' = IF m.flag THEN Overlay(m.fw, m.boot) ELSE m.boot
  BY <1>1 DEF Offered, Installed
<1>4. ASSUME Installed' = Installed PROVE [Atomic!AtomicNext]_(Atomic!atomicVars)
  BY <1>0, <1>3, <1>4, OfferStep
<1>5. CASE phase = "app"
  <2>1. Installed = boot /\ disk.boot = boot
    BY <1>0, <1>5 DEF Installed, DiskInv
  <2>2. CASE ~m.flag
    BY <1>1, <1>3, <1>4, <2>1, <2>2 DEF Survives
  <2>3. CASE m.flag
    <3>1. m.fw = fw /\ flag /\ stage # "none"
      BY <1>1, <1>5, <2>3 DEF Survives, OfferInv
    <3>2. Installed' = Overlay(fw, boot)
      <4>1. Overlay(fw, m.boot) = Overlay(fw, boot)
        BY <1>2, <2>1, OverlayLower
      <4> QED
        BY <1>3, <2>3, <3>1, <4>1
    <3>3. CASE fw = EmptyDir
      <4>1. Overlay(fw, boot) = boot
        BY <1>0, <3>3, OverlayNothing DEF EmptyDir
      <4> QED
        BY <1>4, <2>1, <3>2, <4>1
    <3>4. CASE fw # EmptyDir
      <4>1. fw = staged
        BY <1>0, <1>1, <1>5, <2>3, <3>1, <3>4 DEF OfferInv, StageInv, StageIsKept
      <4>2. Offered = staged /\ Offered # NoPackage
        BY <1>0, <1>5, <3>1, NoPackageIsNone DEF Offered
      <4>3. Installed' = Overlay(Offered, Installed)
        BY <2>1, <3>2, <4>1, <4>2
      <4>4. (harm # {})' = (harm # {})
        OBVIOUS
      <4> QED
        BY <1>3, <4>2, <4>3, <4>4 DEF Atomic!AtomicNext, Atomic!Adopt
    <3> QED
      BY <3>3, <3>4
  <2> QED
    BY <2>2, <2>3
<1>6. CASE phase # "app" /\ flag
  <2>1. phase # "rmdone" /\ phase \notin {"dead", "download"}
    BY <1>0, <1>6 DEF OfferInv, HarmlessInv
  <2>2. disk.flag
    BY <1>0, <1>6, <2>1 DEF SysInv, SystemTypeOK, Phases, DiskInv, Cached
  <2>3. m.flag /\ m.fw = fw
    BY <1>1, <1>2, <1>6, <2>2 DEF Survives
  <2>4. \A f \in Files : fw[f] = Absent => m.boot[f] = boot[f]
    <3>1. ~Whole(Absent)
      BY DEF Whole, Absent
    <3> QED
      BY <1>0, <1>2, <3>1 DEF HarmlessInv
  <2>5. Overlay(fw, m.boot) = Overlay(fw, boot)
    BY <2>4, OverlayLower
  <2> QED
    BY <1>3, <1>4, <1>6, <2>3, <2>5 DEF Installed
<1>7. CASE phase # "app" /\ ~flag
  <2>1. Installed = boot
    BY <1>7 DEF Installed
  <2>2. CASE ~m.flag
    BY <1>1, <1>3, <1>4, <2>1, <2>2 DEF Survives
  <2>3. CASE m.flag
    <3>1. m.fw = fw /\ phase = "rmdone"
      BY <1>1, <1>7, <2>3 DEF Survives
    <3>2. \A f \in Files : fw[f] # Absent => boot[f] = fw[f]
      BY <1>0, <3>1 DEF HarmlessInv, Copied
    <3>3. \A f \in Files : fw[f] = Absent => m.boot[f] = boot[f]
      <4>1. ~Whole(Absent)
        BY DEF Whole, Absent
      <4> QED
        BY <1>0, <1>2, <4>1 DEF HarmlessInv
    <3>4. Overlay(fw, m.boot) = Overlay(fw, boot) /\ Overlay(fw, boot) = boot
      BY <1>0, <3>2, <3>3, OverlayLower, OverlayNothing
    <3> QED
      BY <1>3, <1>4, <2>1, <2>3, <3>1, <3>4
  <2> QED
    BY <2>2, <2>3
<1> QED
  BY <1>5, <1>6, <1>7

LEMMA NextAtomic ==
  ASSUME SysInv, SysInv', OfferInv, [Next]_allVars
  PROVE  [Atomic!AtomicNext]_(Atomic!atomicVars)
<1>0. SystemTypeOK /\ SystemTypeOK' /\ SaveInv
  BY DEF SysInv
<1>1. CASE harm # {} \/ harm' # {}
  BY <1>0, <1>1, BrokenStep
<1>2. CASE harm = {} /\ harm' = {}
  <2>1. CASE App
    <3>1. AppNext /\ phase = "app" /\ phase' = "app"
      BY <2>1 DEF App
    <3>2. Installed' = Installed
      BY <1>0, <3>1, AppDisk DEF Installed
    <3>3. (flag' => stage' # "none") /\ (flag /\ flag' => staged' = staged)
      BY <1>0, <3>1, AppOffer DEF OfferInv
    <3>4. Offered' # NoPackage => Offered = NoPackage \/ Offered' = Offered
      BY <3>1, <3>3 DEF OfferInv, Offered
    <3> QED
      BY <1>0, <1>2, <3>2, <3>4, OfferStep
  <2>2. CASE UBoot
    <3>1. phase = "uboot" /\ phase' # "app" /\ UNCHANGED <<fw, flag, boot>>
      BY <2>2 DEF UBoot, vars, otaVars
    <3>2. Installed' = Installed /\ Offered' = NoPackage
      BY <3>1 DEF Installed, Offered
    <3> QED
      BY <1>0, <1>2, <3>2, OfferStep
  <2>3. CASE UBootServes \/ UBootLeaves
    BY <1>2, <2>3 DEF UBootServes, UBootLeaves, SysInv, HarmlessInv
  <2>4. CASE Rc
    BY <1>2, <2>4, RcAtomic
  <2>5. CASE AppReboot \/ PowerCut
    BY <1>2, <2>5, ResetAtomic DEF AppReboot, PowerCut, Reset
  <2>6. CASE UNCHANGED allVars
    BY <2>6 DEF allVars, bootVars, vars, otaVars, appVars, Atomic!atomicVars, Installed, Offered
  <2> QED
    BY <2>1, <2>2, <2>3, <2>4, <2>5, <2>6 DEF Next, UBootNext
<1> QED
  BY <1>1, <1>2

\* The upgrade implements AtomicUpgrade: through every command, reset and power cut the
\* installed system is one complete set of files or the next, and what is adopted is
\* what was offered, unless one of the events of Harms took place.
THEOREM SystemIsAtomic == SystemSpec => UpgradeIsAtomic
<1>1. SystemInit => OfferInv
  BY DEF SystemInit, Init, OfferInv
<1>2. SysInv => SystemTypeOK
  BY DEF SysInv
<1>3. SystemInit => Atomic!AtomicInit
  <2> SUFFICES ASSUME SystemInit PROVE Atomic!AtomicInit
    OBVIOUS
  <2>1. SystemTypeOK
    BY InitSysInv DEF SysInv
  <2>2. Installed \in Directories
    BY <2>1, AtomicTypes
  <2>3. Offered = NoPackage /\ (harm # {}) = FALSE
    BY DEF SystemInit, Offered
  <2> QED
    BY <2>2, <2>3 DEF Atomic!AtomicInit
<1>4. SysInv /\ SysInv' /\ OfferInv /\ [Next]_allVars => [Atomic!AtomicNext]_(Atomic!atomicVars)
  BY NextAtomic
<1>5. SysInv /\ OfferInv /\ [Next]_allVars => OfferInv'
  BY NextOffer
<1> QED
  BY <1>1, <1>3, <1>4, <1>5, SystemInvariant, PTL
  DEF SystemSpec, UpgradeIsAtomic, Atomic!AtomicSpec
-----------------------------------------------------------------------------
(***************************************************************************)
(* The installation alone                                                  *)
(***************************************************************************)
\* firmware/ and the flag are durable from the start, so that the flag, once it is
\* gone, has left nothing to be copied.
InstallInv ==
  /\ disk.fw = fw
  /\ flag => disk.flag
  /\ phase = "app" => ~flag
  /\ harm = {} /\ ~flag => \A f \in Files : Copied(f)

LEMMA InitInstall == InstallInit => SysInv /\ InstallInv
<1> SUFFICES ASSUME InstallInit PROVE SysInv /\ InstallInv
  OBVIOUS
<1> USE DEF InstallInit
<1>1. PICK img \in Images, part \in SUBSET Files :
        fw = [f \in Files |-> IF f \in part THEN <<img, img>> ELSE Absent]
  OBVIOUS
<1>2. fw \in Directories /\ Sound(fw)
  <2>1. <<img, img>> \in Contents /\ Whole(<<img, img>>)
    BY DEF Contents, Builds, Whole
  <2> QED
    BY <1>1, <2>1, DirTypes DEF Directories, Sound
<1>3. OtaTypeOK
  BY <1>2, DirTypes DEF OtaTypeOK, Media, Cached
<1>4. recv \in Seq(Images) /\ Len(recv) <= BufferUnits
  BY AppAssumption DEF AppStart
<1>5. TypeOK
  <2>1. step \in Steps /\ staged \in Directories /\ sHeader \in Builds
    BY <1>2 DEF AppStart, Steps, NoImage, Builds
  <2>2. update_state \in 0..5 /\ firmware_save_ok \in {0, 1} /\ run_mode \in {0, 1}
    BY DEF AppStart, UPDATE_STAT_NO_START
  <2>3. /\ cacheOpen \in BOOLEAN /\ rebootTask \in {"none", "sleep", "synced"}
        /\ stage \in {"none", "whole", "wiping"}
    BY DEF AppStart
  <2> QED
    BY <1>3, <1>4, <2>1, <2>2, <2>3 DEF TypeOK
<1>6. SystemTypeOK
  BY <1>5, OtaAssumption DEF SystemTypeOK, Phases
<1>7. CacheInv /\ SaveInv /\ QuietInv
  BY DEF AppStart, Idle, CacheInv, NoStaleTail, SaveInv, QuietInv
<1>8. DiskInv /\ InstallInv
  BY DEF DiskInv, InstallInv, Cached
<1>9. HarmlessInv
  BY <1>2, DeliveredWhole, FirstFile DEF HarmlessInv, Redoable, Cached
<1> QED
  BY <1>6, <1>7, <1>8, <1>9 DEF SysInv

LEMMA RcInstall == SysInv /\ InstallInv /\ Rc => InstallInv'
<1> SUFFICES ASSUME SysInv, InstallInv, Rc PROVE InstallInv'
  OBVIOUS
<1> USE DEF InstallInv
<1>1. CASE RcNothingToDo
  BY <1>1 DEF RcNothingToDo, vars, otaVars, Copied
<1>2. CASE RcNoDirectory
  BY <1>2 DEF RcNoDirectory, EmptyDir, Copied
<1>3. CASE RcStart \/ RcSkip \/ RcCopyFails
  <2>1. UNCHANGED <<fw, flag, boot, disk>> /\ phase' # "app" /\ flag
    BY <1>3 DEF RcStart, RcSkip, RcCopyFails, vars, otaVars, SysInv, DiskInv
  <2> QED
    BY <2>1
<1>4. CASE RcCopyOpen \/ RcCopyDone
  <2>1. UNCHANGED <<fw, flag, disk>> /\ phase' # "app" /\ flag
    BY <1>4 DEF RcCopyOpen, RcCopyDone, SysInv, DiskInv
  <2> QED
    BY <2>1
<1>5. CASE RcRemoveFlag
  <2>1. UNCHANGED <<fw, disk, harm>> /\ flag' = FALSE /\ phase' = "rmdone"
    BY <1>5 DEF RcRemoveFlag, FlagRemoved
  <2>2. SysInv'
    BY <1>5, RcStep DEF Rc
  <2>3. harm' = {} => \A f \in Files : Copied(f)'
    BY <2>1, <2>2 DEF SysInv, HarmlessInv
  <2> QED
    BY <2>1, <2>3
<1>6. CASE RcReboot
  BY <1>6 DEF RcReboot, Sync, Cached, Copied
<1> QED
  BY <1>1, <1>2, <1>3, <1>4, <1>5, <1>6 DEF Rc

\* A cut brings back the flag that was removed, or keeps what had been copied.
LEMMA ResetInstall ==
  ASSUME SysInv, InstallInv, NEW m \in Survived, ResetTo(m)
  PROVE  InstallInv'
<1>1. /\ fw' = m.fw /\ flag' = m.flag /\ boot' = m.boot /\ disk' = m
      /\ phase' = "uboot" /\ harm' = harm \cup HarmOf(m)
  BY DEF ResetTo
<1>2. m.fw \in SurvivingDirs(disk.fw, fw) /\ m.flag \in {disk.flag, flag}
  BY DEF Survived
<1>3. ASSUME harm' = {}, ~m.flag, NEW f \in Files PROVE Copied(f)'
  <2>1. ~flag /\ harm = {}
    BY <1>1, <1>2, <1>3 DEF InstallInv
  <2>2. m.boot = boot
    <3>1. Survives(m)
      BY <1>1, <1>3 DEF HarmOf
    <3> QED
      BY <1>3, <3>1 DEF Survives
  <2>3. m.fw[f] = fw[f]
    <3>1. fw \in Directories /\ disk.fw = fw
      BY DEF SysInv, SystemTypeOK, TypeOK, OtaTypeOK, InstallInv
    <3> QED
      BY <1>2, <3>1, SurvivingType
  <2>4. Copied(f)
    BY <2>1 DEF InstallInv
  <2> QED
    BY <1>1, <2>2, <2>3, <2>4 DEF Copied
<1> QED
  BY <1>1, <1>3 DEF InstallInv

LEMMA NextInstall ==
  SysInv /\ InstallInv /\ [InstallNext]_allVars => SysInv' /\ InstallInv'
<1> SUFFICES ASSUME SysInv, InstallInv, [InstallNext]_allVars PROVE SysInv' /\ InstallInv'
  OBVIOUS
<1>1. SysInv'
  BY NextSysInv DEF InstallNext, Next
<1>2. CASE UBoot
  <2>1. UNCHANGED <<fw, flag, boot, disk>> /\ phase' # "app" /\ (harm' = {} => harm = {} \/ flag)
    BY <1>2 DEF UBoot, vars, otaVars
  <2> QED
    BY <1>1, <2>1 DEF InstallInv, Copied
<1>3. CASE UBootServes \/ UBootLeaves
  <2>1. phase = "download" /\ phase' # "app" /\ harm' = harm
    BY <1>3 DEF UBootServes, UBootLeaves, bootVars
  <2>2. harm # {}
    BY <2>1 DEF SysInv, HarmlessInv
  <2>3. CASE UBootServes
    <3>1. disk' = Cached'
      BY <2>3, ServerDisk DEF UBootServes, SysInv, SystemTypeOK, TypeOK
    <3> QED
      BY <1>1, <2>1, <2>2, <3>1 DEF InstallInv, Cached
  <2>4. CASE UBootLeaves
    BY <1>1, <2>1, <2>2, <2>4 DEF UBootLeaves, vars, otaVars, InstallInv, Copied
  <2> QED
    BY <1>3, <2>3, <2>4
<1>4. CASE Rc
  BY <1>1, <1>4, RcInstall
<1>5. CASE PowerCut
  BY <1>1, <1>5, ResetInstall DEF PowerCut, Reset
<1>6. CASE UNCHANGED allVars
  BY <1>1, <1>6 DEF allVars, bootVars, vars, otaVars, InstallInv, Copied
<1> QED
  BY <1>1, <1>2, <1>3, <1>4, <1>5, <1>6 DEF InstallNext, UBootNext

\* However often the power is cut during the installation: where the app starts again,
\* every file of the package is in the boot partition.
THEOREM InstallLeavesNothing == InstallSpec => []InstallIsComplete
<1>1. SysInv /\ InstallInv => InstallIsComplete
  BY DEF InstallInv, Copied, InstallIsComplete
<1> QED
  BY <1>1, InitInstall, NextInstall, PTL DEF InstallSpec

\* Every step of the boot loader and of the script is nearer to the end than the one
\* before it, whatever phase the power cut or the app left the device in.
LEMMA BootAdvances ==
  ASSUME SysInv, OfferInv, UBoot \/ Rc
  PROVE  InstallRank' < InstallRank
<1>0. /\ FileCount \in Nat /\ rcFile \in Nat /\ rcFile <= FileCount + 1 /\ flag \in BOOLEAN
      /\ phase = "copying" => rcFile <= FileCount
      /\ phase = "rmdone" => ~flag
  <2>1. rcFile \in 1..(FileCount + 1) /\ flag \in BOOLEAN
    BY DEF SysInv, SystemTypeOK, TypeOK, OtaTypeOK
  <2>2. phase = "copying" => rcFile \in 1..FileCount
    BY DEF SysInv, DiskInv, Files
  <2>3. phase = "rmdone" => ~flag
    BY DEF OfferInv
  <2> QED
    BY <2>1, <2>2, <2>3, OtaAssumption
<1> USE DEF InstallRank
<1>1. CASE UBoot
  <2>1. phase = "uboot" /\ phase' \in {"rc", "download", "dead"} /\ UNCHANGED flag
    BY <1>1 DEF UBoot, vars, otaVars
  <2> QED
    BY <1>0, <2>1
<1>2. CASE RcNothingToDo \/ RcNoDirectory
  <2>1. phase = "rc" /\ phase' = "app"
    BY <1>2 DEF RcNothingToDo, RcNoDirectory
  <2> QED
    BY <1>0, <2>1
<1>3. CASE RcStart
  <2>1. phase = "rc" /\ flag /\ phase' = "copy" /\ rcFile' = 1
    BY <1>3 DEF RcStart
  <2> QED
    BY <1>0, <2>1
<1>4. CASE RcSkip
  <2>1. phase = "copy" /\ phase' = "copy" /\ rcFile' = rcFile + 1
    BY <1>4 DEF RcSkip
  <2> QED
    BY <1>0, <2>1
<1>5. CASE RcCopyOpen
  <2>1. phase = "copy" /\ phase' = "copying" /\ rcFile' = rcFile
    BY <1>5 DEF RcCopyOpen
  <2> QED
    BY <1>0, <2>1
<1>6. CASE RcCopyDone \/ RcCopyFails
  <2>1. phase = "copying" /\ phase' = "copy" /\ rcFile' = rcFile + 1
    BY <1>6 DEF RcCopyDone, RcCopyFails
  <2> QED
    BY <1>0, <2>1
<1>7. CASE RcRemoveFlag
  <2>1. phase = "copy" /\ phase' = "rmdone"
    BY <1>7 DEF RcRemoveFlag
  <2> QED
    BY <1>0, <2>1
<1>8. CASE RcReboot
  <2>1. phase = "rmdone" /\ phase' = "uboot" /\ ~flag'
    BY <1>0, <1>8 DEF RcReboot
  <2> QED
    BY <1>0, <2>1
<1> QED
  BY <1>1, <1>2, <1>3, <1>4, <1>5, <1>6, <1>7, <1>8 DEF Rc

\* What InstallEnds rests on besides fairness, for any number of files: the installation
\* cannot go on for ever between two power cuts.
THEOREM InstallationAdvances == InstallSpec => InstallAdvances
<1>1. InstallInit => OfferInv
  BY DEF InstallInit, OfferInv
<1>2. SysInv /\ InstallInv /\ OfferInv /\ [InstallNext]_allVars => OfferInv'
  BY NextOffer DEF InstallNext, Next
<1>3. SysInv /\ OfferInv => [UBoot \/ Rc => InstallRank' < InstallRank]_allVars
  BY BootAdvances
<1> QED
  BY <1>1, <1>2, <1>3, InitInstall, NextInstall, PTL DEF InstallSpec, InstallAdvances

\* The same in the whole system, where the app stages the packages and reboots.
THEOREM BootingAdvances == SystemSpec => InstallAdvances
<1>1. SystemInit => OfferInv
  BY DEF SystemInit, Init, OfferInv
<1>2. SysInv /\ OfferInv => [UBoot \/ Rc => InstallRank' < InstallRank]_allVars
  BY BootAdvances
<1>3. SysInv /\ OfferInv /\ [Next]_allVars => OfferInv'
  BY NextOffer
<1> QED
  BY <1>1, <1>2, <1>3, SystemInvariant, PTL DEF SystemSpec, InstallAdvances
==============================================================================
