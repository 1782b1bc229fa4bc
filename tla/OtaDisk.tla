------------------------------- MODULE OtaDisk -------------------------------
(***************************************************************************)
(* The eMMC as the upgrade code of the app, the boot loader script and the *)
(* start-up script share it: the directory firmware/ and update.flag of    *)
(* the OTA partition, and the files of the boot partition.                 *)
(*                                                                         *)
(* A firmware package is FileCount file records one after the other, and   *)
(* every record is two units: the file_info_t header and the file's bytes. *)
(* A unit is abstracted to the image (build) it belongs to, so the content *)
(* of a file is the sequence of units it was written from:                 *)
(*   <<>> no such file, <<h>> created but cut short, <<h, b>> complete.    *)
(***************************************************************************)
EXTENDS Naturals, Sequences

CONSTANTS Images,    \* the firmware builds a client may send
          Factory,   \* the build the device was delivered with
          FileCount  \* files in a package, and in the boot partition

ASSUME OtaAssumption ==
  /\ Factory \notin Images
  /\ FileCount \in Nat \ {0}

Files  == 1..FileCount
Builds == Images \cup {Factory}

Absent      == <<>>
Contents    == {Absent} \cup {<<h>> : h \in Builds} \cup {<<h, b>> : h, b \in Builds}
Whole(c)    == Len(c) = 2
Directories == [Files -> Contents]
EmptyDir    == [f \in Files |-> Absent]

\* What booting with update.flag set selects, file by file: the copy in
\* firmware/ when it exists, else the one of the boot partition.
Overlay(upper, lower) == [f \in Files |-> IF upper[f] # Absent THEN upper[f] ELSE lower[f]]

\* The boot partition as delivered.
Delivered == [f \in Files |-> <<Factory, Factory>>]

VARIABLES fw,    \* firmware/ as the running system sees it (through the page cache)
          flag,  \* update.flag exists, as the running system sees it
          boot,  \* the files of the boot partition (mmcblk0p1), likewise
          disk   \* what the last sync made durable: a record [fw, flag, boot]

otaVars == <<fw, flag, boot, disk>>

Media  == [fw : Directories, flag : BOOLEAN, boot : Directories]
Cached == [fw |-> fw, flag |-> flag, boot |-> boot]

OtaTypeOK ==
  /\ fw \in Directories
  /\ flag \in BOOLEAN
  /\ boot \in Directories
  /\ disk \in Media

OtaInit ==
  /\ fw = EmptyDir
  /\ flag = FALSE
  /\ boot = Delivered
  /\ disk = Cached

\* A file whose last write-back is old and whose cached content is new survives
\* a power cut as either, or as the new one cut short.
Survivors(old, new) == {old, new} \cup {SubSeq(new, 1, n) : n \in 0..Len(new)}
SurvivingDirs(old, new) ==
  {d \in [Files -> UNION {Survivors(old[f], new[f]) : f \in Files}] :
     \A f \in Files : d[f] \in IF old[f] = new[f] THEN {new[f]}
                                                  ELSE Survivors(old[f], new[f])}

\* sync(2), called before every reboot the software makes on its own.
Sync == disk' = Cached

\* u-boot has no page cache.
WriteThrough == disk' = [fw |-> fw', flag |-> flag', boot |-> boot]
-----------------------------------------------------------------------------
(***************************************************************************)
(* What the upgrade server of u-boot may do to the disk, command by        *)
(* command and file by file: the promise the whole system relies on, and   *)
(* UbootOta keeps.                                                         *)
(***************************************************************************)
\* A package whose files are complete, although some may be missing.
Sound(d) == \A f \in Files : d[f] = Absent \/ Whole(d[f])

\* What update.flag may be created for.
Packages == {d \in Directories : d # EmptyDir /\ Sound(d)}

\* What a client may have sent for a file, or a power cut has left of it.
Received == {Absent} \cup {<<h>> : h \in Images} \cup {<<h, b>> : h, b \in Images}

ServerRemovesFlag ==
  /\ flag' = FALSE
  /\ UNCHANGED <<fw, boot>>
  /\ WriteThrough

EvenStaged == TRUE    \* mutant: files are written although update.flag exists
NotStaged  == ~flag

ServerWrites ==
  /\ NotStaged
  /\ \/ fw' = EmptyDir
     \/ \E f \in Files, c \in Received : fw' = [fw EXCEPT ![f] = c]
  /\ UNCHANGED <<flag, boot>>
  /\ WriteThrough

ServerStages ==
  /\ NotStaged
  /\ fw \in Packages
  /\ flag' = TRUE
  /\ UNCHANGED <<fw, boot>>
  /\ WriteThrough
==============================================================================
