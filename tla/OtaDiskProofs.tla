---------------------------- MODULE OtaDiskProofs ----------------------------
(***************************************************************************)
(* Facts about directories and packages, for any number of builds and      *)
(* files, that the proofs about the upgrade programs cite.                 *)
(***************************************************************************)
EXTENDS OtaDisk, SequenceTheorems, TLAPS

LEMMA DirTypes ==
  /\ EmptyDir \in Directories
  /\ Delivered \in Directories
  /\ Absent \in Contents
BY DEF EmptyDir, Delivered, Directories, Contents, Absent, Builds

LEMMA DirExcept ==
  ASSUME NEW d \in Directories, NEW f \in Files, NEW c \in Contents
  PROVE  /\ [d EXCEPT ![f] = c] \in Directories
         /\ [d EXCEPT ![f] = c][f] = c
         /\ \A g \in Files : g # f => [d EXCEPT ![f] = c][g] = d[g]
BY DEF Directories

LEMMA EmptyDirOnly ==
  ASSUME NEW d \in Directories, \A f \in Files : d[f] = Absent
  PROVE  d = EmptyDir
BY DEF Directories, EmptyDir

LEMMA FirstUnit ==
  ASSUME NEW S, NEW x \in S, NEW y \in S
  PROVE  SubSeq(<<x, y>>, 1, 1) = <<x>>
<1> DEFINE s == <<x, y>>
<1>1. \A i \in 1..1 : s[i] \in S
  OBVIOUS
<1>2. /\ SubSeq(s, 1, 1) \in Seq(S)
      /\ Len(SubSeq(s, 1, 1)) = IF 1 <= 1 THEN 1 - 1 + 1 ELSE 0
      /\ \A i \in 1..(1 - 1 + 1) : SubSeq(s, 1, 1)[i] = s[1 + i - 1]
  <2> HIDE DEF s
  <2> QED
    BY <1>1, SubSeqProperties
<1>3. Len(SubSeq(s, 1, 1)) = 1 /\ SubSeq(s, 1, 1)[1] = x
  BY <1>2
<1> QED
  <2> DEFINE t == SubSeq(s, 1, 1)
  <2>1. t \in Seq(S) /\ Len(t) = 1 /\ t[1] = x
    BY <1>2, <1>3
  <2> HIDE DEF t
  <2>2. t = <<x>>
    BY <2>1
  <2> QED
    BY <2>2 DEF t

\* The record that starts at unit 2 * k - 1 of a package is a complete file, and
\* its first unit alone the file cut short.
LEMMA RecordType ==
  ASSUME NEW s \in Seq(Images), NEW k \in Nat, k >= 1, 2 * k <= Len(s)
  PROVE  /\ SubSeq(s, 2 * k - 1, 2 * k) \in Contents
         /\ SubSeq(s, 2 * k - 1, 2 * k) \in Received
         /\ Whole(SubSeq(s, 2 * k - 1, 2 * k))
         /\ SubSeq(SubSeq(s, 2 * k - 1, 2 * k), 1, 1) \in Contents
<1> DEFINE m == 2 * k - 1
           n == 2 * k
           r == SubSeq(s, m, n)
<1>1. /\ Len(s) \in Nat
      /\ m \in 1..Len(s)
      /\ n \in 1..Len(s)
  BY LenProperties
<1>2. /\ s[m] \in Images
      /\ s[n] \in Images
  <2> HIDE DEF m, n
  <2> QED
    BY <1>1, ElementOfSeq
<1>3. \A i \in m..n : s[i] \in Images
  BY <1>2
<1>4. /\ r \in Seq(Images)
      /\ Len(r) = IF m <= n THEN n - m + 1 ELSE 0
      /\ \A i \in 1..(n - m + 1) : r[i] = s[m + i - 1]
  <2>1. m \in Int /\ n \in Int
    OBVIOUS
  <2> HIDE DEF m, n
  <2> QED
    BY <1>3, <2>1, SubSeqProperties
<1>5. /\ Len(r) = 2
      /\ r[1] = s[m]
      /\ r[2] = s[n]
  <2> HIDE DEF r
  <2> QED
    BY <1>4
<1> HIDE DEF r, m, n
<1>6. r = <<s[m], s[n]>>
  BY <1>4, <1>5
<1>7. SubSeq(r, 1, 1) = <<s[m]>>
  BY <1>2, <1>6, FirstUnit
<1>8. /\ r \in Contents
      /\ r \in Received
      /\ Whole(r)
      /\ SubSeq(r, 1, 1) \in Contents
  BY <1>2, <1>5, <1>6, <1>7 DEF Contents, Received, Builds, Whole
<1> QED
  BY <1>8 DEF r, m, n

-----------------------------------------------------------------------------
(***************************************************************************)
(* What survives a power cut                                               *)
(***************************************************************************)
LEMMA PrefixType ==
  ASSUME NEW c \in Contents, NEW n \in 0..Len(c)
  PROVE  SubSeq(c, 1, n) \in Contents
<1>1. CASE n = 0
  <2>1. SubSeq(c, 1, 0) = <<>>
    BY SubSeqEmpty
  <2> QED
    BY <1>1, <2>1 DEF Contents, Absent
<1>2. CASE c = Absent
  BY <1>1, <1>2 DEF Absent
<1>3. ASSUME NEW h \in Builds, c = <<h>>, n = 1 PROVE SubSeq(c, 1, n) \in Contents
  <2>1. c \in Seq(Builds) /\ Len(c) = 1
    BY <1>3
  <2>2. SubSeq(c, 1, Len(c)) = c
    BY <2>1, SubSeqFull
  <2> QED
    BY <1>3, <2>1, <2>2
<1>4. ASSUME NEW h \in Builds, NEW b \in Builds, c = <<h, b>>, n \in 1..2
      PROVE  SubSeq(c, 1, n) \in Contents
  <2>1. c \in Seq(Builds) /\ Len(c) = 2
    BY <1>4
  <2>2. SubSeq(c, 1, Len(c)) = c
    BY <2>1, SubSeqFull
  <2>3. SubSeq(c, 1, 1) = <<h>>
    BY <1>4, FirstUnit
  <2>4. CASE n = 1
    BY <2>3, <2>4 DEF Contents
  <2>5. CASE n = 2
    BY <2>1, <2>2, <2>5
  <2> QED
    BY <1>4, <2>4, <2>5
<1> QED
  <2>1. \/ c = Absent
        \/ \E h \in Builds : c = <<h>>
        \/ \E h, b \in Builds : c = <<h, b>>
    BY DEF Contents
  <2>2. ASSUME NEW h \in Builds, c = <<h>> PROVE SubSeq(c, 1, n) \in Contents
    <3>1. Len(c) = 1
      BY <2>2
    <3> QED
      BY <1>1, <1>3, <2>2, <3>1
  <2>3. ASSUME NEW h \in Builds, NEW b \in Builds, c = <<h, b>>
        PROVE  SubSeq(c, 1, n) \in Contents
    <3>1. Len(c) = 2
      BY <2>3
    <3> QED
      BY <1>1, <1>4, <2>3, <3>1
  <2> QED
    BY <1>2, <2>1, <2>2, <2>3

\* cp has opened its target and written the beginning of a file.
LEMMA FirstUnitType ==
  ASSUME NEW c \in Contents, c # Absent
  PROVE  SubSeq(c, 1, 1) \in Contents
<1>1. Len(c) \in {1, 2}
  <2>1. (\E h \in Builds : c = <<h>>) \/ (\E h, b \in Builds : c = <<h, b>>)
    BY DEF Contents
  <2>2. ASSUME NEW h \in Builds, c = <<h>> PROVE Len(c) = 1
    BY <2>2
  <2>3. ASSUME NEW h \in Builds, NEW b \in Builds, c = <<h, b>> PROVE Len(c) = 2
    BY <2>3
  <2> QED
    BY <2>1, <2>2, <2>3
<1>2. 1 \in 0..Len(c)
  BY <1>1
<1> QED
  BY <1>2, PrefixType

LEMMA SurvivorType ==
  ASSUME NEW old \in Contents, NEW new \in Contents
  PROVE  Survivors(old, new) \subseteq Contents
BY PrefixType DEF Survivors

\* A directory that survives is a directory, and has lost no file whose cached
\* and durable contents agree.
LEMMA SurvivingType ==
  ASSUME NEW old \in Directories, NEW new \in Directories,
         NEW d \in SurvivingDirs(old, new)
  PROVE  /\ d \in Directories
         /\ \A f \in Files : old[f] = new[f] => d[f] = new[f]
<1>1. \A f \in Files : old[f] \in Contents /\ new[f] \in Contents
  BY DEF Directories
<1>2. \A f \in Files : d[f] \in IF old[f] = new[f] THEN {new[f]}
                                                   ELSE Survivors(old[f], new[f])
  BY DEF SurvivingDirs
<1>3. \E R : d \in [Files -> R]
  BY DEF SurvivingDirs
<1>4. \A f \in Files : d[f] \in Contents
  BY <1>1, <1>2, SurvivorType
<1> QED
  BY <1>2, <1>3, <1>4 DEF Directories
-----------------------------------------------------------------------------
\* Whatever the server of u-boot does is durable at once.
LEMMA ServerDisk ==
  ASSUME OtaTypeOK, ServerRemovesFlag \/ ServerWrites \/ ServerStages
  PROVE  /\ OtaTypeOK'
         /\ disk' = Cached'
         /\ boot' = boot
<1>1. fw' \in Directories
  <2>1. \A c \in Received : c \in Contents
    BY DEF Received, Contents, Builds
  <2>2. ASSUME NEW f \in Files, NEW c \in Received PROVE [fw EXCEPT ![f] = c] \in Directories
    BY <2>1, DirExcept DEF OtaTypeOK
  <2> QED
    BY <2>2, DirTypes DEF ServerRemovesFlag, ServerWrites, ServerStages, OtaTypeOK
<1>2. flag' \in BOOLEAN /\ boot' = boot
  BY DEF ServerRemovesFlag, ServerWrites, ServerStages, OtaTypeOK
<1>3. disk' = [fw |-> fw', flag |-> flag', boot |-> boot']
  BY <1>2 DEF ServerRemovesFlag, ServerWrites, ServerStages, WriteThrough
<1> QED
  BY <1>1, <1>2, <1>3 DEF OtaTypeOK, Media, Cached
=============================================================================
