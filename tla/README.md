# Verification of the radar control software

This directory holds TLA+ models of the software in `src/`: the Linux
application `linux_app.elf` of a counter-UAS radar (`app/`), and the parts of
its operating system (`os/`) that upgrade and start it. TLC checks the models on
small instances; TLAPS proves the main invariants for every value of the
constants. `PROJECT.json` lists the components, runs, mutants, hazards and
theorems, and maps each definition to the source lines it models.

    tlc -workers 2 -config MCOtaSystem.cfg MCOtaSystem     # a run
    tlapm OtaSystemProofs.tla                              # a proof module

## 1. The system

### Parts

| Part | State | Operations | Interacts with |
|---|---|---|---|
| Firmware upgrade of the app (`alink_upgrade.c`, `firmware.c`) | `update_state`, `firmware_save_ok`, the accepted header, `cache.bin`, `firmware/`, `update.flag` | request, download, check, write, write status, goto app, reboot | called by the command dispatch under one mutex; leaves files for u-boot and `apps.rc`; a detached thread reboots |
| u-boot environment (`check_download`, `update_system`) | none of its own | choose which files to boot, enter the upgrade server | reads `update.flag`, `firmware/`, the boot partition |
| u-boot upgrade server (`OTA`) | `update_state`, `firmware_check_over`, receive buffer, the writer's `start_write`, `write_step`, `file_offset`, retries | the same commands; `OTA_process` writes one file per round of the net loop | writes `firmware/` and `update.flag` |
| Start-up script (`apps.rc`) | position in the loop over the files | copy `firmware/` into the boot partition, remove the flag, reboot | the same files |
| Uploads (`alink_upload.c`, `alink_package.c`) | one send list per message id, the upload mutex | send a package to its list, subscribe, unsubscribe | called by every periodic task; calls into the TCP clients |
| Context of a connection (`c2_network.c`) | six subscriptions | create, delete | subscribes to uploads; created by eth_link, deleted by the client's thread |
| TCP client (`tcp_client.c`) | thread state, `bFlagConnect`, `uConnectCount` | create, connect, receive, give up, send | callbacks into c2_network and eth_link |
| Connection list (`eth_link.c`) | `psEthList->list`, `psNext`, `sCfg` | add (main, UDP thread), delete (each connection's thread), search | no lock at all |
| Command dispatch (`alink_order.c`, `alink_recv.c`) | order mutex, byte-wise parser | parse, dispatch, reply | every handler runs here |
| Data path (`data_path.c`), UDP sender (`protocol_common.c`) | slots of radar frames, busy flags, message queues, two send buffers | interrupt, push, algorithm and send tasks | queues and callbacks between five threads |
| Processor in the loop (`pil.c`, `alink_pil.c`) | open/inject flags, offset, buffer of one frame | open, start, transfer, inject, close | commands come one at a time; a task of the data path writes the frame to the PL |
| Tracking (`tracking_*.c`) and scheduling of beams (`dispatch.c`) | free, TWS and TAS lists, state of each tracker, candidates, the cycle of beams and its two-stage pipeline | start, evict, merge, confirm, move, free trackers; schedule the next beam | one frame of radar data after the other in the algorithm task |
| Storage, log, record | writer queues, rotating files | write, rotate | all tasks |
| Sensors, CLI, flash, network configuration, drivers, kernel modules | registers and files | I/O | - |
| Detection, waveform, beams, filters, calibration | arrays | numerical | - |

### What is hard

* **Upgrade.** Three programs share a disk without talking to each other; only
  `update.flag` orders them. Power may go at any moment, nothing but GOTO APP
  calls `sync`, two clients may mix their commands, and the reboot thread does
  not take the mutex of the commands. In u-boot the writer runs between packets
  and outlives the session that started it.
* **Connections.** A connection is created by one thread while its own thread
  is already running, subscribes and withdraws in six separate critical
  sections, and is freed by its own thread while others upload through it. The
  list of connections is changed by all of them with no lock.
* **Data path.** Flags cleared by callbacks of another task stand for ownership
  of buffers; a queue that is full loses the callback. A command that waits in a
  queue points to a slot that nothing reserves. The task of the processor in the
  loop is started again while an earlier thread of it may still be waiting.
* **Tracking.** The number of a tracker is kept in many places (siblings,
  candidates, targets, beams on their way) while the tracker may be freed and
  started again for another target. A beam is processed two frames after it was
  scheduled and many frames after its target was chosen.

### What makes each part correct

* upgrade: the device always boots; a package is installed whole or not at all;
  a checked image is the one written; the installation ends;
* u-boot server: `update.flag` never stands for a package that is incomplete or
  being written; the client learns the outcome of a write;
* uploads: no freed connection is on a list or being sent through; nobody loses
  messages because somebody else leaves; nobody waits for the mutex for ever;
* connection list: it never becomes cyclic; used by one thread at a time it
  holds live connections only, one per server, at most the maximum, and every live
  one until a removal has dropped others with its own;
* data path: no frame is overwritten while its command waits, while it is pushed or
  while the algorithm task has it, unless the interrupt threads fall behind the PL
  or the algorithm task behind the push task; a buffer is
  not refilled while it is being sent, and comes back in the end; no thread waits
  for ever;
* PIL: one frame at a time, what is injected was sent since the last start, and
  an injection ends;
* tracking: each tracker is on exactly one list, the trackers started together
  are distinct, and the data of a beam reaches the track it was scheduled for, but
  after a pause and for a candidate given up just before its confirming beam;
* scheduling: a cycle is over before the next begins, and the search goes on.

## 2. Modules

| Module | Models |
|---|---|
| `OtaDisk` | the eMMC: `firmware/`, `update.flag`, boot partition, each as cached and as durable; what the upgrade server may do to it |
| `AppUpgrade` | `alink_upgrade.c`, `firmware.c` of the app |
| `OtaSystem` | `AppUpgrade` + u-boot environment + `apps.rc` + power cuts |
| `AtomicUpgrade` | abstract: one complete system is replaced by the next in one step |
| `UbootOta` | the upgrade server of u-boot |
| `StagedPackage` | abstract: a package is complete when it appears and then untouched |
| `AlinkUpload` | `alink_upload.c`, `alink_package.c`, `c2_network.c`, `tcp_client.c` |
| `EthLink` | `eth_link.c`, composed with `AlinkUpload` |
| `DataPath` | `data_path.c`, the sending half of `protocol_common.c`, the pending bits of the `pl-event` driver |
| `SendBuffer` | abstract: buffers are filled one at a time, handed over and returned |
| `Pil` | `pil.c`, `alink_pil.c`, `data_path_module_task` with the frames of PIL |
| `Tracking` | `tracking_module.c`, `tracking_listlib.c`, `tracking_unit*.c`, `tastws.c`, `dispatch.c`: a frame from its points to the next beam |
| `MC*` | symmetry and constant values of the runs |
| `*Proofs` | theorems about the module of that name (`OtaSystemProofs` also about `AppUpgrade`) |

### OtaDisk, AppUpgrade, OtaSystem

A package is `FileCount` records, a record is a header unit and a body unit, and
a unit is only the build it belongs to. So a file is absent, cut short or whole,
and mixing two builds shows. `disk` is what the last sync made durable; a reset
(`Reset`) keeps, file by file, the old content, the new one or a prefix of it.

The handlers of the app run under the mutex of `alink_order_task`; those that do
not touch the disk more than once are one action each. The request
(`RequestUpgrade`, `WipeFile`, `RequestDone`) and WRITE (`WriteImage`,
`SaveFile`..., `SetFlag`) are split at each file, because neither the power nor
`auto_reboot_task` waits for the mutex. `WRITE_FAIL_RETRY_CNT` bounds the loop
of `firmware_write` as in the code, where it is no retry: a failed file leaves
`file_offset` behind its header. `stage` and `staged` are history: the package
`update.flag` was created for.

`OtaSystem` adds u-boot's choice (`Selected`, `Boots`), its fallback into the
upgrade server (`UBootServes`, `UBootLeaves`) and `check_download` of `apps.rc` step
by step. Of the server it uses three promises, which `OtaDisk` states and `UbootOta`
is shown to keep (`ServesDisk`): it removes the flag without touching `firmware/`
(`ServerRemovesFlag`), writes only while there is no flag (`ServerWrites`), and creates
it for complete files only (`ServerStages`); the download loop of the environment is
left with the flag. `harm` records the five events the
design does not survive; every claim below is relative to it:

* `lost writes`: what was not synced was lost in a way that matters,
* `cut in rm`: power failed while a request removed a staged package,
* `cut in BOOT.BIN`: power failed while the first file was being copied,
* `copy failed`: `cp` failed and `apps.rc` did not look,
* `empty save`: WRITE with nothing received set the flag for old files.

Booting a complete staged package clears it.

`SystemFlagFreezes` is about one boot and the next. While a request's `rm` is at
work the package counts as gone although the flag is still there, so a cut in it
could look like a package staged anew, of what `rm` has left. Therefore only a step
that creates the flag counts as staging (`Staged!Stage /\ ~flag`), for files that are
all whole, and the property names the three events that break the lock: `WritesLost`,
`CutInRemoval` and `EmptySave`. A reset may also bring a flag back for files that
nobody has touched (`FlagComesBack`). Which files a flag stands for is the subject of
`StagedIsReceived`.

### UbootOta

u-boot is single threaded: a command is one action, `OTA_process` writes at most
one file between two commands, and the file system has no cache
(`WriteThrough`). It starts on any disk of `Found`: what cuts, copies and requests
leave behind is in the instance, and the proofs hold for every `Found`. `write_step` keeps 0, 1 (for 1..99 %) and 100.

### AlinkUpload, EthLink

A client is the address of a connection and of its context; addresses are reused
after `free`. `made` counts what its creator has done (six subscriptions, then
`psUserCbk`, then `psRoot`), `left` what its thread has withdrawn. A send list is
a sequence, every change one critical section. `alink_package_disconnect_send`
empties the list when its head leaves, as the code does. An upload is split at
the test of the list, the lock, each element and each `send`. A thread that frees
a connection whose creator is not done, and a `send` that meets a reset
connection (SIGPIPE is not ignored), end the process: `dead`.

`EthLink` replaces the creation and the freeing of `AlinkUpload` by the walks
over the connection list, one pointer at a time. A step through freed memory sets
`harm` and ends the run. `psLast` never advances in `eth_link_del_tcp_client_list`
and neither does it here. Once the walk of an addition is over, its assignments are
one step (`AddLink`, eth_link.c 349-355): of the new element only `psNext` matters to
others, and `memset` has cleared it long before the element is linked; `psRoot` is
read by the connection's own thread alone; so that the write of the one pointer that
links it is all others can see. `overlap` is history: two threads were inside;
so is `dropped`: a removal took more elements out than its own.

### DataPath, SendBuffer

Five threads: the cpib interrupt (`CpibHandler`: the PL moves to the next slot),
the rdmap interrupt (`Rdmap*`: a frame is copied to its slot and a command sent),
the push task (`Push*`), the algorithm task (`Alg*`) and the UDP thread (`Udp*`).
A frame lives in one of eleven slots of `abyDataPl`; a command is only the number
of the slot, in the queue of the push task and in that of the algorithm task, to
which the push task forwards it. `Needed` are the slots of the commands that wait for
the push task, of the frame it has, and of those the algorithm task has or will get. `sDataPathOutEn` is read again by each of the five tests the push
task makes, so `PushTest` is one step per test and `SetMode` may come between.
One flag (`adc_send_busy_flag`) stands for two buffers; `PushFill` raises it,
`UdpCall`, the callback, clears it. A queue of UDP messages that is full loses the
message (`PushSend`) and with it the callback. `overrun` is history: an interrupt
thread was not back in `select` when the PL finished the next frame, or it copied
a frame although the queue had no room. So is `late`: the algorithm task still had a
frame when the push task took its last one. The slots do not reserve anything for
it, and a late task may well find its frame overwritten: that is the exception of
`SlotsSuffice`.

### Pil

Opening starts a thread and opens the queue by its name; closing only clears
`eRunState`, which a thread in `mq_receive` does not see. Threads of earlier
openings are therefore still there; each, when it leaves, closes and unlinks
whatever queue the structure holds by then (`Leave`, `Left`). Queues are numbered,
`named` is the one `mq_open` would find. A part of a frame is `new`, `old` (sent
before the last start) or `wrong` (stored at an offset that was not its own, which
the answer tells the client). `data_path_pil_init` may fail, which
is only logged: PIL is open then and no task runs (`SetOpenFails`). `lost` is history:
an injection that nothing will end, because the inject command started it, no task
runs since the opening failed, the PL could not be written, or an old
thread closed the new queue. `uOffset + uLength` is a `uint32_t` sum and wraps
(`Word`, in parts): a part that passes the test that way is copied outside
`awBuffer`, which sets `stray` and ends the run.

### Tracking

`stage` is the place in `alg_process`: a frame begins, points start trackers one
or three at a time (`NextPoint`, `AllocateUnit`), trackers are merged and managed
(`Manage`), candidates for a confirming beam are chosen (`ConfirmSelect`), tracks
are divided into TWS and TAS (`ListConstruct`), the next beam is scheduled. A list
is the set of the trackers on it: the order of a list matters to no decision that
is kept. Measured values are any choice, within what the code does with them:
eviction (`Evicts`) compares ranges, so it picks them. `next` and `output` are the
two buffers a beam passes before its data comes; `confirmBeamId`, `initPending`
and `tasPending` are the candidates, those of the cycle, and its targets.
`Awaited` are the trackers that a beam of the cycle is for. `restarted` (of those,
freed and started anew since the cycle began), `evicted` (given up for another point),
`paused` (the mode was 0 in between) and `away` (beams since the last search beam) are
history. An evicted tracker is one that a new point takes over: a candidate still in
DETECTION may be in the scan that ends just before its confirming beam comes, and
`TasDwellFresh` names that exception; TLC finds that it happens.

## 3. Runs

| Run | States | Checks | Shows |
|---|---|---|---|
| `app_upgrade` | 882 000 | `StageIsKept`, `NoStaleTail`, `CheckedImage`, `StagedIsReceived` | whatever two clients send in whatever order, the flag appears with all that was received behind it, and a staged package is not altered but by removal; a file is never written over an older one, and CHECK means what it says |
| `ota_system` | 1 390 000 | `DeadOnlyByHarm`, `CopyIsRedoable`, `SystemFlagFreezes`, `UpgradeIsAtomic` | with power cuts anywhere the device boots and packages are atomic, unless one of the five harms was done; `update.flag` is a lock on `firmware/` that app, server, script and every cut respect, but for three named events: a reset that loses writes, a cut in the `rm` of a request, an empty save |
| `ota_install` | 736 | `InstallIsComplete`, `InstallEnds`, `InstallAdvances` | the installation only gets nearer to its end between two power cuts, and ends, complete, once the power stays on |
| `uboot_ota` | 184 000 | `FlagFreezesFirmware`, `FlagMeansReceived`, `ServesDisk`, `WriteEnds`, `WriteAdvances` | the server keeps what `OtaSystem` assumes of it; the flag stands for all that was received, although requests go on during the write; the writing of a checked image ends, done or failed, within a number of steps that depends on its size |
| `uboot_check` | - | `RepeatedCheckIsOK` (violated) | see Findings |
| `alink_upload` | 2 600 000 | `SubscribersLive`, `SendsToLive`, `NobodyDropped`, `UploadAdvances` | no upload meets a freed connection or keeps the mutex for ever; the loss of a whole list when its head leaves never happens behind the permanent connection |
| `upload_ends` | 23 000 | `WaitersServed` | subscribing and leaving end, whatever the uploads do |
| `eth_link` | 1 364 000 | `WalksEnd`, `SoundWhenExclusive`, `LiveAreListed` | no order of additions, removals and reuse closes a cycle of pointers; without overlap the list is sound, and every live connection is on it, one per server, until a removal drops others |
| `link_uploads` | 172 000 | `SoundWhenExclusive` | the same at a limit of two, where the list that is full refuses one more |
| `data_path` | 582 000 | `SlotsSuffice`, `WaitsHaveAnEnd`, `HandoverSpec`, `FrameGetsIn` | one slot more than the queue holds is enough, with the algorithm task's frame counted as long as it is not late; `DataPath` implements `SendBuffer`; no wait of the interrupt thread is for ever |
| `pil` | 760 000 | `OneFrame`, `FrameIsNew`, `FrameOnItsWay`, `InjectEnds` | however often it is closed and opened, one frame is on its way, it is a new one, and the task will find it; the four ways of losing it are all there are |
| `tracking` | 5 100 000 | `TrackTypeOK`, `SiblingsDistinct`, `SnapshotFresh`, `TasDwellFresh`, `CycleFinishes`, `SearchGoesOn`, `TasScanSpares` | numbers of trackers that are kept over frames still mean the same track when they are used, with the two exceptions stated: a pause, and a candidate given up before its confirming beam |

The type invariants (`TypeOK`, `SystemTypeOK`, `UbootTypeOK`, `UploadTypeOK`,
`LinkTypeOK`, `DataTypeOK`, `PilTypeOK`), `AppFlagFreezes`, of which `SystemFlagFreezes`
is the stronger form, `InstalledBeforeFlagGone`, which `UpgradeIsAtomic` and
`InstallIsComplete` imply where it matters, and the rankings `InjectAdvances` and
`WorkAdvances` are proved for every value of the constants (section 4) and checked by
no run.

**Bounds.** Two files are the least with a first one (BOOT.BIN) and another; two
builds the least that can be mixed (one where only cuts matter). The buffer of
four units holds one package exactly, so that its limit is met. A retry count of
1 or 2 is spent within a run. Three clients make a list with a head, a middle and
an end, of which one leaves while another joins; four are needed for the
connection list, where the third element is the one removal gets wrong. The upgrade
server starts on an empty `firmware/`, one with files cut short, one with a single
whole file and a complete one, each with and without the flag. Two
senders contend for the upload mutex; two messages are the least between which a
connection is half withdrawn. `ConnectTime` is 1 where giving up matters and 2
where counting does. The limit of the list (`MaxClients`) is 3 in `eth_link`, so
that three elements fit, and 2 in `link_uploads`, where the third server finds the
list full. Of the three servers of `MCEthLink` two share a port, which the code
takes for the same server. `DataPath` has two slots, a
queue of one and a UDP queue of two (11, 10 and 20 in the code): what matters is
that there is one slot more than the queue holds, that positions wrap and that
both queues fill up. Of the six modes, 1 and 4 differ from 3 only in the buffer, and 2 sends no message,
as 0; so 0, 3 and 5 are used.
`Pil` has two parts per frame, the least where a part can be missing, and three
threads, of which one leaves while the second waits and the third is started, with
one queue more; `Word` is 5 parts, the least with which the largest legal sum does not
wrap. `Tracking` has three trackers (128 in the code), so that the three
siblings of one point fill the lists and a further point evicts; one candidate and
two targets of two beams (3, and 3 of 4); a cycle of 7 beams, the shortest
`TrackingAssumption` allows, where the code has 24 for the 17 it needs.
Symmetry is used over clients, senders,
builds and trackers (except tracker 0, which the code treats apart) in runs
without liveness only.

**Deadlock** is off where the system really stops: the device is dead or booted,
the process has ended, in `pil` after a write outside the buffer. It is checked in
`data_path` and `tracking`.

**Fairness.** `InstallSpec`: u-boot and the script run whenever there is power
(weak). `UbootSpec`: the net loop calls `OTA_process` in every round (weak).
`FairUploadSpec`: a thread that can run does, and `send` returns because its
socket has a 500 ms timeout (weak); a thread waiting for the upload mutex gets
it if it is free again and again (strong), which the kernel's futex queue gives
because uploads are periodic and leave the mutex free in between.
`DataPath`: each of the five threads runs (weak), and the two that contend for
the lock of the UDP socket get it (strong), for the same reason; interrupts may
stop. `Pil`: its threads run (weak). No fairness is
assumed of peers: connecting, disconnecting, and clients' commands may stop.

**Mutants.** Each property of each passing run has a mutant in its module, a
plausible slip in the code (a dropped lock, a missing reset, a swapped order),
under which TLC finds it violated.

### Findings

`uboot_check`: `upgrade_check_image` of `0003-add-OTA.patch` says "just check
once if correct, save time.", but the state it tests is left by the first
successful CHECK, so that a second one is answered STATUS_ERROR and the branch
that would save the time is never taken.

Behaviour worth knowing that contradicts no sentence of the repository is in the
hazard list: the five harms; removal from the connection list loses the elements
between the first and the one removed; overlapping removals reach freed memory; a
process without its permanent connection loses subscriptions and can close a
cycle in the list; a repeated WRITE reports COMPLETE after it removed the flag.

## 4. Theorems

All are proved from the `ASSUME`s of the modules (`OtaAssumption`,
`AppAssumption`, `UbootAssumption`, `UploadAssumption`, `LinkAssumption`,
`DataAssumption`, `PilAssumption`, `TrackingAssumption`), which say that counts are natural
numbers, that the special values are not ordinary ones and, where the code sizes
one thing by another, that it does: a package fits the buffer of the app, there is
one slot more than the queue of the push task holds, and a cycle is at least two
beams longer than all its candidates and targets need (`TAS_CYCLE_BEAM_NUM` is 24,
3 + 3 * 4 + 2 is 17).

| Module | Theorem | Says |
|---|---|---|
| `OtaSystemProofs` | `TypeCorrect`, `StageKept`, `NoTailSurvives`, `CheckedStays` | the invariants of `app_upgrade` |
| | `AppImplementsStaged`, `StagedWasReceived` | `AppSpec` implements `StagedPackage` but for the empty save, and the flag stands for all that was received |
| | `SystemKeepsApp`, `SystemStagesReceived` | the same of the app within `SystemSpec`, where it starts on whatever cuts, copies and the server left |
| | `FlagFreezesInSystem` | from one boot to the next the flag protects `firmware/`, and what it appears for is complete, but for the three events of `SystemFlagFreezes` |
| | `InstallationAdvances`, `BootingAdvances` | each step of boot loader and script lowers `InstallRank`, for a staged package and with the app around them |
| | `SystemTypeCorrect`, `DeviceSurvives`, `CopyRedoable`, `InstalledFirst`, `SystemIsAtomic`, `InstallLeavesNothing` | the invariants of `ota_system` and `ota_install`, and `SystemSpec` implements `AtomicUpgrade` |
| `UbootOtaProofs` | `UbootTypeCorrect`, `UbootImplementsStaged`, `FlagStandsForReceived`, `WriterAdvances` | types, `UbootSpec` implements `StagedPackage`, the flag stands for all that was received, and each pass of the writer lowers `WriteLeft` |
| | `ServerServesDisk` | whatever the server finds on the disk, it does only what `OtaSystem` lets it do |
| `AlinkUploadProofs` | `UploadTypeCorrect`, `SubscribersStayLive`, `SendsStayLive`, `NobodyIsDropped`, `UploadsAdvance` | types and the properties of `alink_upload` |
| `EthLinkProofs` | `LinkTypeCorrect`, `WalksAlwaysEnd`, `ListIsSound`, `LiveStayListed` | types and the properties of `eth_link` |
| | `LinkedSendsLive`, `LinkedSubscribersLive`, `LinkedNobodyDropped`, `LinkedUploadsAdvance` | all properties of `alink_upload` hold with the unprotected list around them, because each step of `LinkSpec` is one of `UploadSpec` or a stutter (lemma `LinkIsUpload`) |
| `DataPathProofs` | `DataTypeCorrect`, `SlotsAlwaysSuffice`, `NobodyIsStuck`, `HandoverSafe` | types, `SlotsSuffice` and `WaitsHaveAnEnd`, and the safety part of `HandoverSpec` |
| | `FramesWorkedOff` | each step of the push, algorithm and UDP tasks lowers `WorkLeft`, which only a further frame raises |
| `PilProofs` | `PilTypeCorrect`, `OneFrameOnly`, `FramesAreNew`, `InjectionHasItsFrame` | types and the invariants of `pil` |
| | `InjectionAdvances` | each step of the task lowers `InjectLeft` while a frame is being injected |
| `TrackingProofs` | `TrackTypeCorrect`, `SiblingsAreDistinct`, `SnapshotIsFresh`, `DwellIsFresh`, `CyclesFinish`, `SearchNeverStops`, `TasScanSparesAlways` | all properties of `tracking` |

`OtaDiskProofs` has the lemmas about contents, overlays and survivors.

**Inductive invariants.** *App:* `StageIsKept` needs that a request already
counts as removing the package, and that WRITE works with nothing staged
(`StageInv`). `NoStaleTail` needs that `firmware/` is empty as long as `cache.bin`
is open outside WRITE (`CacheInv`): a second WRITE finds the cache closed.
`CheckedImage` is inductive with the types. `SaveInv` says what WRITE has done so
far: the flag is gone, the files behind the loop are complete, and so is what it
reports as written, unless nothing was received. `SavedInv` adds what those files
are: the records of the buffer, in their order, and no others when WRITE is through.
With it (`AppInv`) every step of the app is one of `StagedPackage`, so both programs
that create `update.flag`, this one with its lists of files and u-boot with its
writer between packets, keep the same promise to the script that reads it.
*System (`SysInv`):* outside the app no command is half done (`QuietInv`);
`DiskInv` says, phase by phase, what may not be durable yet (nothing in u-boot;
during the copy the flag and `firmware/` are); and while no harm was done
(`HarmlessInv`) a staged file is whole or absent, only copies of it change the
boot partition, the files before `rcFile` have arrived, and a file cut short can
be copied again. A power cut keeps this because the durable flag leads back to
the copy, or the boot partition has lost nothing.
For `AtomicUpgrade` it is enough to know besides what is on offer (`OfferInv`): in
the app the flag stands for the whole package or for one being wiped, and each
step of the script copies below what u-boot would lay over anyway, so that only the
reset that leaves the app changes what is installed. `InstallInv` adds, for a run
that begins with a staged package, that `firmware/` is durable throughout and that
the flag goes after the last copy. `InstallAdvances` rests on `OfferInv` too: the
script that starts with the flag set has the whole loop before it, two steps a file,
and the removal of the flag leads back to u-boot without it, so that `InstallRank`
falls through the reboot as well. What the app promises on its own it promises in the
system (`RunInv`), because of what it finds at its start it relies only on the types:
a session begins with nothing checked and nothing received (`QuietRun`), and a request
empties `firmware/` before a cache is opened. For `SystemFlagFreezes` each program's
steps are sorted by what they do to `firmware/` and the flag together (`Package`).
*u-boot (`WriterInv`):* the flag and a writer at work exclude each other, and a
writer at 100 % leaves `firmware/` non-empty. `WrittenInv`: while the server is in
state WRITE_IMAGE nothing is received, so what is in `firmware/` is a beginning of
what was received, and all of it at 100 %. `BeforeEndInv` is what `WriteAdvances`
needs: a writer that has begun and is not at 100 % has not run out of records, although
a failed attempt leaves `file_offset` in the middle of one; requests, downloads and a
new session, which all leave the writer's state behind, cannot bring it to the end of
another package, because they leave WRITE_IMAGE, and WRITE itself starts it afresh.
`ServesDisk` follows from the first two, the disk being as durable as the cache
(`DurableInv`): a writer at work finds no flag, and at 100 % what was received is
complete files. The loop is left with the flag, and then nothing runs that could remove
it (`LeftInv`).
*Uploads (`UploadInv`):* a list has no duplicates and only entitled connections
(`ListInv`), a sender between lock and unlock owns the mutex and stands at an
element of its list (`SenderInv`), the counters of a connection agree with the
state of its thread (`LifeInv`), and a list headed by the permanent connection
holds everyone entitled (`CompleteInv`). For `UploadAdvances` the owner of the mutex
must be on its way through a list (`HolderInv`); that the list has no repeats makes
each `psNext` one element less ahead of it.
*Connection list (`LinkInv`):* types, and a caller in state `init` has a
connection in its hands (`AdderInv`), which makes each step of it, of the
removals and of the threads a step or a stutter of `AlinkUpload`. The permanent
connection heads the list and nothing ever points to it (`HeadInv`), so that a
removal, which rewrites the pointer of the head alone, closes no cycle, and an
addition ends in an element that leads nowhere. `SoundInv` describes a thread that
is alone in the list: an addition has counted the elements it passed and met none
of its server (`AddSound`), a removal has not passed its own connection, or has
taken it out (`DelSound`). `LiveInv` adds that every connection in use is on the list
as long as there was no overlap and nothing was dropped: a removal at the second
place takes its own element out and no other, and an addition appends behind the last.
*Data path:* without overrun the slots of the frames still needed follow one
another without a gap, modulo the number of slots, and the newest is at most one
behind the PL; so they are different as long as there are no more of them than
slots. The algorithm task, unless it is late, has at most one frame besides the push
task's, the one just before all these, and none before two frames have been copied
(`AlgInv`); so the slot the next frame goes to is not its either. The buffer that is filled, those in the UDP queue and the one being sent
are one buffer together, and if there is one the flag is up. Conversely
(`WaitInv`), if the flag is up there is one, or the push task is about to send it, and
then the queue of the UDP thread holds nothing of it: that makes room for the message
and with it for the callback, so that the push task never spins in vain. `WorkLeft` gives a frame more steps than all it
can set off: five tests, two messages and what these cost the tasks behind.
*Pil (`PilInv`):* while no frame is on its way, every part before the offset was
sent since the last start of a transfer (`FilledInv`), so that the part that fills
the buffer makes a frame of such parts; the flag is up from then until the frame
has been taken and reported or is lost, and refuses what would touch it. `ServeInv`: unless something was lost, a task that
runs has its queue and a thread that serves that queue and not an older one, an
injection has a task that runs, and a closing
is refused until the frame has come out; so the frame is where a thread will find it. With it every step of a thread either takes
the frame further or brings one more thread to the queue, and there are finitely many.
*Tracking (`TrackInv`):* the state of a frame that its later stages rely on
(`GroupInv`, `LeftInv`, `ScanInv`, `SelectInv`); a beam has a target exactly if it is
a TAS beam (`BeamInv`); `CycleInv` weighs what a cycle still needs (`NeededNow`)
against what is left of it, with two beams to spare for the pipeline, and gives
`CycleFinishes` and, with it, that the frame that begins a cycle was a scan;
`AwayInv` bounds the distance from the last search beam by the same weight.
`DwellInv` is the argument for `TasDwellFresh`: trackers are started in scans only;
while beams of a cycle are to come, the only scan that is still processed is the one
of the search beam before the first of them. Then all their trackers are still on a
list, so that none can be freed and taken again but by eviction, and all targets are
on the TAS list, from which nothing is evicted: only a candidate can be given up.

**Only model-checked.** `InstallEnds`, `WriteEnds`, `WaitersServed`, `FrameGetsIn`,
the liveness part of `HandoverSpec` and `InjectEnds` are liveness under fairness,
out of the prover's reach. What they rest on besides fairness is proved for every value
of the constants: that the installation, the writer, the uploads, the data path and an injection cannot go
on for ever (`InstallAdvances`, `WriteAdvances`, `UploadAdvances`, `WorkAdvances`,
`InjectAdvances`: a number falls with every step), and that nobody waits for what nobody will bring (`WaitsHaveAnEnd`,
`FrameOnItsWay`). The safety part of `HandoverSpec` is `HandoverSafe`. The violation in
`uboot_check` is TLC's.

## 5. Not modelled

* The client: what it does after a lost reply is not in the repository.
* In `AppUpgrade`: errors reading `cache.bin` back, and removing files; the
  contents of version and timeout replies. In `OtaSystem`: unpacking of
  `app.tar.gz` and `rootfs.cpio.gz`, mounts, DHCP.
* In `UbootOta`: TCP, heartbeat, discovery, the packet parser. Removal is taken to
  succeed: `firmware_set_upgrade_flag(false)` (`0003-add-OTA.patch` 1232-1237) ignores
  a file system that cannot be set and an `fs_unlink` that fails and returns true, and
  `clear_dirent` (1578-1596) does the same with `fs_opendir` and `fs_unlink`; where the
  medium fails in that way the flag, or older files, may survive a request or WRITE,
  and `FlagFreezesFirmware`, `FlagMeansReceived` and `ServesDisk` say nothing of it.
* In `AlinkUpload`: registration of packages (before any connection), headers,
  sequence numbers, payloads; the reassembly of received data; socket
  descriptors; failure of `malloc` in `c2_network_create`.
* In `EthLink`: message 0xBC during start-up and the failure of main's own
  connection (TLC finds cyclic lists with either; both are hazards), the search
  message, the rate limit of 0xBC, heartbeats.
* In `DataPath`: initialisation (no thread runs yet), `eSysStatus`, the handlers
  of the interrupts in PIL mode, a failed `lseek` or `read` of the PL (logged
  only); packets, retries and sequence numbers of a UDP message; the receiving half
  of `protocol_common.c`.
* In `Pil`: what follows a write outside `awBuffer`; `pil_inject_adc` (called by nobody), the registers with the head of a
  frame, the wording of the answers.
* In `Tracking`: the Kalman filters, association, scores, lifetimes, the threat of
  a track; `WHOLE_SCAN` and its list; targets chosen by hand (nothing sets them);
  `targetNumCurrent`, which is cleared and decremented and never read; the
  directions of search beams (a switch from TWS to TAS skips one position, the
  switch back repeats one); what follows later from a sibling's number that has
  gone to another track (`tracking_unit_event.c:508`, `tracking_module.c:1128`).
* Command dispatch (`alink_order.c`, `alink_recv.c`): a table look-up and one call
  under a mutex, which `AppUpgrade` and `Pil` take as given; the byte-wise parser is
  sequential and keeps nothing beyond a package.
* Storage and log: rotating files and the queues of their writers. Sensors,
  network configuration, CLI, flash, device information: each command sets or gets
  one value or does register, serial or file I/O.
* Numerical code (detection, tracking filters, beams, calibration), drivers, and
  `sfbus` (not linked into the program).
* Most lines of the repository belong to no component of its own: the generated
  register tables of the hardware description (`psu_init*`), the vendored WiFi
  backports under `os/modules/`, the FreeRTOS CLI and generated calibration code.

## 6. What could follow

1. A model of the client of the upgrade, if its source becomes available: whether
   it recovers from a chunk that is refused or a WRITE that is repeated.
2. Storage: writer queues and rotation.
3. The parser of packages against a reference definition of what a stream holds.
