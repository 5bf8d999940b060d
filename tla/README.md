# A virtual SCSI HBA, specified

The repository implements a SCSI host adapter whose commands are served by
programs in user space. `kernel/hba.c` queues the commands of the SCSI mid
layer, `kernel/device.c` hands them out through a character device, and
`user/main.c` over `user/vscsiapi.c` is a target that fetches, runs
(`user/scsi_target.c`, `user/scsi.c`) and answers them. This directory holds
TLA+ models of it, the TLC runs that check them on small instances, and TLAPS
proofs of all their safety properties and refinements for all sizes.

## Inventory

| Component | State it keeps | Operations | Talks to |
|---|---|---|---|
| Session and task queue (`hba.c`) | `flags`, `Device_Open`, `scsitap_queue`, `cmd_numbers`, `next_cmdnumber`, each command's `SCp.ptr` | `queuecommand`, `complete_task`, `eh_abort`, `eh_host_reset`, create, destroy | mid layer (calls it, gets `scsi_done`), control device (shared queue) |
| Control device (`device.c`) | each file's `private_data`, `f_pos`; each task's SUBMITTED or RECEIVED mark | read (header, data), write (answer), ioctl (register, claim, position, unregister), release | queue of its session, user programs |
| Session table (`hba.c`, `device.c`) | `sessions.session_queue`, `last_id`, the one `scsitap_work` | find, create, destroy a session, scan work, module load and unload | control device, kernel work queue |
| Task cache (`hba.c`) | slots shared by all sessions | alloc, free | every completion path |
| Target library and loop (`vscsiapi.c`, `main.c`) | the static `user_scsitap_task`, the place in the loop | register, fetch and claim, receive data, run, answer | control device |
| Target configuration (`main.c`, `scsi_target.c`) | the list of LUNs and their sizes | parse options, `add_lun` | LUN files |
| SCSI engine (`scsi_target.c`, `scsi.c`) | LUN geometry | dispatch, block, inquiry, mode and capacity commands | LUN file through stdio |
| DVD emulation (`scsi.c`, `scsi_target.c`) | `is_blank`, profile, the disc's file | MMC commands, `insert_new_dvd_r` | LUN file |
| Data path (`device.c`, `hba.c`, `vscsiapi.c`, `main.c`) | the host's segments, `sense_buffer`, each target's `request_buffer` | `task_to_user`, scatter-gather copies, sense data, the offsets of header, reply and data | control device, engine |

What is hard here: two locks for one structure (`session_lock` and
`scsitap_queue_lock`), `queuecommand` against the close of the last target,
five paths that complete a task, targets that identify tasks by number and may
come late, two targets on one session, kills at any point of the loop, error
recovery that takes commands away from a target that is working on them, one slab
for the tasks of all sessions, copies that fail half-way, and one buffer per target
for the headers, data and replies of all commands.

What makes each part correct:

* queue: a task belongs to exactly one outstanding command, `SCp.ptr` is
  exactly that task, the count is exact, each issue returns once;
* control device: a number never names another task than the one fetched, a
  claimed task is not offered again, nothing keeps a lock;
* program: it answers only what it ran, runs what it takes in order and nothing
  twice, starves no task;
* session table: a file is attached to a live session of its minor, a minor has
  one session, each session that becomes ready is scanned, none that was opened and closed
  evenly survives unload;
* configuration: the size a target checks against is the size of its file, and the
  targets of one disk agree on it;
* LUN file: what was acknowledged is read back, a kill loses the last write only;
* engine: each LUN is a disk of its own, of the size it announces;
* task cache: a slot belongs to one task of one session, a command is done once,
  and done exactly if it was not dropped;
* data path: as far as the transfer goes an engine writes the host's bytes, the host reads the engine's reply to
  that command, sense data is that of the same answer, and a command that went back
  is not written to;
* DVD drives: a disc has no holes, a DVD-ROM is never changed and its track is not
  reported longer than it is.

## Modules

| Module | Models | Is checked against |
|---|---|---|
| `ScsiPort` | what an HBA owes the mid layer | |
| `VscsiHba` | one session: `hba.c` and the queue side of `device.c` | `ScsiPort` |
| `VscsiTarget` | `VscsiHba` driven by `vscsiapi.c` and the loop of `main.c` | |
| `SessionTable` | all sessions, the scan work, module unload | |
| `TargetConfig` | `configure_scsi_target` and `add_lun` | |
| `Disk`, `CachedDisk` | what LUNs owe the host, without and with a volatile cache | |
| `ScsiEngine` | `run_scsi_command` and the disk commands of `scsi.c` | `Disk` |
| `DvdEngine` | `ScsiEngine` and, instead of disks, a drive: the MMC commands, `insert_new_dvd_r` | |
| `TaskCache` | the slab of tasks under several sessions, `scsitap_complete_task` in two steps | |
| `Transfer` | the copies of `device.c`, the sense data of `hba.c`, the buffers of `vscsiapi.c` | |
| `LunFile` | those commands over the C library's streams | `CachedDisk` |
| `VscsiHbaProofs`, `VscsiTargetProofs`, `TaskCacheProofs`, `SessionTableProofs`, `TargetConfigProofs`, `LunFileProofs`, `TransferProofs` | theorems of the module they are named after | |
| `DvdEngineProofs` | theorems of `ScsiEngine` and `DvdEngine` | |

Each `MC` module adds the symmetry sets of its model. A definition called
`Op_Something` beside `Op` is a plausible bug in `Op` ("Mutation of Op"); no
action uses it. Replacing `Op` by it must break the property that
`PROJECT.json` pairs it with.

### VscsiHba

A step is one critical section. `queue` is `scsitap_queue`, whose list order is
the order of the `id`s: `id` says which allocation a task is, and is what the code
lacks, as targets know `cmd_number` only. `ptr` is `SCp.ptr`, `held[t]` the header
in target t's `user_scsitap_task`. `mid` and `result` stand for the mid layer:
a command is idle, issued (its timer runs) or expired (error recovery has it),
and `scsi_done` of an expired command is ignored.

`scsitap_queuecommand` is `QueueRefuse`, or `QueueCheck` followed by
`QueueAppend` or `QueueBusy`: all under `scsitap_queue_lock`, but a close may
clear `flags` under `session_lock` between the two. `EhAbort` and `EhHostReset` are the
error handlers, `Register`, `Release` and `Unregister` the comings and goings of targets,
`ReadHeader`, `ReceiveTask` and `WriteDone` the calls of a target.
`CompleteTask` is `scsitap_complete_task`, used by all of them. `leaked` records the
early return at `device.c:399` that would keep the lock.

Here targets are arbitrary: they call in any order, with whatever they hold, and may
register again on a file that they have open. `Device_Open` then counts registrations, at
most `MaxOpens` of them, and a close takes back one.

### VscsiTarget

The program's loop: `get`, `woken`, `claim`, `data` and `copy` (writes only), `serve`, `reply`, and back;
`exit` leads to `exit(1)`. Each step of it is one system call and includes the
driver's action. `cdb[t]` is the command in the static `user_scsitap_task`, `ran[t]` the
issues that t has run. A target may be killed at any point and restarted. Both
reads, of a header and of data, wait until some task is queued (`Wake`). The
failures a target meets on a session that is not ready are left out, which
theorem `AlwaysReadyWhileOpen` licenses.

### SessionTable

Sessions are numbered as they are created. Opening, registering
(`RegisterFound`, `RegisterCreated`), closing, unregistering and unloading each hold
`session_lock`; the scan is the kernel's work item: `ScheduleScan` queues it,
`ScanEnter` starts `scsitap_scan_hba`, `ScanBegin` reads the session out of the one shared
`scsitap_work`, `ScanEnd` finishes. Initialising an item that is still queued
unhooks its ends of the kernel's list; the model lets it then run once or more.
A file may register any number of times; `repeated` remembers the sessions on which one
did so while it was attached already.

### TargetConfig

A target looks at its files one by one (`Stat`), of which it keeps one `fstat`,
then adds its LUNs and registers. A file that cannot be opened (`add_lun_fails`) is ignored by main,
a `truncate()` that fails (`add_lun_uncut`, remembered in `uncut`) by `add_lun`.
All targets have the same `-files` option, as a second engine for the same
disks has. Sizes are in units, so that some are no whole number of megabytes.

### ScsiEngine

A command is one step from fetch to answer. `image` is the files, `acked` what the
host was told they hold, `known` the LUNs it learnt of. `Served` commands go to
`LunOf`; `Crash` is the NULL dereference for a LUN that is not there. `InBounds` is
the bounds check, with its int product (`wraps`: whether this build wraps it;
`IntMod`: how many blocks' worth of int there are). Commands that touch no block
are their possible outcomes (`Other`). `Lba6` is the number of block addresses WRITE(6)
can tell apart, 65536 in the code.

### LunFile

One file, the targets on it, one stream each. `tail[t]` is what t has written and
its stream has not, `ahead[t]` what the stream has read ahead. The stream is the
C library's and external; the model gives it the freedom it has: how much of a
write goes straight to the file, how much of a buffer survives a seek. Reads, writes and READ
CAPACITY seek, which writes the tail out; all other commands are `LeaveStream`. `undo[t]` is the
former contents of the last write, which a kill may bring back.

### DvdEngine

A target has either the disks of `ScsiEngine` or one drive (`luntype`), whose file is `disc`,
as long as what was burnt. `pos` is where the stream stands, which is what a DVD-ROM's
track is reported from. Of a reply the status is kept, and of a DVD-ROM the track size. The
transfer loops that never end (a read beyond the file, a write to a stream that is open for
reading) are `Hang`, after which only a kill helps. START STOP UNIT swaps a burner's disc for an
empty one, or ends the target with `exit(10)` when its file cannot be opened again (`insert_fails`).
A restart of a burner opens its file "w+". The files that burnt discs are renamed to are left out.

### TaskCache

Sessions have locks of their own and share `slots`. Each path that completes tasks
(`Answer`, `AbortTask`, `HostReset`, `Destroy`) enters a section with the tasks it has to complete;
`FreeTask` is `scsitap_complete_task` up to `kmem_cache_free` and `FinishTask` the rest, which reads the
flags of the slot as they are then. In between another session may be given the slot,
and a kernel that `poisons` has overwritten it. `hit` is the set of commands to which this
happened; `res` is `sc->result` and in the end what the mid layer took.

### Transfer

A byte is known by its origin: byte i of what the host issued for command c, or of the
reply of an engine to c, or of a header, or cleared memory. `segs[c]` is the host's
buffer, `rbuf[t]` the `request_buffer` of target t, into which `ReceiveData` copies a header and the
segments and `RunIn` the reply. `RunOut` takes the length of what it writes from the CDB, which may be
less than the transfer or more, and reads that much of the buffer. `Answer` is `scsitap_ctl_write`; `AnswerFault` is the same with a copy
that ends after some bytes. The status byte may have its top bit set, which announces
sense data behind the header; no function of `scsi.c` does so, other targets may.

## Runs

| Run | Checks | What it shows |
|---|---|---|
| `session_safety` | seven invariants, `PortSpec`, `CommandReturns` | the session's books are exact in every interleaving, it implements `ScsiPort`, and every issued command comes back though targets do nothing and resets drop tasks |
| `program_pair` | `AnswersWhatItRan`, `RunsInOrder`, `GivesUpOnlyIfGone`, `ReadyExact` | two copies of the program with kills: answers go where they belong, each copy works in the order of the queue, a claimed write has its data, the HBA is ready exactly while a copy runs |
| `program_live` | `Served` | claims of dead targets do not block the tasks behind them |
| `program_double_claim` | `ExclusiveClaim`, violated | two targets serve the same issue |
| `table_safety` | `FilesLive`, `OnePerMinor`, `UnloadComplete`, `LastReadyScanned` | the table under registration (repeated, too), close, destruction and unload |
| `table_shared_work` | `EveryReadyScanned`, violated | the second HBA's scan replaces the first's |
| `config_shared` | `SizesAgree` | sizes of LUNs and files agree, also while a second target starts and where files cannot be opened or cut |
| `file_single` | `DiskSpec`, `BehindByTail`, `OnlyLastAtRisk` | with one target the LUN is a disk with a volatile cache |
| `file_pair` | `ReadsCurrent`, violated | with two targets reads are stale |
| `engine_disks` | `DisksSpec`, `AnnouncedIsServed`, `NeverGrows`; `TrackWithinDisc`, `DriveTypeOK` | LUNs are separate disks of the size they announce; a drive's file has no holes and its track ends with it |
| `cache_slots` | `SlotsApart`, `NeverDoneTwice`, `DoneUnlessAborted`, `CommandReturns` | what a read of freed flags can and cannot do: it may misreport the one command whose slot was overwritten, never another's task, and the timer makes up for an answer that was swallowed |
| `transfer` | `WritesHostData`, `ReadsReply`, `SenseOfAnswer`, `NotAfterReturn` | bytes and sense data reach the right place of the right command through faults, aborts and double claims |

Each module's type invariant is checked by its runs, by itself (`TypeOK`, `TargetTypeOK`,
`DriveTypeOK`) or as the first conjunct of `SizesAgree`, `BehindByTail`, `SlotsApart` and `ReadsReply`.

### Bounds

* `MaxTasks` 3 (2 in `program_live`): one task that is aborted or answered
  late, one that replaces it, and a third beside them. Two commands and two targets
  are enough for every race the properties are about, which involve two
  tasks or two targets; the theorems need no bound.
* `CmdMod` 8 and `OpenMod` 4 do not wrap within the bounds; the counters' wraps are
  the hypotheses `NoWrap` and `FewOpens` of the theorems. `MaxOpens` is one more than the targets
  in `session_safety`, for a second registration beside them, 2 in the runs of the program, which
  registers once per target, and 3 in the table's runs.
* `MaxSessions` 3, three files, two minors: a minor can have its session
  destroyed and created again beside another. `MaxQueued` 2 deliveries of the work.
* Four blocks and pages of two: a transfer may begin and end inside a page and
  span two.
* LUNs of two blocks, transfers of at most two, so in, over and beyond the end.
  `Lba6` and `IntMod` are larger than a LUN, as for disks under 32 MB, the only ones
  for which all of `DisksSpec` and `AnnouncedIsServed` hold (see below).
* Sizes up to two megabytes in halves, two files, two targets.
* A drive: files of at most one block more than the LUN.
* Two sessions, three commands, two slots: the third command waits for a slot that
  one of the others has just freed.
* Headers of one and two bytes for 6 and 31, two sense bytes for 14, transfers of none or of
  two bytes in one or two segments: a wrong offset, a segment copied twice or a
  fault in each place shows in two bytes. CDB lengths up to the end of `request_buffer`. A data-out command has at least one byte, as
  the mid layer gives one without data no direction.

`CHECK_DEADLOCK FALSE` is used for `SessionTable` only: with the module unloaded the
system has stopped.

### Fairness

`FairSpec`: the second step of `queuecommand` is taken (it runs under a spin lock),
timers fire, and error recovery is not for ever unlucky with the spin lock (strong
fairness of `EhAbort`, as the lock is released between any two sections). Targets owe
nothing. `FairTargetSpec`: a target keeps stepping while it is not killed, again strongly,
as others take the lock in between; a spin lock on a multiprocessor gives no
strict guarantee of this, but nothing holds it longer than one section. Timers owe
nothing there: `Served` does not rest on them. `Served` speaks of sessions with a target
nobody kills (`Steady`). `TaskCache`: a section that holds a spin lock goes on, timers fire,
and the abort handler gets its session's lock in the end, for the same reasons.

## Where code and words differ

With a run:

* `program_double_claim`: a task is copied out unclaimed, and a claim of a claimed task
  succeeds (`device.c:106`, `405`), against `device.c:346`.
* `table_shared_work`: one `scsitap_work` for all sessions (`device.c:386`), against `device.c:382`.
* `file_pair`: streams of two targets do not see each other (`scsi.c:1321`), against the
  load sharing of `README-BASE:85`. A kill likewise undoes an acknowledged write (`Kill` in
  `LunFile`), which bounds the fault tolerance promised there.

Seen while modelling, without a run of their own:

* REGISTER does not look whether its file is registered already (`device.c:377-378`), and a
  close takes one open back (`device.c:465`): after two REGISTERs and a close the session counts
  as open, and the unload skips it (`hba.c:391`), against "Make sure that all the scsi_hosts
  associated with all the sessions are destroyed" (`hba.c:459`). `UnloadComplete` excepts exactly
  the sessions in `repeated`. For the same reason the HBA stays ready with no target, against
  `device.c:467`. The program here registers once (`ReadyExact`).
* Every LUN gets the last file's size (`main.c:134`) and `add_lun` truncates to it
  (`scsi_target.c:173`), without looking whether it can: of files of different sizes the larger lose data, against "These file
  holds the disk image" (`README-BASE:78`). Where `truncate()` fails, a file is shorter than its LUN and a
  read there never ends (`scsi.c:1320`).
* A completion looks at the flags of a task that is freed (`hba.c:179-181`): a command dropped by
  a host reset may then be reported with result 0, unserved, and an answer may be
  swallowed until the timer, against `hba.c:169`. `DoneUnlessAborted` excepts exactly the commands in `hit`.
* The sense data that `scsi.c` puts into a rejected reply (`scsi.c:16-27`) never arrives: its
  status has no top bit, so the driver says that none came along (`device.c:240`, `hba.c:60`), and what it calls
  an illegal request (`hba.c:59`) has the sense key of no sense (`hba.c:73`). `device.c:214` has sense data with
  every status but 0.
* `set_sensedata_commfailure` sets five bytes and clears none (`hba.c:158-165`): a command whose answer
  failed half-way and whose session is then destroyed goes back with sense bytes of both.
* The length of a write is the CDB's (`scsi.c:1336`, `1379`, `1431`) and is not compared with the transfer's,
  which `run_scsi_command` passes along (`scsi_target.c:65`): a longer one writes what earlier commands left
  in `request_buffer`. `WritesHostData` speaks of the transfer's bytes only. A length beyond the buffer reads
  past it, which is not modelled.
* WRITE(6) with length 0 is acknowledged and writes nothing (`scsi.c:1431`); SBC has it mean 256 blocks.
* A fault in the copy of an answer leaves the command claimed with part of its data and
  ends the target (`device.c:230`); the command comes back by its timer.
* A data-out command of no bytes would make the data read a header read (`device.c:104`); the mid
  layer issues none.
* DVD drives: `rename()` is not checked, so a burnt disc that cannot be renamed is truncated
  (`scsi_target.c:85`), two swaps in one second leave one image, START STOP UNIT swaps whichever way it is
  asked (`scsi.c:568`), a restart wipes a disc that was not swapped (`scsi_target.c:187`), a write to a
  DVD-ROM never ends (`scsi.c:1407`). A written disc stays blank (`scsi.c:627`): `is_blank` is set by `add_lun`
  alone, against `include/scsi.h:45-46`.
* `queuecommand` tests `flags` under one lock, the last close clears it under another
  (`hba.c:224`, `device.c:470`): a command may be queued on a session nobody serves, against
  `device.c:467`. It comes back by its timer (`CommandReturns`).
* When a write is aborted between claim and data, `receive_scsi_data` fails and the
  target exits (`device.c:120`, `main.c:184`), though `device.c:118` calls this safe. The comment at `device.c:124` is
  inverted: it is "not interested in task marked as recieved", and the code gives data to just those.
* Command numbers wrap after 2^32 commands and are not checked for use (`hba.c:253`).
* `Device_Open` wraps after 256 registrations (`device.c:378`), after which a session in use can be
  destroyed, against `hba.c:380`.
* Destroying a session neither waits for nor cancels its scan (`device.c:335`).
* The int product of the bounds check overflows from 2 GiB on (`scsi.c:1312`).
* `sbc_write6` ignores the upper five bits of its block address (`scsi.c:1430`).
* `DUMMY_LUN_0` has no commands: a target without LUN 0 crashes on the host's first command
  (`scsi_target.c:64`), against `scsi_target.c:29`.
* Replies shorter than the transfer go out with bytes of earlier ones (`scsi.c:538`).
* The mode page for caching is answered with zeros, and 0x35 (SYNCHRONIZE CACHE) is no
  command: the host takes the LUN for write-through, which `LunFile` says it is not, and has no command
  that makes a write safe but another transfer or READ CAPACITY.

## Proofs

`tlapm` checks 5748 obligations in eight modules. Every invariant, action property and
refinement that a passing run checks is a theorem, for any values of the constants that
satisfy the modules' assumptions: any finite sets of commands, targets, sessions and
files, any sizes. Where the code is right only below some limit, the limit is a named
hypothesis:

| Hypothesis | Says | Theorems that need it |
|---|---|---|
| `FewOpens` | at any time fewer registrations than `Device_Open` has values | `AlwaysReadyWhileOpen`, `NeverLeaks`, `FilesAlwaysLive`, `AlwaysUnloadComplete`, and with `NoWrap` the next line |
| `NoWrap` | the command numbers do not wrap | `AlwaysHandleExact`, `ImplementsPort`, all of `VscsiTargetProofs` but `ProgramRunsDriver` |
| `OneTarget` | one target on the file | `OnlyLastEverAtRisk`, `AlwaysBehindByTail`, `ImplementsCachedDisk` (`file_pair` shows that two break it) |
| `NoOverflow` | the LUN is below half of what an int counts (2 GiB) | `AnnouncedAlwaysServed` |
| `Addressable` | every block has an address in WRITE(6) (32 MB) | `ImplementsDisks` |

Each hypothesis is the negation of a defect under "Where code and words differ", and is met
by the instances of the passing runs.

### Session and program

The invariant of `VscsiHba` is built in three layers, each inductive relative to those below:

1. `QueueInv`, without hypotheses: types, distinct ids, `CountExact`, `PtrExact`, `Outstanding`, and
   two facts without which these are not inductive: the command inside `queuecommand`
   has no task yet (`OwnerClean`), and a session that is gone has an empty queue
   (`GoneIsEmpty`). From it `TypeCorrect`, `PtrAlwaysExact`, `AlwaysOutstanding`, `CountAlwaysExact`. Lemma
   `CompleteTaskKeeps` states once what completing any set of tasks does; the five
   completion paths cite it. It works by `OneTaskPerCommand`: `ptr` is one-to-one.
2. `ReadyInv`, under `FewOpens`: the count is at least that of the registered targets (a target that
   registered twice makes it higher), the session is ready while there is one, gone only when there is
   none, and the lock is never leaked. From it `AlwaysReadyWhileOpen`, `NeverLeaks`.
3. `TagInv`, under `NoWrap` too: ids and numbers, of queued tasks and of headers in targets'
   hands alike, determine each other. It needs layer 2: numbers restart with a new session,
   which is sound only because no target then holds an old one. From it `AlwaysHandleExact`.

`ImplementsPort` uses all three: each step of the session is a step of `ScsiPort` or leaves it
alone, under the mapping `Shown` (a command is shown to the targets that hold the id of
its task). In `VscsiTargetProofs`, `ProgramRunsDriver` projects the program's behaviours to
the driver's, so that every theorem of the driver holds of the pair, and
`AlwaysAnswersWhatItRan` follows from `HandleExact` and an invariant of the program (`RanInv`).
`AlwaysRunsInOrder` rests on `OrderInv`: whatever is unclaimed is newer than all a target has run
and than what it is serving. It is inductive because a claim takes exactly the task
that was fetched (`ClaimTakes`, by layers 2 and 3) and no step makes an old task unclaimed
again (`UnclaimedOrigin`). `OnlyGivesUpIfGone` is read off the same invariant: at `copy` a target's
task is older than everything unclaimed, so that if it is queued it is claimed, and its number
finds it (`NumberFinds`). `AlwaysReadyExact` adds that the program registers once: the registered targets are
those that run, and the count is theirs (`OpenInv`).

### Task cache

`SlotInv` says who owns a slot: a queued task is in the queue of its command's session, `SCp.ptr`
is that task, or the slot of a task that is just being completed, or nothing, and a session that is completing has
a command of its own which has left the queue and not gone back. It is what keeps slots apart though
`FinishTask` reads one that was freed: the section remembers the command, and only the flags come from the
slot. `FlagsInv`, relative to it, says what those flags are: of a queued task, marked exactly while it is being
aborted; of a freed one, as they were left, unless its command is in `hit`. `AlwaysDoneUnlessAborted` is a part of it.

### Session table

`TableInv` needs no hypothesis: sessions are numbered below `created`, so that a new one is not an old
one, and a work item that is queued or running has a session (`WorkSet`). `FileInv`, under `FewOpens`, ties
`Device_Open` of each session to the files attached to it (`OpenCounted`): never fewer, and as many unless it is in
`repeated`. The first is what lets `destroy_session` trust a zero, the second what makes the count zero in the end, and the module's use count to files that are open (`FilesOpen`), which is what lets unload
find none.

### Target configuration

The size of the last file never changes: every target that has seen all files remembers that one's size
(`Remembers`), found all files different and the size a whole number of megabytes, and cuts all files to it, the
last one to its own. So all LUNs have that one size, and so have the files
unless `truncate()` failed on them. `LunsEven` says so of LUNs added so far.

### LUN file

`RiskInv` holds for any targets: what the stream has not written is part of the last write.
`CacheInv`, under `OneTarget`, says that the file with the tail written over it is what was acknowledged, that
what was read ahead is current, and that the file still has under the tail what the host was told
before the last write (`Current`). Under it each step is one of `CachedDisk`, with the undone blocks of `Kill`
as the cache that is lost (`ImplementsCachedDisk`).

### Engine and drive

`EngineIsScsi` projects the engine with its drive to `ScsiEngine`. `DiskInv` is types; `FilesNeverGrow` needs only
that the limit that is checked, wrapped or not, is never above the size (`SizeFacts`). `ImplementsDisks` maps every
command to a read, a write or a rejection on its LUN. `DriveInv`: a disc has no holes, and a DVD-ROM's stream never stands
behind its end, which is where the track's size comes from.

### Transfer

Where the segments of a scatter list end is a recursive function (`Ends`). What it computes is proved by the
least index at which it would be wrong (`Least`, from the well-founded order of the naturals): that it exists
(`CountExists`, `EndsFixpoint`), counts the bytes before each segment (`EndsCounts`), grows (`CountsMonotone`), and puts every
byte into one segment (`CountsLocate`). On this rest the facts about the copies: `CopyToFacts`, `CopyFromFacts`, `FillFacts`.

The invariant is mutually inductive between `HostInv` (an issued command keeps its direction and the shape of
its buffer, and its bytes are as issued unless a read's answer touched them) and `TargetInv` (a target at work
has an issued command and its size; its buffer has the data of the write that it serves, or the reply or
sense data that it is about to send). The part that is easily missed is `NoStale`: reply bytes of earlier
commands do stay in the buffer, and the property that a short reply is not taken for a longer one
needs that all of them are of commands that have ended, and none is of the command that is
served. `HostStep` states what no step undoes; `NeverAfterReturn` is a part of it. `Wrote`, `Read` and `Sensed`
then say what has come of a command, `Clean` that its sense buffer is as issued or as the driver left it unless an
answer to it failed half-way.

### Only model-checked

Liveness is out of the prover's reach: `CommandReturns` of `VscsiHba` and of `TaskCache`, and `Served`. So are,
being false, the three properties of the runs that expect a violation.

## Not modelled

* Unload destroys the task cache before it flushes the sessions (`hba.c:456`), and a session
  that is freed leaves its scan running (`device.c:335`): the code does nothing about either, so
  that no property of it holds; each takes one step at the wrong time.
* Interrupt contexts: `scsitap_queue_lock` is taken without disabling softirqs (`device.c:186`), and
  `scsi_add_host` sleeps under a spin lock (`hba.c:356`). Both break rules of the kernel in every
  interleaving. The order of the steps of `scsitap_init` (`hba.c:432`) likewise.
* Contents of replies that are not block data, but for a DVD-ROM's track size; the files that burnt discs are renamed to; a kill
  inside a write that is not acknowledged yet; targets started with different `-files`
  options, for which `SizesAgree` fails with the second start; command-line parsing.
* Wraps of `Device_Open` and of the command numbers are outside the bounds of the runs and are
  hypotheses of the theorems.
* Build files, the start script and the man page keep no state.

## Plan

What is left to prove is about what the hypotheses exclude: that with one target on a session no task is
served twice, that two targets on a file keep what each has flushed, and which part of
`DisksSpec` survives for LUNs beyond the reach of WRITE(6).
