------------------------------ MODULE VscsiHba ------------------------------
(***************************************************************************)
(* One session of the vscsihba driver (kernel/hba.c, kernel/device.c): the *)
(* SCSI mid layer queues commands, the user targets fetch, claim and       *)
(* complete them through the control device, error recovery takes them     *)
(* back, and targets come and go.                                          *)
(*                                                                         *)
(* A step is one critical section of scsitap_queue_lock or session_lock.   *)
(* scsitap_queuecommand is two steps: it reads flags and only then appends *)
(* the task, and flags is written under the OTHER lock.                    *)
(***************************************************************************)
EXTENDS Integers, FiniteSets

CONSTANTS Cmd,       \* the scsi_cmnd structures of the mid layer
          Target,    \* open files of the control device, one per user target
          NoCmd,     \* nobody is inside scsitap_queuecommand
          CmdMod,    \* next_cmdnumber is an unsigned int: 2^32 values
          OpenMod,   \* Device_Open is an unsigned char: 256 values
          MaxOpens,  \* bound: no REGISTER ioctl once Device_Open is that high
          MaxTasks   \* bound: how many tasks are allocated in a behaviour

ASSUME HbaAssumption == /\ NoCmd \notin Cmd
                        /\ IsFiniteSet(Cmd)
                        /\ IsFiniteSet(Target)
                        /\ CmdMod \in Nat /\ CmdMod > 2
                        /\ OpenMod \in Nat /\ OpenMod > 0
                        /\ MaxOpens \in Nat
                        /\ MaxTasks \in Nat

VARIABLES
  present,         \* the session is in sessions.session_queue
  flags,           \* connection state of the session
  Device_Open,     \* how many REGISTER ioctls no close has taken back
  registered,      \* the files whose private_data points to the session
  queue,           \* scsitap_queue; list order is the order of the ids
  cmd_numbers,     \* how many commands the session counts as pending
  next_cmdnumber,
  ptr,             \* ptr[c]: id of the task in c's SCp.ptr, 0 for NULL
  owner,           \* the command inside scsitap_queuecommand, or NoCmd
  leaked,          \* an ioctl returned with scsitap_queue_lock held
  held,            \* held[t]: the command header in t's user_scsitap_task
  nextId,          \* tasks allocated so far: the id of the newest one
  mid,             \* mid[c]: where c is, as the mid layer sees it (external)
  result           \* result[c]: how the last issue of c ended

sessionVars == <<present, flags, Device_Open, registered>>
queueVars   == <<queue, cmd_numbers, ptr>>
allocVars   == <<next_cmdnumber, nextId>>
lockVars    == <<owner, leaked>>
midVars     == <<mid, result>>
vars == <<sessionVars, queueVars, allocVars, lockVars, held, midVars>>

Ids     == 1..MaxTasks
Numbers == 1..(CmdMod - 1)
Task    == [id : Ids, cmd_number : Numbers, sc : Cmd,
            flags : {"SUBMITTED", "RECEIVED"}]
Handle  == [id : 0..MaxTasks, cmd_number : 0..(CmdMod - 1)]
NoHandle == [id |-> 0, cmd_number |-> 0]

TypeOK == /\ present \in BOOLEAN
          /\ flags \in {"READY", "NOT_READY"}
          /\ Device_Open \in 0..(OpenMod - 1)
          /\ registered \in SUBSET Target
          /\ queue \in SUBSET Task
          /\ cmd_numbers \in Nat
          /\ next_cmdnumber \in 0..(CmdMod - 1)
          /\ ptr \in [Cmd -> 0..MaxTasks]
          /\ owner \in Cmd \cup {NoCmd}
          /\ leaked \in BOOLEAN
          /\ held \in [Target -> Handle]
          /\ nextId \in 0..MaxTasks
          /\ mid \in [Cmd -> {"idle", "issued", "expired"}]
          /\ result \in [Cmd -> {"none", "answered", "noconnect", "timeout"}]

Init == /\ present = FALSE
        /\ flags = "NOT_READY"
        /\ Device_Open = 0
        /\ registered = {}
        /\ queue = {}
        /\ cmd_numbers = 0
        /\ next_cmdnumber = 1
        /\ ptr = [c \in Cmd |-> 0]
        /\ owner = NoCmd
        /\ leaked = FALSE
        /\ held = [t \in Target |-> NoHandle]
        /\ nextId = 0
        /\ mid = [c \in Cmd |-> "idle"]
        /\ result = [c \in Cmd |-> "none"]
-----------------------------------------------------------------------------
(* Helpers *)

LockFree == owner = NoCmd /\ ~leaked

(* The first task of S in list order: a set of at most one task. *)
Oldest(S) == {k \in S : \A j \in S : k.id <= j.id}

TaskOfCmd(n) == Oldest({k \in queue : k.cmd_number = n})
Scs(S)       == {k.sc : k \in S}

(* Mutations of Offered: new tasks are put in front of the list; only the   *)
(* head of the list is looked at.                                           *)
Offered_Newest   == {k \in queue : /\ k.flags = "SUBMITTED"
                                   /\ \A j \in queue : j.flags = "SUBMITTED" => j.id <= k.id}
Offered_HeadOnly == {k \in Oldest(queue) : k.flags = "SUBMITTED"}

(* What a header read may copy out: the first unclaimed task. *)
Offered == Oldest({k \in queue : k.flags = "SUBMITTED"})

(* Mutations of CompleteTask: SCp.ptr is not cleared; cmd_numbers is not    *)
(* decremented, or by the abort as well.                                    *)
CompleteTask_KeepsPtr(S) ==
  /\ queue' = queue \ S
  /\ cmd_numbers' = cmd_numbers - Cardinality(S)
  /\ ptr' = ptr

CompleteTask_KeepsCount(S) ==
  /\ queue' = queue \ S
  /\ cmd_numbers' = cmd_numbers
  /\ ptr' = [c \in Cmd |-> IF c \in Scs(S) THEN 0 ELSE ptr[c]]

CompleteTask_CountsTwice(S) ==
  /\ queue' = queue \ S
  /\ cmd_numbers' = cmd_numbers - 2 * Cardinality(S)
  /\ ptr' = [c \in Cmd |-> IF c \in Scs(S) THEN 0 ELSE ptr[c]]

(* scsitap_complete_task for each task of S, up to the call of scsi_done. *)
CompleteTask(S) ==
  /\ queue' = queue \ S
  /\ cmd_numbers' = cmd_numbers - Cardinality(S)
  /\ ptr' = [c \in Cmd |-> IF c \in Scs(S) THEN 0 ELSE ptr[c]]

(* scsi_done for the commands of S.  The mid layer ignores it when the     *)
(* command's timer has already fired.                                      *)
ScsiDone(S, r) ==
  LET back == {c \in Scs(S) : mid[c] = "issued"}
  IN  /\ mid' = [c \in Cmd |-> IF c \in back THEN "idle" ELSE mid[c]]
      /\ result' = [c \in Cmd |-> IF c \in back THEN r ELSE result[c]]
-----------------------------------------------------------------------------
(* The mid layer and scsitap_queuecommand *)

(* The HBA is not ready: the command comes back with DID_NO_CONNECT. *)
QueueRefuse(c) ==
  /\ present /\ mid[c] = "idle" /\ LockFree
  /\ flags # "READY"
  /\ result' = [result EXCEPT ![c] = "noconnect"]
  /\ UNCHANGED <<sessionVars, queueVars, allocVars, lockVars, held, mid>>

(* The HBA is ready: the lock is kept and the command's SCp is cleared. *)
QueueCheck(c) ==
  /\ present /\ mid[c] = "idle" /\ LockFree
  /\ flags = "READY"
  /\ owner' = c
  /\ mid' = [mid EXCEPT ![c] = "issued"]
  /\ result' = [result EXCEPT ![c] = "none"]
  /\ ptr' = [ptr EXCEPT ![c] = 0]
  /\ UNCHANGED <<sessionVars, queue, cmd_numbers, allocVars, leaked, held>>

(* Command numbers skip 0 when the counter has wrapped. *)
FreshNumber == IF next_cmdnumber = 0 THEN 1 ELSE next_cmdnumber

QueueAppend(c) ==
  /\ owner = c /\ nextId < MaxTasks
  /\ nextId' = nextId + 1
  /\ queue' = queue \cup {[id |-> nextId + 1, cmd_number |-> FreshNumber,
                           sc |-> c, flags |-> "SUBMITTED"]}
  /\ next_cmdnumber' = (FreshNumber + 1) % CmdMod
  /\ cmd_numbers' = cmd_numbers + 1
  /\ ptr' = [ptr EXCEPT ![c] = nextId + 1]
  /\ owner' = NoCmd
  /\ UNCHANGED <<sessionVars, leaked, held, midVars>>

(* kmem_cache_alloc failed: SCSI_MLQUEUE_HOST_BUSY.  The mid layer requeues *)
(* the command, unless its timer has fired and error recovery has it.       *)
QueueBusy(c) ==
  /\ owner = c
  /\ owner' = NoCmd
  /\ mid' = [mid EXCEPT ![c] = IF @ = "issued" THEN "idle" ELSE @]
  /\ UNCHANGED <<sessionVars, queueVars, allocVars, leaked, held, result>>
-----------------------------------------------------------------------------
(* The command's timer and error recovery *)

Expire(c) ==
  /\ mid[c] = "issued"
  /\ mid' = [mid EXCEPT ![c] = "expired"]
  /\ UNCHANGED <<sessionVars, queueVars, allocVars, lockVars, held, result>>

(* Mutations of EhAbort: a claimed task is left alone; the abort fails when *)
(* the command has no task.                                                 *)
EhAbort_SparesClaimed(c) ==
  /\ mid[c] = "expired" /\ LockFree
  /\ CompleteTask({k \in queue : k.id = ptr[c] /\ k.flags = "SUBMITTED"})
  /\ mid' = [mid EXCEPT ![c] = "idle"]
  /\ result' = [result EXCEPT ![c] = "timeout"]
  /\ UNCHANGED <<sessionVars, allocVars, lockVars, held>>

EhAbort_NeedsTask(c) ==
  /\ mid[c] = "expired" /\ LockFree /\ ptr[c] # 0
  /\ CompleteTask({k \in queue : k.id = ptr[c]})
  /\ mid' = [mid EXCEPT ![c] = "idle"]
  /\ result' = [result EXCEPT ![c] = "timeout"]
  /\ UNCHANGED <<sessionVars, allocVars, lockVars, held>>

(* The task in the command's SCp.ptr is dropped without scsi_done; the     *)
(* handler succeeds whether there is one or not, so recovery is finished.  *)
EhAbort(c) ==
  /\ mid[c] = "expired" /\ LockFree
  /\ CompleteTask({k \in queue : k.id = ptr[c]})
  /\ mid' = [mid EXCEPT ![c] = "idle"]
  /\ result' = [result EXCEPT ![c] = "timeout"]
  /\ UNCHANGED <<sessionVars, allocVars, lockVars, held>>

(* Mutation of EhHostReset: the dropped tasks are reported as answered.     *)
EhHostReset_Done ==
  /\ present /\ LockFree
  /\ CompleteTask(queue)
  /\ ScsiDone(queue, "answered")
  /\ UNCHANGED <<sessionVars, allocVars, lockVars, held>>

(* Every queued task is dropped without scsi_done. *)
EhHostReset ==
  /\ present /\ LockFree
  /\ CompleteTask(queue)
  /\ UNCHANGED <<sessionVars, allocVars, lockVars, held, midVars>>
-----------------------------------------------------------------------------
(* Targets come and go; only session_lock is taken *)

(* Mutations of Register: numbers restart with every target; a session that *)
(* exists is not made ready again.                                          *)
Register_RestartsNumbers(t) ==
  /\ Device_Open < MaxOpens
  /\ registered' = registered \cup {t}
  /\ Device_Open' = (Device_Open + 1) % OpenMod
  /\ flags' = "READY"
  /\ present' = TRUE
  /\ next_cmdnumber' = 1
  /\ UNCHANGED <<queue, cmd_numbers, ptr, nextId, lockVars, held, midVars>>

Register_ReadyOnCreate(t) ==
  /\ Device_Open < MaxOpens
  /\ registered' = registered \cup {t}
  /\ Device_Open' = (Device_Open + 1) % OpenMod
  /\ flags' = IF present THEN flags ELSE "READY"
  /\ present' = TRUE
  /\ UNCHANGED <<queueVars, allocVars, lockVars, held, midVars>>

(* SCSITAP_IOCTL_REGISTER_CLIENT, on any open file.  A file that has done   *)
(* it before is counted again; its close takes back one.                    *)
Register(t) ==
  /\ Device_Open < MaxOpens
  /\ registered' = registered \cup {t}
  /\ Device_Open' = (Device_Open + 1) % OpenMod
  /\ flags' = "READY"
  /\ present' = TRUE
  /\ IF present
     THEN UNCHANGED <<queue, cmd_numbers, next_cmdnumber>>
     ELSE queue' = {} /\ cmd_numbers' = 0 /\ next_cmdnumber' = 1
  /\ UNCHANGED <<ptr, nextId, lockVars, held, midVars>>

(* Mutation of Release: any close makes the session not ready.              *)
Release_NotReady(t) ==
  /\ t \in registered
  /\ registered' = registered \ {t}
  /\ held' = [held EXCEPT ![t] = NoHandle]
  /\ Device_Open' = (Device_Open - 1) % OpenMod
  /\ flags' = "NOT_READY"
  /\ UNCHANGED <<present, queueVars, allocVars, lockVars, midVars>>

(* The file is closed, as a rule because its target died.  Nothing is done *)
(* about the tasks this target has fetched or claimed.                     *)
Release(t) ==
  /\ t \in registered
  /\ registered' = registered \ {t}
  /\ held' = [held EXCEPT ![t] = NoHandle]
  /\ Device_Open' = (Device_Open - 1) % OpenMod
  /\ flags' = IF Device_Open' = 0 THEN "NOT_READY" ELSE flags
  /\ UNCHANGED <<present, queueVars, allocVars, lockVars, midVars>>

(* SCSITAP_IOCTL_UNREGISTER_CLIENT: the session and its host go away. *)
Unregister ==
  /\ present /\ Device_Open = 0 /\ LockFree
  /\ CompleteTask(queue)
  /\ ScsiDone(queue, "noconnect")
  /\ present' = FALSE
  /\ UNCHANGED <<flags, Device_Open, registered, allocVars, lockVars, held>>
-----------------------------------------------------------------------------
(* The control device.  A read or write of a session that is not ready     *)
(* fails and changes nothing.                                              *)

(* The read that fetches a header: the oldest unclaimed task is copied out *)
(* and stays unclaimed.                                                    *)
ReadHeader(t) ==
  /\ t \in registered /\ LockFree /\ flags = "READY"
  /\ \E k \in Offered :
        held' = [held EXCEPT ![t] = [id |-> k.id, cmd_number |-> k.cmd_number]]
  /\ UNCHANGED <<sessionVars, queueVars, allocVars, lockVars, midVars>>

Claimed(S) == (queue \ S) \cup {[k EXCEPT !.flags = "RECEIVED"] : k \in S}

(* SCSITAP_IOCTL_RECEIVE_TASK.  The early return keeps the queue lock. *)
ReceiveTask(t) ==
  /\ t \in registered /\ LockFree /\ held[t] # NoHandle
  /\ leaked' = (flags # "READY")
  /\ queue' = IF leaked' THEN queue ELSE Claimed(TaskOfCmd(held[t].cmd_number))
  /\ UNCHANGED <<sessionVars, cmd_numbers, ptr, allocVars, owner, held, midVars>>

(* The write that answers a command, found again by its number; a number   *)
(* that is not queued any more is accepted and ignored.                    *)
WriteDone(t) ==
  /\ t \in registered /\ LockFree /\ held[t] # NoHandle /\ flags = "READY"
  /\ CompleteTask(TaskOfCmd(held[t].cmd_number))
  /\ ScsiDone(TaskOfCmd(held[t].cmd_number), "answered")
  /\ UNCHANGED <<sessionVars, allocVars, lockVars, held>>
-----------------------------------------------------------------------------
QueueCommand(c) == QueueRefuse(c) \/ QueueCheck(c) \/ QueueAppend(c) \/ QueueBusy(c)

Next == \/ \E c \in Cmd : QueueCommand(c) \/ Expire(c) \/ EhAbort(c)
        \/ EhHostReset
        \/ \E t \in Target : \/ Register(t) \/ Release(t)
                             \/ ReadHeader(t) \/ ReceiveTask(t) \/ WriteDone(t)
        \/ Unregister

Spec == Init /\ [][Next]_vars

(* Timers fire, and no spin lock is held for ever or withheld for ever     *)
(* from error recovery.  Targets owe nothing: they may hang or die.        *)
Fairness == \A c \in Cmd : /\ WF_vars(QueueAppend(c) \/ QueueBusy(c))
                           /\ WF_vars(Expire(c))
                           /\ SF_vars(EhAbort(c))

FairSpec == Spec /\ Fairness
-----------------------------------------------------------------------------
(* What must hold of the session *)

(* sc->SCp.ptr is how an abort finds the task of its command (hba.c:197):   *)
(* it is set exactly while that task is queued, and it is that task, though *)
(* aborts, resets, answers and teardown all race to complete it.            *)
PtrExact == /\ \A k \in queue : ptr[k.sc] = k.id
            /\ \A c \in Cmd : ptr[c] # 0 => \E k \in queue : k.sc = c /\ k.id = ptr[c]

(* Every queued task carries a command that is still the driver's: a task   *)
(* that outlived its command would complete memory the mid layer reuses.    *)
Outstanding == \A k \in queue : mid[k.sc] # "idle"

(* cmd_numbers, "Number of tasks/cmds in the task queue" (vscsihba.h:55).   *)
CountExact == cmd_numbers = Cardinality(queue)

(* A target names a task by its command number alone (device.c:204, 401):   *)
(* the number it holds never finds another task than the one it fetched,    *)
(* however late it calls and whatever was aborted, reissued or torn down.   *)
HandleExact == \A t \in Target, k \in queue :
                  held[t].cmd_number = k.cmd_number <=> held[t].id = k.id

(* A target that has registered finds the HBA ready until it closes its     *)
(* file, whatever others open, close or destroy: readiness is the count of  *)
(* opens, and the count is never below the targets there are, though it is  *)
(* above them after a second REGISTER (device.c:378, 390, 465-470).         *)
ReadyWhileOpen == /\ Cardinality(registered) <= Device_Open
                  /\ flags = "READY" <=> Device_Open # 0

(* scsitap_queue_lock is never left locked: the early return of the claim   *)
(* ioctl (device.c:399) is not reached.                                     *)
NoLockLeak == ~leaked

(* A command is seen by the targets that fetched its current issue.         *)
Shown == [c \in Cmd |-> {t \in Target : \E k \in queue : k.sc = c /\ held[t].id = k.id}]

Port == INSTANCE ScsiPort WITH shown <- Shown

(* The session implements what the mid layer was promised: each issue comes *)
(* back once, and answered only by a target that was shown that issue.      *)
PortSpec == Port!Spec

(* Every issued command comes back to the mid layer, even when no target    *)
(* ever serves it and resets drop its task without scsi_done.               *)
CommandReturns == \A c \in Cmd : mid[c] = "issued" ~> mid[c] = "idle"
=============================================================================
