---------------------------- MODULE VscsiTarget ----------------------------
(***************************************************************************)
(* The session of VscsiHba driven by the user program that comes with it   *)
(* (user/main.c over user/vscsiapi.c): each target loops fetching a task,  *)
(* claiming it, reading the data of a write, running the command and       *)
(* answering.  A target may be killed at any point and started again.      *)
(*                                                                         *)
(* The failures the program meets when its session is not ready are left   *)
(* out: theorem AlwaysReadyWhileOpen of VscsiHbaProofs says that a target  *)
(* that has registered finds its session ready.                            *)
(***************************************************************************)
EXTENDS VscsiHba

CONSTANTS OutCmds,   \* the commands that carry data to the device
          Steady     \* the targets nobody kills

ASSUME TargetAssumption == OutCmds \subseteq Cmd /\ Steady \subseteq Target

VARIABLES pc,        \* pc[t]: where target t is in its loop
          cdb,       \* cdb[t]: the command whose CDB is in t's user_scsitap_task
          ran        \* ran[t]: the tasks whose CDB t has run

programVars == <<pc, cdb, ran>>
allVars == <<vars, programVars>>

(* get: blocked in read; woken: past the wait; claim: header copied; data:  *)
(* a write, blocked in the read of its data; copy: past that wait; exit: on *)
(* the way to exit(1).                                                      *)
Places == {"down", "get", "woken", "claim", "data", "copy", "serve", "reply", "exit"}

TargetTypeOK == /\ TypeOK
                /\ pc \in [Target -> Places]
                /\ cdb \in [Target -> Cmd \cup {NoCmd}]
                /\ ran \in [Target -> SUBSET Ids]

TargetInit == /\ Init
              /\ pc = [t \in Target |-> "down"]
              /\ cdb = [t \in Target |-> NoCmd]
              /\ ran = [t \in Target |-> {}]

Goes(t, from, to) == pc[t] = from /\ pc' = [pc EXCEPT ![t] = to]
-----------------------------------------------------------------------------
(* register_scsi_host *)
Start(t) == /\ Goes(t, "down", "get")
            /\ Register(t)
            /\ UNCHANGED <<cdb, ran>>

(* wait_event_interruptible in a read, of a header or of data: it ends when *)
(* some task is queued, which may be gone before the lock is taken.         *)
Wake(t) == /\ Goes(t, "get", "woken") \/ Goes(t, "data", "copy")
           /\ queue # {}
           /\ UNCHANGED <<vars, cdb, ran>>

(* Every queued task is claimed: get_scsi_task returns 1 and main tries again. *)
ReadNothing(t) == /\ Goes(t, "woken", "get")
                  /\ LockFree /\ Offered = {}
                  /\ UNCHANGED <<vars, cdb, ran>>

ReadTask(t) == /\ Goes(t, "woken", "claim")
               /\ ReadHeader(t)
               /\ \E k \in Offered : cdb' = [cdb EXCEPT ![t] = k.sc]
               /\ UNCHANGED ran

(* Mutation of Claim: get_scsi_task leaves the claim ioctl out.             *)
Claim_Forgotten(t) == /\ Goes(t, "claim", IF cdb[t] \in OutCmds THEN "data" ELSE "serve")
                      /\ UNCHANGED <<vars, cdb, ran>>

(* A task that is gone is claimed with success all the same. *)
Claim(t) == /\ Goes(t, "claim", IF cdb[t] \in OutCmds THEN "data" ELSE "serve")
            /\ ReceiveTask(t)
            /\ UNCHANGED <<cdb, ran>>

(* The task whose data receive_scsi_data may read: still queued and claimed. *)
DataOf(t) == {k \in TaskOfCmd(held[t].cmd_number) : k.flags = "RECEIVED"}

(* SCSITAP_IOCTL_SET_TASK, then the read of the data at that position. *)
ReadData(t) == /\ Goes(t, "copy", "serve")
               /\ LockFree /\ DataOf(t) # {}
               /\ UNCHANGED <<vars, cdb, ran>>

(* That read returns 0, receive_scsi_data -1: main gives up. *)
GiveUp(t) == /\ Goes(t, "copy", "exit")
             /\ LockFree /\ DataOf(t) = {}
             /\ UNCHANGED <<vars, cdb, ran>>

(* run_scsi_command, on the CDB and the data in t's own buffers. *)
Run(t) == /\ Goes(t, "serve", "reply")
          /\ ran' = [ran EXCEPT ![t] = @ \cup {held[t].id}]
          /\ UNCHANGED <<vars, cdb>>

(* complete_scsi_task *)
Reply(t) == /\ Goes(t, "reply", "get")
            /\ WriteDone(t)
            /\ UNCHANGED <<cdb, ran>>

(* The process ends; the kernel closes its file. *)
Gone(t) == /\ pc' = [pc EXCEPT ![t] = "down"]
           /\ cdb' = [cdb EXCEPT ![t] = NoCmd]
           /\ Release(t)
           /\ UNCHANGED ran

Exit(t) == pc[t] = "exit" /\ Gone(t)

Kill(t) == t \notin Steady /\ pc[t] # "down" /\ Gone(t)
-----------------------------------------------------------------------------
Driver == /\ \/ \E c \in Cmd : QueueCommand(c) \/ Expire(c) \/ EhAbort(c)
             \/ EhHostReset
             \/ Unregister
          /\ UNCHANGED programVars

Serve(t) == \/ Wake(t) \/ ReadNothing(t) \/ ReadTask(t) \/ Claim(t)
            \/ ReadData(t) \/ GiveUp(t) \/ Run(t) \/ Reply(t)

Program(t) == Start(t) \/ Serve(t) \/ Exit(t) \/ Kill(t)

TargetNext == Driver \/ \E t \in Target : Program(t)

TargetSpec == TargetInit /\ [][TargetNext]_allVars

(* A target that is left running keeps stepping, and a spin lock is not     *)
(* withheld from it for ever.  Timers need not fire.                        *)
ProgramFairness == /\ \A c \in Cmd : WF_allVars(Driver /\ (QueueAppend(c) \/ QueueBusy(c)))
                   /\ \A t \in Target : SF_allVars(Serve(t)) /\ WF_allVars(Exit(t))

FairTargetSpec == TargetSpec /\ ProgramFairness
-----------------------------------------------------------------------------
(* What must hold of driver and program together *)

Busy(t) == pc[t] \in {"data", "copy", "serve", "reply"}

(* What a target is about to answer finds, by its number, only the task     *)
(* whose CDB it ran (main.c:174-196, device.c:204): never another one that  *)
(* an abort, a reset or a new session put in its place.                     *)
AnswersWhatItRan == \A t \in Target, k \in queue :
  pc[t] = "reply" /\ k.cmd_number = held[t].cmd_number => k.id \in ran[t] /\ cdb[t] = k.sc

(* A queued write that a target has claimed always yields its data: the     *)
(* program gives up (main.c:184) only when error recovery or another target *)
(* took the task away.                                                      *)
GivesUpOnlyIfGone == [][\A t \in Target : pc[t] = "copy" /\ pc'[t] = "exit"
                           => \A k \in queue : k.id # held[t].id]_allVars

(* Each target runs the issues it takes in the order they were queued, and  *)
(* none a second time, wherever it is killed and restarted: it is offered   *)
(* the oldest that nobody has claimed, and what it claimed is not offered   *)
(* again (device.c:105-108, 405).  With one target, writes reach the medium *)
(* in the order the host issued them.                                       *)
RunsInOrder == \A t \in Target : pc[t] \in {"claim", "data", "copy", "serve"} =>
                 \A i \in ran[t] : i < held[t].id

(* The program registers once per open, so with it the count is exact and   *)
(* the HBA is ready exactly while some target runs (vscsiapi.c:26-37,       *)
(* device.c:378, 465-470), wherever targets give up, are killed or restart. *)
ReadyExact == LET up == {t \in Target : pc[t] # "down"}
              IN  Device_Open = Cardinality(up) /\ (flags = "READY" <=> up # {})

Queued(i) == \E k \in queue : k.id = i

(* Task i is claimed and nobody is serving it. *)
Stranded(i) == /\ \E k \in queue : k.id = i /\ k.flags = "RECEIVED"
               /\ \A t \in Target : Busy(t) => held[t].id # i

(* While a steady target serves the HBA, a queued task leaves the queue     *)
(* without the help of its timer, unless a target died with its claim:      *)
(* tasks stuck behind a dead target's claim do not block the ones after     *)
(* them (device.c:105-110).                                                 *)
Served == \A i \in Ids : Queued(i) ~> (~Queued(i) \/ Stranded(i) \/ flags = "NOT_READY")

(* "Recive a task from the task queue, just to make sure that no one else   *)
(* pick up this task" (device.c:346): no two targets serve the same issue.  *)
ExclusiveClaim == \A t, u \in Target :
  Busy(t) /\ Busy(u) /\ held[t].id = held[u].id => t = u
=============================================================================
