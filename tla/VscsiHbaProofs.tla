--------------------------- MODULE VscsiHbaProofs ---------------------------
(***************************************************************************)
(* Proofs about one session of the driver, for any number of commands and  *)
(* targets.  The invariant has three layers, each resting on the one       *)
(* before: the queue and its books (no hypothesis), the count of opens     *)
(* (FewOpens), and the names of tasks (NoWrap).                            *)
(***************************************************************************)
EXTENDS VscsiHba, FiniteSetTheorems, TLAPS

(* Device_Open does not wrap: there are not 256 REGISTER ioctls at a time.  *)
FewOpens == MaxOpens < OpenMod

(* next_cmdnumber does not wrap while a behaviour lasts.                    *)
NoWrap == MaxTasks < CmdMod - 1
-----------------------------------------------------------------------------
(* First layer: the queue and what refers to it *)

(* The queue is finite and no two tasks share an id; ids are given out once. *)
IdsExact == /\ IsFiniteSet(queue)
            /\ \A j, k \in queue : j.id = k.id => j = k
            /\ \A k \in queue : k.id <= nextId

(* Between its two steps, scsitap_queuecommand has a session and a command  *)
(* without a task.                                                          *)
OwnerClean == owner # NoCmd => present /\ mid[owner] # "idle" /\ ptr[owner] = 0

(* A session that is gone has left no task behind. *)
GoneIsEmpty == ~present => queue = {}

QueueInv == /\ TypeOK
            /\ IdsExact
            /\ CountExact
            /\ PtrExact
            /\ Outstanding
            /\ OwnerClean
            /\ GoneIsEmpty

(* Tasks removed from the queue are exactly counted down, and the rest      *)
(* stays as it was: this is all that completing tasks does to the session.  *)
LEMMA CompleteTaskKeeps ==
  ASSUME QueueInv, NEW S, S \subseteq queue, CompleteTask(S), nextId' = nextId
  PROVE  /\ IdsExact' /\ CountExact' /\ PtrExact'
         /\ queue' \in SUBSET Task /\ cmd_numbers' \in Nat /\ ptr' \in [Cmd -> 0..MaxTasks]
         /\ \A c \in Cmd : ptr[c] = 0 => ptr'[c] = 0
<1> USE DEF QueueInv, TypeOK
<1>1. queue' = queue \ S /\ IsFiniteSet(queue) /\ queue' \subseteq queue
  BY DEF CompleteTask, IdsExact
<1>2. IdsExact'
  BY <1>1, FS_Subset DEF IdsExact
<1>3. cmd_numbers' = Cardinality(queue') /\ cmd_numbers' \in Nat
  <2>1. Cardinality(queue \ S) = Cardinality(queue) - Cardinality(queue \cap S)
    BY <1>1, FS_Difference
  <2>2. queue \cap S = S
    OBVIOUS
  <2>3. Cardinality(queue') \in Nat
    BY <1>1, FS_Subset, FS_CardinalityType
  <2> QED  BY <1>1, <2>1, <2>2, <2>3 DEF CompleteTask, CountExact
<1>4. ptr' = [c \in Cmd |-> IF c \in Scs(S) THEN 0 ELSE ptr[c]]
  BY DEF CompleteTask
<1>5. \A j, k \in queue : j.sc = k.sc => j = k
  BY DEF PtrExact, IdsExact
<1>6. \A k \in queue : k.sc \in Cmd
  BY DEF Task
<1>7. \A k \in queue' : k.sc \notin Scs(S)
  BY <1>1, <1>5 DEF Scs
<1>8. PtrExact'
  <2>1. \A k \in queue' : ptr'[k.sc] = k.id
    BY <1>1, <1>4, <1>6, <1>7 DEF PtrExact
  <2>2. ASSUME NEW c \in Cmd, ptr'[c] # 0
        PROVE  \E k \in queue' : k.sc = c /\ k.id = ptr'[c]
    <3>1. c \notin Scs(S) /\ ptr'[c] = ptr[c]
      BY <1>4, <2>2
    <3>2. PICK k \in queue : k.sc = c /\ k.id = ptr[c]
      BY <2>2, <3>1 DEF PtrExact
    <3> QED  BY <1>1, <3>1, <3>2 DEF Scs
  <2> QED  BY <2>1, <2>2 DEF PtrExact
<1>9. ptr' \in [Cmd -> 0..MaxTasks] /\ \A c \in Cmd : ptr[c] = 0 => ptr'[c] = 0
  BY <1>4, HbaAssumption DEF HbaAssumption
<1> QED  BY <1>1, <1>2, <1>3, <1>8, <1>9 DEF CountExact

(* No two queued tasks belong to the same command. *)
LEMMA OneTaskPerCommand ==
  ASSUME IdsExact, PtrExact
  PROVE  \A j, k \in queue : j.sc = k.sc => j = k
BY DEF IdsExact, PtrExact

(* scsi_done of completed tasks gives back no command whose task stays.     *)
LEMMA ScsiDoneKeeps ==
  ASSUME QueueInv, NEW S, S \subseteq queue, NEW r \in {"answered", "noconnect", "timeout"},
         queue' = queue \ S, ScsiDone(S, r)
  PROVE  /\ Outstanding'
         /\ mid' \in [Cmd -> {"idle", "issued", "expired"}]
         /\ result' \in [Cmd -> {"none", "answered", "noconnect", "timeout"}]
<1>1. \A k \in queue' : k \in queue /\ k.sc \in Cmd /\ k.sc \notin Scs(S)
  BY OneTaskPerCommand DEF QueueInv, TypeOK, Task, Scs
<1>2. \A c \in Cmd : c \notin Scs(S) => mid'[c] = mid[c]
  BY DEF ScsiDone
<1>3. Outstanding'
  BY <1>1, <1>2 DEF QueueInv, Outstanding
<1> QED  BY <1>3 DEF QueueInv, TypeOK, ScsiDone

LEMMA QueueInvInit == Init => QueueInv
<1> SUFFICES ASSUME Init PROVE QueueInv
  OBVIOUS
<1>1. NoHandle \in Handle /\ 0 \in 0..MaxTasks /\ 0 \in 0..(OpenMod - 1) /\ 1 \in 0..(CmdMod - 1)
  BY HbaAssumption DEF HbaAssumption, NoHandle, Handle
<1>2. TypeOK
  BY <1>1 DEF Init, TypeOK
<1>3. IdsExact /\ CountExact
  BY FS_EmptySet DEF Init, IdsExact, CountExact
<1> QED  BY <1>2, <1>3 DEF Init, QueueInv, PtrExact, Outstanding, OwnerClean, GoneIsEmpty

LEMMA QueueCommandKeeps ==
  ASSUME QueueInv, NEW c \in Cmd, QueueCommand(c)
  PROVE  QueueInv'
<1>1. CASE QueueRefuse(c)
  BY <1>1 DEF QueueRefuse, QueueInv, TypeOK, IdsExact, CountExact, PtrExact, Outstanding,
     OwnerClean, GoneIsEmpty, sessionVars, queueVars, allocVars, lockVars
<1>2. CASE QueueCheck(c)
  <2> USE <1>2 DEF QueueCheck, sessionVars, allocVars
  <2>1. TypeOK'
    BY HbaAssumption DEF HbaAssumption, QueueInv, TypeOK
  <2>2. \A k \in queue : k.sc \in Cmd \ {c}
    BY DEF QueueInv, TypeOK, Task, Outstanding
  <2>3. PtrExact' /\ Outstanding'
    BY <2>2 DEF QueueInv, TypeOK, PtrExact, Outstanding
  <2>4. OwnerClean'
    BY DEF QueueInv, TypeOK, OwnerClean
  <2> QED  BY <2>1, <2>3, <2>4 DEF QueueInv, IdsExact, CountExact, GoneIsEmpty
<1>3. CASE QueueAppend(c)
  <2> USE <1>3 DEF QueueAppend, sessionVars, midVars
  <2> DEFINE new == [id |-> nextId + 1, cmd_number |-> FreshNumber,
                     sc |-> c, flags |-> "SUBMITTED"]
  <2>1. new \in Task /\ queue' = queue \cup {new} /\ nextId' \in 0..MaxTasks
    BY HbaAssumption DEF HbaAssumption, QueueInv, TypeOK, Task, Ids, Numbers, FreshNumber
  <2>2. c # NoCmd /\ present /\ mid[c] # "idle" /\ ptr[c] = 0
    BY HbaAssumption DEF HbaAssumption, QueueInv, OwnerClean
  <2>3. \A k \in queue : /\ k \in Task /\ k.id \in Nat /\ k.id <= nextId /\ k.id # 0
                          /\ k.sc \in Cmd /\ k.sc # c
    BY <2>2 DEF QueueInv, TypeOK, Task, Ids, IdsExact, PtrExact
  <2>4. IdsExact'
    <3>1. IsFiniteSet(queue')
      BY <2>1, FS_AddElement DEF QueueInv, IdsExact
    <3> QED  BY <3>1, <2>1, <2>3 DEF QueueInv, TypeOK, IdsExact
  <2>5. CountExact' /\ cmd_numbers' \in Nat
    <3>1. new \notin queue
      BY <2>3
    <3>2. Cardinality(queue \cup {new}) = Cardinality(queue) + 1
      <4> HIDE DEF new
      <4> QED  BY <3>1, FS_AddElement DEF QueueInv, IdsExact
    <3> QED  BY <3>2, <2>1 DEF QueueInv, TypeOK, CountExact
  <2>6. PtrExact'
    BY <2>1, <2>3 DEF QueueInv, TypeOK, PtrExact
  <2>7. next_cmdnumber' \in 0..(CmdMod - 1)
    BY HbaAssumption DEF HbaAssumption, QueueInv, TypeOK, FreshNumber
  <2>8. TypeOK'
    BY <2>1, <2>5, <2>7 DEF QueueInv, TypeOK
  <2>9. Outstanding' /\ OwnerClean' /\ GoneIsEmpty'
    BY <2>1, <2>2 DEF QueueInv, Outstanding, OwnerClean, GoneIsEmpty
  <2> QED  BY <2>4, <2>5, <2>6, <2>8, <2>9 DEF QueueInv
<1>4. CASE QueueBusy(c)
  <2> USE <1>4 DEF QueueBusy, sessionVars, queueVars, allocVars
  <2>1. TypeOK'
    BY DEF QueueInv, TypeOK
  <2>2. \A k \in queue : k.sc \in Cmd /\ k.sc # c
    BY HbaAssumption DEF HbaAssumption, QueueInv, OwnerClean, TypeOK, Task, Ids, PtrExact
  <2>3. Outstanding'
    BY <2>2 DEF QueueInv, TypeOK, Outstanding
  <2> QED  BY <2>1, <2>3 DEF QueueInv, IdsExact, CountExact, PtrExact, OwnerClean, GoneIsEmpty
<1> QED  BY <1>1, <1>2, <1>3, <1>4 DEF QueueCommand

LEMMA RecoveryKeeps ==
  ASSUME QueueInv, NEW c \in Cmd, Expire(c) \/ EhAbort(c)
  PROVE  QueueInv'
<1>1. CASE Expire(c)
  <2> USE <1>1 DEF Expire, sessionVars, queueVars, allocVars, lockVars
  <2>1. TypeOK' /\ Outstanding'
    BY DEF QueueInv, TypeOK, Task, Outstanding
  <2>2. OwnerClean'
    BY HbaAssumption DEF HbaAssumption, QueueInv, TypeOK, OwnerClean
  <2> QED  BY <2>1, <2>2 DEF QueueInv, IdsExact, CountExact, PtrExact, GoneIsEmpty
<1>2. CASE EhAbort(c)
  <2> DEFINE S == {k \in queue : k.id = ptr[c]}
  <2> USE <1>2 DEF sessionVars, allocVars, lockVars
  <2>1. CompleteTask(S) /\ nextId' = nextId
    BY DEF EhAbort
  <2>2. /\ IdsExact' /\ CountExact' /\ PtrExact'
        /\ queue' \in SUBSET Task /\ cmd_numbers' \in Nat /\ ptr' \in [Cmd -> 0..MaxTasks]
    BY <2>1, CompleteTaskKeeps
  <2>3. \A k \in queue' : k \in queue /\ k.sc \in Cmd /\ k.sc # c
    BY <2>1 DEF CompleteTask, QueueInv, TypeOK, Task, PtrExact
  <2>4. Outstanding'
    BY <2>3 DEF QueueInv, TypeOK, Outstanding, EhAbort
  <2>5. TypeOK'
    BY <2>2 DEF QueueInv, TypeOK, EhAbort
  <2>6. OwnerClean'
    BY DEF QueueInv, TypeOK, OwnerClean, EhAbort, LockFree
  <2>7. GoneIsEmpty'
    BY <2>3 DEF QueueInv, GoneIsEmpty, EhAbort
  <2> QED  BY <2>2, <2>4, <2>5, <2>6, <2>7 DEF QueueInv
<1> QED  BY <1>1, <1>2

LEMMA HostResetKeeps == ASSUME QueueInv, EhHostReset PROVE QueueInv'
<1> USE DEF EhHostReset, sessionVars, allocVars, lockVars, midVars
<1>1. /\ IdsExact' /\ CountExact' /\ PtrExact' /\ queue' = {}
      /\ queue' \in SUBSET Task /\ cmd_numbers' \in Nat /\ ptr' \in [Cmd -> 0..MaxTasks]
  BY CompleteTaskKeeps DEF CompleteTask
<1>2. TypeOK'
  BY <1>1 DEF QueueInv, TypeOK
<1> QED  BY <1>1, <1>2 DEF QueueInv, Outstanding, OwnerClean, GoneIsEmpty, LockFree

LEMMA SessionKeeps ==
  ASSUME QueueInv, NEW t \in Target, Register(t) \/ Release(t)
  PROVE  QueueInv'
<1>1. CASE Register(t)
  <2> USE <1>1 DEF Register, lockVars, midVars
  <2>1. queue' = queue /\ cmd_numbers' = cmd_numbers
    <3>1. CASE present
      BY <3>1
    <3>2. CASE ~present
      BY <3>2, FS_EmptySet DEF QueueInv, GoneIsEmpty, CountExact
    <3> QED  BY <3>1, <3>2
  <2>2. Device_Open' \in 0..(OpenMod - 1) /\ next_cmdnumber' \in 0..(CmdMod - 1)
    BY HbaAssumption DEF HbaAssumption, QueueInv, TypeOK
  <2>3. TypeOK'
    BY <2>1, <2>2 DEF QueueInv, TypeOK
  <2> QED  BY <2>1, <2>3 DEF QueueInv, IdsExact, CountExact, PtrExact, Outstanding,
           OwnerClean, GoneIsEmpty
<1>2. CASE Release(t)
  <2> USE <1>2 DEF Release, queueVars, allocVars, lockVars, midVars
  <2>1. Device_Open' \in 0..(OpenMod - 1) /\ NoHandle \in Handle
    BY HbaAssumption DEF HbaAssumption, QueueInv, TypeOK, NoHandle, Handle
  <2>2. TypeOK'
    BY <2>1 DEF QueueInv, TypeOK
  <2> QED  BY <2>2 DEF QueueInv, IdsExact, CountExact, PtrExact, Outstanding,
           OwnerClean, GoneIsEmpty
<1> QED  BY <1>1, <1>2

LEMMA UnregisterKeeps == ASSUME QueueInv, Unregister PROVE QueueInv'
<1> USE DEF Unregister, allocVars, lockVars
<1>1. /\ IdsExact' /\ CountExact' /\ PtrExact' /\ queue' = {}
      /\ queue' \in SUBSET Task /\ cmd_numbers' \in Nat /\ ptr' \in [Cmd -> 0..MaxTasks]
  BY CompleteTaskKeeps DEF CompleteTask
<1>2. /\ Outstanding'
      /\ mid' \in [Cmd -> {"idle", "issued", "expired"}]
      /\ result' \in [Cmd -> {"none", "answered", "noconnect", "timeout"}]
  BY <1>1, ScsiDoneKeeps
<1>3. TypeOK'
  BY <1>1, <1>2 DEF QueueInv, TypeOK
<1> QED  BY <1>1, <1>2, <1>3 DEF QueueInv, OwnerClean, GoneIsEmpty, LockFree

(* A command number names at most one task. *)
LEMMA OneTaskOfCmd ==
  ASSUME IdsExact, queue \subseteq Task, NEW n
  PROVE  TaskOfCmd(n) \subseteq queue /\ \A j, k \in TaskOfCmd(n) : j = k
BY DEF TaskOfCmd, Oldest, IdsExact, Task, Ids

(* Claiming a task changes its mark and nothing else of the queue.          *)
LEMMA ClaimedKeeps ==
  ASSUME IdsExact, queue \subseteq Task,
         NEW S, S \subseteq queue, \A j, k \in S : j = k
  PROVE  /\ Claimed(S) \subseteq Task
         /\ IsFiniteSet(Claimed(S)) /\ Cardinality(Claimed(S)) = Cardinality(queue)
         /\ \A j \in Claimed(S) : \E k \in queue :
               j.id = k.id /\ j.cmd_number = k.cmd_number /\ j.sc = k.sc
         /\ \A k \in queue : \E j \in Claimed(S) :
               j.id = k.id /\ j.cmd_number = k.cmd_number /\ j.sc = k.sc
         /\ \A i, j \in Claimed(S) : i.id = j.id => i = j
<1>1. CASE S = {}
  <2>1. Claimed(S) = queue
    BY <1>1 DEF Claimed
  <2> QED  BY <2>1 DEF IdsExact
<1>2. CASE S # {}
  <2>1. PICK s \in queue : S = {s}
    BY <1>2
  <2> DEFINE r == [s EXCEPT !.flags = "RECEIVED"]
  <2>2. /\ r \in Task /\ r.id = s.id /\ r.cmd_number = s.cmd_number /\ r.sc = s.sc
    BY DEF Task
  <2>3. Claimed(S) = (queue \ {s}) \cup {r}
    BY <2>1 DEF Claimed
  <2>4. r \notin queue \ {s} /\ \A k \in queue \ {s} : k.id # r.id
    BY <2>2 DEF IdsExact
  <2> HIDE DEF r
  <2>5. IsFiniteSet(queue \ {s}) /\ Cardinality(queue \ {s}) = Cardinality(queue) - 1
    BY FS_RemoveElement DEF IdsExact
  <2>6. IsFiniteSet((queue \ {s}) \cup {r})
        /\ Cardinality((queue \ {s}) \cup {r}) = Cardinality(queue \ {s}) + 1
    BY <2>4, <2>5, FS_AddElement
  <2>7. Cardinality(queue) \in Nat
    BY FS_CardinalityType DEF IdsExact
  <2>8. IsFiniteSet(Claimed(S)) /\ Cardinality(Claimed(S)) = Cardinality(queue)
    BY <2>3, <2>5, <2>6, <2>7
  <2> QED  BY <2>2, <2>3, <2>4, <2>8 DEF IdsExact
<1> QED  BY <1>1, <1>2

LEMMA DeviceKeeps ==
  ASSUME QueueInv, NEW t \in Target, ReadHeader(t) \/ ReceiveTask(t) \/ WriteDone(t)
  PROVE  QueueInv'
<1> DEFINE S == TaskOfCmd(held[t].cmd_number)
<1>0. S \subseteq queue /\ \A j, k \in S : j = k
  BY OneTaskOfCmd DEF QueueInv, TypeOK
<1> HIDE DEF S
<1>1. CASE ReadHeader(t)
  <2> USE <1>1 DEF ReadHeader, sessionVars, queueVars, allocVars, lockVars, midVars
  <2>1. PICK k \in queue : held' = [held EXCEPT ![t] = [id |-> k.id, cmd_number |-> k.cmd_number]]
    BY DEF Offered, Oldest
  <2>2. [id |-> k.id, cmd_number |-> k.cmd_number] \in Handle
    BY HbaAssumption DEF HbaAssumption, QueueInv, TypeOK, Task, Handle, Ids, Numbers
  <2>3. held' \in [Target -> Handle]
    BY <2>1, <2>2 DEF QueueInv, TypeOK
  <2>4. TypeOK'
    BY <2>3 DEF QueueInv, TypeOK
  <2> QED  BY <2>4 DEF QueueInv, IdsExact, CountExact, PtrExact, Outstanding,
           OwnerClean, GoneIsEmpty
<1>2. CASE ReceiveTask(t)
  <2> USE <1>2 DEF ReceiveTask, sessionVars, allocVars, midVars
  <2>1. queue' = IF leaked' THEN queue ELSE Claimed(S)
    BY DEF S
  <2>2. /\ queue' \subseteq Task
        /\ IsFiniteSet(queue') /\ Cardinality(queue') = Cardinality(queue)
        /\ \A j \in queue' : \E k \in queue : j.id = k.id /\ j.sc = k.sc
        /\ \A k \in queue : \E j \in queue' : j.id = k.id /\ j.sc = k.sc
        /\ \A i, j \in queue' : i.id = j.id => i = j
    <3>1. CASE leaked'
      BY <3>1, <2>1 DEF QueueInv, TypeOK, IdsExact
    <3>2. CASE ~leaked'
      BY <3>2, <1>0, <2>1, ClaimedKeeps DEF QueueInv, TypeOK
    <3> QED  BY <3>1, <3>2
  <2>3. TypeOK' /\ IdsExact' /\ CountExact' /\ Outstanding'
    BY <2>2 DEF QueueInv, TypeOK, IdsExact, CountExact, Outstanding
  <2>4. PtrExact'
    BY <2>2 DEF QueueInv, PtrExact
  <2>5. queue = {} => queue' = {}
    BY <2>2
  <2> QED  BY <2>3, <2>4, <2>5 DEF QueueInv, OwnerClean, GoneIsEmpty
<1>3. CASE WriteDone(t)
  <2> USE <1>3 DEF WriteDone, sessionVars, allocVars, lockVars
  <2>1. CompleteTask(S) /\ ScsiDone(S, "answered")
    BY DEF S
  <2>2. /\ IdsExact' /\ CountExact' /\ PtrExact' /\ queue' = queue \ S
        /\ queue' \in SUBSET Task /\ cmd_numbers' \in Nat /\ ptr' \in [Cmd -> 0..MaxTasks]
    BY <1>0, <2>1, CompleteTaskKeeps DEF CompleteTask
  <2>3. /\ Outstanding'
        /\ mid' \in [Cmd -> {"idle", "issued", "expired"}]
        /\ result' \in [Cmd -> {"none", "answered", "noconnect", "timeout"}]
    BY <1>0, <2>1, <2>2, ScsiDoneKeeps
  <2>4. TypeOK'
    BY <2>2, <2>3 DEF QueueInv, TypeOK
  <2> QED  BY <2>2, <2>3, <2>4 DEF QueueInv, OwnerClean, GoneIsEmpty, LockFree
<1> QED  BY <1>1, <1>2, <1>3

LEMMA QueueInvNext == QueueInv /\ [Next]_vars => QueueInv'
<1> SUFFICES ASSUME QueueInv, [Next]_vars PROVE QueueInv'
  OBVIOUS
<1>1. ASSUME NEW c \in Cmd, QueueCommand(c) \/ Expire(c) \/ EhAbort(c) PROVE QueueInv'
  BY <1>1, QueueCommandKeeps, RecoveryKeeps
<1>2. CASE EhHostReset
  BY <1>2, HostResetKeeps
<1>3. ASSUME NEW t \in Target, Register(t) \/ Release(t) PROVE QueueInv'
  BY <1>3, SessionKeeps
<1>4. ASSUME NEW t \in Target, ReadHeader(t) \/ ReceiveTask(t) \/ WriteDone(t) PROVE QueueInv'
  BY <1>4, DeviceKeeps
<1>5. CASE Unregister
  BY <1>5, UnregisterKeeps
<1>6. CASE UNCHANGED vars
  BY <1>6 DEF vars, sessionVars, queueVars, allocVars, lockVars, midVars, QueueInv, TypeOK,
     IdsExact, CountExact, PtrExact, Outstanding, OwnerClean, GoneIsEmpty
<1> QED  BY <1>1, <1>2, <1>3, <1>4, <1>5, <1>6 DEF Next
THEOREM QueueInvariant == Spec => []QueueInv
BY QueueInvInit, QueueInvNext, PTL DEF Spec

(* Type correctness, for every number of commands, targets and tasks.       *)
THEOREM TypeCorrect == Spec => []TypeOK
BY QueueInvariant, PTL DEF QueueInv

(* SCp.ptr always leads an abort to the task of its command and to no freed *)
(* one (hba.c:197-203).                                                     *)
THEOREM PtrAlwaysExact == Spec => []PtrExact
BY QueueInvariant, PTL DEF QueueInv

(* No task outlives its command (hba.c:171-209).                            *)
THEOREM AlwaysOutstanding == Spec => []Outstanding
BY QueueInvariant, PTL DEF QueueInv

(* cmd_numbers counts the queue exactly (hba.c:177, 256).                   *)
THEOREM CountAlwaysExact == Spec => []CountExact
BY QueueInvariant, PTL DEF QueueInv
-----------------------------------------------------------------------------
(* Second layer: the count of targets and the ready flag *)

(* A session that is gone has no target. *)
GoneHasNoTarget == ~present => registered = {}

ReadyInv == ReadyWhileOpen /\ NoLockLeak /\ GoneHasNoTarget

LEMMA RegisteredFinite ==
  ASSUME TypeOK
  PROVE  /\ IsFiniteSet(registered) /\ Cardinality(registered) \in Nat
         /\ Cardinality(registered) = 0 <=> registered = {}
         /\ Device_Open \in Nat
<1>1. IsFiniteSet(registered)
  BY HbaAssumption, FS_Subset DEF HbaAssumption, TypeOK
<1> QED  BY <1>1, FS_CardinalityType, FS_EmptySet DEF TypeOK

LEMMA ReadyInvNext ==
  ASSUME FewOpens, QueueInv, ReadyInv, [Next]_vars
  PROVE  ReadyInv'
<1>0. TypeOK
  BY DEF QueueInv
<1>1. ASSUME NEW c \in Cmd, QueueCommand(c) \/ Expire(c) \/ EhAbort(c) PROVE ReadyInv'
  BY <1>1 DEF QueueCommand, QueueRefuse, QueueCheck, QueueAppend, QueueBusy, Expire, EhAbort,
     sessionVars, lockVars, ReadyInv, ReadyWhileOpen, NoLockLeak, GoneHasNoTarget
<1>2. CASE EhHostReset
  BY <1>2 DEF EhHostReset, sessionVars, lockVars, ReadyInv, ReadyWhileOpen, NoLockLeak, GoneHasNoTarget
<1>3. ASSUME NEW t \in Target, Register(t) PROVE ReadyInv'
  <2>1. /\ registered' = registered \cup {t} /\ leaked' = leaked /\ Device_Open < MaxOpens
        /\ Device_Open' = (Device_Open + 1) % OpenMod /\ flags' = "READY" /\ present' = TRUE
    BY <1>3 DEF Register, lockVars
  <2>2. Cardinality(registered') <= Cardinality(registered) + 1
    <3>1. Cardinality(registered') = IF t \in registered THEN Cardinality(registered)
                                     ELSE Cardinality(registered) + 1
      BY <1>0, <2>1, RegisteredFinite, FS_AddElement
    <3> QED  BY <1>0, <3>1, RegisteredFinite
  <2>3. Cardinality(registered') \in Nat
    BY <1>0, <2>1, RegisteredFinite, FS_AddElement, FS_CardinalityType
  <2>4. Device_Open + 1 \in Nat /\ Device_Open + 1 < OpenMod
    BY <1>0, <2>1, RegisteredFinite, HbaAssumption DEF HbaAssumption, FewOpens
  <2>5. Device_Open' = Device_Open + 1
    BY <2>1, <2>4, HbaAssumption DEF HbaAssumption
  <2>6. Cardinality(registered') <= Device_Open' /\ Device_Open' # 0
    BY <1>0, <2>2, <2>3, <2>5, RegisteredFinite DEF ReadyInv, ReadyWhileOpen
  <2> QED  BY <2>1, <2>6 DEF ReadyInv, ReadyWhileOpen, NoLockLeak, GoneHasNoTarget
<1>4. ASSUME NEW t \in Target, Release(t) PROVE ReadyInv'
  <2>1. /\ t \in registered /\ registered' = registered \ {t} /\ leaked' = leaked
        /\ present' = present /\ Device_Open' = (Device_Open - 1) % OpenMod
        /\ flags' = IF Device_Open' = 0 THEN "NOT_READY" ELSE flags
    BY <1>4 DEF Release, lockVars
  <2>2. IsFiniteSet(registered') /\ Cardinality(registered') = Cardinality(registered) - 1
    BY <1>0, <2>1, RegisteredFinite, FS_RemoveElement
  <2>3. Cardinality(registered') \in Nat
    BY <2>2, FS_CardinalityType
  <2>4. Device_Open - 1 \in Nat /\ Device_Open - 1 < OpenMod
    BY <1>0, <2>2, <2>3, RegisteredFinite, HbaAssumption
       DEF HbaAssumption, ReadyInv, ReadyWhileOpen, TypeOK
  <2>5. Device_Open' = Device_Open - 1
    BY <2>1, <2>4, HbaAssumption DEF HbaAssumption
  <2>6. Cardinality(registered') <= Device_Open' /\ Device_Open # 0
    BY <1>0, <2>2, <2>3, <2>4, <2>5, RegisteredFinite DEF ReadyInv, ReadyWhileOpen
  <2> QED  BY <2>1, <2>6 DEF ReadyInv, ReadyWhileOpen, NoLockLeak, GoneHasNoTarget
<1>5. ASSUME NEW t \in Target, ReadHeader(t) \/ ReceiveTask(t) \/ WriteDone(t) PROVE ReadyInv'
  <2>1. CASE ReceiveTask(t)
    <3>1. UNCHANGED <<present, flags, Device_Open, registered>> /\ t \in registered
      BY <2>1 DEF ReceiveTask, sessionVars
    <3>2. flags = "READY"
      BY <1>0, <3>1, RegisteredFinite DEF ReadyInv, ReadyWhileOpen
    <3>3. leaked' = FALSE
      BY <2>1, <3>2 DEF ReceiveTask
    <3> QED  BY <3>1, <3>3 DEF ReadyInv, ReadyWhileOpen, NoLockLeak, GoneHasNoTarget
  <2>2. CASE ReadHeader(t) \/ WriteDone(t)
    BY <2>2 DEF ReadHeader, WriteDone, sessionVars, lockVars, ReadyInv, ReadyWhileOpen, NoLockLeak, GoneHasNoTarget
  <2> QED  BY <1>5, <2>1, <2>2
<1>6. CASE Unregister
  <2>1. UNCHANGED <<flags, Device_Open, registered, leaked>> /\ Device_Open = 0
    BY <1>6 DEF Unregister, lockVars
  <2>2. registered = {}
    BY <1>0, <2>1, RegisteredFinite DEF ReadyInv, ReadyWhileOpen
  <2> QED  BY <2>1, <2>2 DEF ReadyInv, ReadyWhileOpen, NoLockLeak, GoneHasNoTarget
<1>7. CASE UNCHANGED vars
  BY <1>7 DEF vars, sessionVars, lockVars, ReadyInv, ReadyWhileOpen, NoLockLeak, GoneHasNoTarget
<1> QED  BY <1>1, <1>2, <1>3, <1>4, <1>5, <1>6, <1>7 DEF Next

THEOREM ReadyInvariant == ASSUME FewOpens PROVE Spec => []ReadyInv
<1>1. Init => ReadyInv
  BY FS_EmptySet DEF Init, ReadyInv, ReadyWhileOpen, NoLockLeak, GoneHasNoTarget
<1>2. QueueInv /\ ReadyInv /\ [Next]_vars => ReadyInv'
  BY ReadyInvNext
<1> QED  BY <1>1, <1>2, QueueInvariant, PTL DEF Spec

(* As long as Device_Open cannot wrap, a target that has registered finds   *)
(* the HBA ready until it closes its file (device.c:378, 465-470), whether  *)
(* or not files register more than once.                                    *)
THEOREM AlwaysReadyWhileOpen == ASSUME FewOpens PROVE Spec => []ReadyWhileOpen
BY ReadyInvariant, PTL DEF ReadyInv

(* The early return of the claim ioctl, which keeps the queue lock          *)
(* (device.c:399), is dead code as long as Device_Open cannot wrap.         *)
THEOREM NeverLeaks == ASSUME FewOpens PROVE Spec => []NoLockLeak
BY ReadyInvariant, PTL DEF ReadyInv
-----------------------------------------------------------------------------
(* Third layer: the names targets use for tasks *)

(* The id and the number of every queued task and of every fetched header.  *)
TagOf(k) == [id |-> k.id, cmd_number |-> k.cmd_number]
Tags == {TagOf(k) : k \in queue} \cup {held[t] : t \in Target} \cup {NoHandle}

(* Numbers grow with ids, so that one determines the other.                 *)
TagInv == /\ \A t \in Target \ registered : held[t] = NoHandle
          /\ next_cmdnumber \in 1..(nextId + 1)
          /\ \A p \in Tags : p.id <= nextId /\ p.cmd_number < next_cmdnumber
          /\ \A p, q \in Tags : p.id = q.id <=> p.cmd_number = q.cmd_number

LEMMA TagInvInit == Init => TagInv
<1> SUFFICES ASSUME Init PROVE TagInv
  OBVIOUS
<1>1. Tags = {NoHandle}
  BY DEF Init, Tags
<1> QED  BY <1>1 DEF Init, TagInv, NoHandle

LEMMA TagsTyped ==
  ASSUME TypeOK
  PROVE  Tags \subseteq [id : Nat, cmd_number : Nat]
<1>1. \A k \in queue : k.id \in Nat /\ k.cmd_number \in Nat
  BY HbaAssumption DEF HbaAssumption, TypeOK, Task, Ids, Numbers
<1>2. \A t \in Target : held[t] \in [id : Nat, cmd_number : Nat]
  BY HbaAssumption DEF HbaAssumption, TypeOK, Handle
<1> QED  BY <1>1, <1>2 DEF Tags, TagOf, NoHandle

(* Steps that hand out no new task only forget names or copy them.          *)
LEMMA TagsShrink ==
  ASSUME TagInv, Tags' \subseteq Tags, next_cmdnumber' = next_cmdnumber, nextId' = nextId,
         \A t \in Target \ registered' : held'[t] = NoHandle
  PROVE  TagInv'
BY DEF TagInv

LEMMA QueueTags ==
  ASSUME held' = held, \A j \in queue' : \E k \in queue : TagOf(j) = TagOf(k)
  PROVE  Tags' \subseteq Tags
<1>1. \A j \in queue' : TagOf(j) \in Tags
  BY DEF Tags
<1>2. \A t \in Target : held'[t] \in Tags
  BY DEF Tags
<1>3. NoHandle \in Tags
  BY DEF Tags
<1> QED  BY <1>1, <1>2, <1>3 DEF Tags

LEMMA TagInvAppend ==
  ASSUME NoWrap, QueueInv, TagInv, NEW c \in Cmd, QueueAppend(c)
  PROVE  TagInv'
<1> DEFINE new == [id |-> nextId + 1, cmd_number |-> next_cmdnumber]
<1>1. nextId \in Nat /\ next_cmdnumber \in Nat /\ next_cmdnumber # 0
      /\ nextId < MaxTasks /\ next_cmdnumber + 1 < CmdMod
  BY HbaAssumption DEF HbaAssumption, NoWrap, QueueInv, TypeOK, TagInv, QueueAppend
<1>2. nextId' = nextId + 1 /\ next_cmdnumber' = next_cmdnumber + 1
      /\ UNCHANGED <<held, registered>>
  BY <1>1, HbaAssumption DEF HbaAssumption, QueueAppend, FreshNumber, sessionVars
<1>3. Tags' = Tags \cup {new}
  <2> DEFINE task == [id |-> nextId + 1, cmd_number |-> next_cmdnumber,
                      sc |-> c, flags |-> "SUBMITTED"]
  <2>1. queue' = queue \cup {task} /\ TagOf(task) = new
    BY <1>1 DEF QueueAppend, FreshNumber, TagOf
  <2> HIDE DEF task, new
  <2>2. {TagOf(k) : k \in queue'} = {TagOf(k) : k \in queue} \cup {new}
    BY <2>1
  <2> QED  BY <1>2, <2>2 DEF Tags
<1>4. Tags \subseteq [id : Nat, cmd_number : Nat]
  BY TagsTyped DEF QueueInv
<1>5. \A p \in Tags : p.id <= nextId /\ p.cmd_number < next_cmdnumber
                     /\ p.id # new.id /\ p.cmd_number # new.cmd_number
  BY <1>1, <1>4 DEF TagInv
<1>6. \A p \in Tags' : p.id <= nextId' /\ p.cmd_number < next_cmdnumber'
  BY <1>1, <1>2, <1>3, <1>4, <1>5
<1>7. \A p, q \in Tags' : p.id = q.id <=> p.cmd_number = q.cmd_number
  BY <1>3, <1>5 DEF TagInv
<1>8. next_cmdnumber' \in 1..(nextId' + 1)
  BY <1>1, <1>2 DEF TagInv
<1> QED  BY <1>2, <1>6, <1>7, <1>8 DEF TagInv

LEMMA TagInvRegister ==
  ASSUME QueueInv, ReadyInv, TagInv, NEW t \in Target, Register(t)
  PROVE  TagInv'
<1>1. held' = held /\ nextId' = nextId /\ registered \subseteq registered'
  BY DEF Register
<1>2. CASE present
  <2>1. queue' = queue /\ next_cmdnumber' = next_cmdnumber
    BY <1>2 DEF Register
  <2> QED  BY <1>1, <2>1, QueueTags, TagsShrink DEF TagInv
<1>3. CASE ~present
  <2>1. queue' = {} /\ next_cmdnumber' = 1
    BY <1>3 DEF Register
  <2>2. \A u \in Target : held'[u] = NoHandle
    BY <1>1, <1>3 DEF ReadyInv, GoneHasNoTarget, TagInv
  <2>3. Tags' = {NoHandle}
    BY <2>1, <2>2 DEF Tags
  <2>4. nextId \in Nat
    BY HbaAssumption DEF HbaAssumption, QueueInv, TypeOK
  <2> QED  BY <1>1, <2>1, <2>2, <2>3, <2>4 DEF TagInv, NoHandle
<1> QED  BY <1>2, <1>3

LEMMA TagInvNext ==
  ASSUME NoWrap, QueueInv, ReadyInv, TagInv, [Next]_vars
  PROVE  TagInv'
<1>1. ASSUME queue' \subseteq queue, UNCHANGED <<registered, held, next_cmdnumber, nextId>>
      PROVE  TagInv'
  BY <1>1, QueueTags, TagsShrink DEF TagInv
<1>2. ASSUME NEW c \in Cmd, QueueCommand(c) \/ Expire(c) \/ EhAbort(c) PROVE TagInv'
  <2>1. CASE QueueAppend(c)
    BY <2>1, TagInvAppend
  <2>2. CASE QueueRefuse(c) \/ QueueCheck(c) \/ QueueBusy(c) \/ Expire(c) \/ EhAbort(c)
    BY <1>1, <2>2 DEF QueueRefuse, QueueCheck, QueueBusy, Expire, EhAbort, CompleteTask,
       sessionVars, queueVars, allocVars
  <2> QED  BY <1>2, <2>1, <2>2 DEF QueueCommand
<1>3. CASE EhHostReset \/ Unregister
  BY <1>1, <1>3 DEF EhHostReset, Unregister, CompleteTask, sessionVars, allocVars
<1>4. ASSUME NEW t \in Target, Register(t) PROVE TagInv'
  BY <1>4, TagInvRegister
<1>5. ASSUME NEW t \in Target, Release(t) PROVE TagInv'
  <2>1. queue' = queue /\ held' = [held EXCEPT ![t] = NoHandle]
        /\ registered' = registered \ {t} /\ UNCHANGED <<next_cmdnumber, nextId>>
    BY <1>5 DEF Release, queueVars, allocVars
  <2>2. \A u \in Target : held'[u] = IF u = t THEN NoHandle ELSE held[u]
    BY <2>1 DEF QueueInv, TypeOK
  <2>3. Tags' \subseteq Tags
    BY <2>1, <2>2 DEF Tags
  <2> QED  BY <2>1, <2>2, <2>3, TagsShrink DEF TagInv
<1>6. ASSUME NEW t \in Target, ReadHeader(t) PROVE TagInv'
  <2>1. PICK k \in queue : held' = [held EXCEPT ![t] = TagOf(k)]
    BY <1>6 DEF ReadHeader, Offered, Oldest, TagOf
  <2>2. queue' = queue /\ registered' = registered /\ t \in registered
        /\ UNCHANGED <<next_cmdnumber, nextId>>
    BY <1>6 DEF ReadHeader, sessionVars, queueVars, allocVars
  <2>3. \A u \in Target : held'[u] = IF u = t THEN TagOf(k) ELSE held[u]
    BY <2>1 DEF QueueInv, TypeOK
  <2>4. Tags' \subseteq Tags
    BY <2>2, <2>3 DEF Tags
  <2> QED  BY <2>2, <2>3, <2>4, TagsShrink DEF TagInv
<1>7. ASSUME NEW t \in Target, ReceiveTask(t) PROVE TagInv'
  <2> DEFINE S == TaskOfCmd(held[t].cmd_number)
  <2>1. UNCHANGED <<registered, held, next_cmdnumber, nextId>>
        /\ queue' = IF leaked' THEN queue ELSE Claimed(S)
    BY <1>7 DEF ReceiveTask, sessionVars, allocVars
  <2>2. S \subseteq queue /\ \A j, k \in S : j = k
    BY OneTaskOfCmd DEF QueueInv, TypeOK
  <2> HIDE DEF S
  <2>3. \A j \in Claimed(S) : \E k \in queue : TagOf(j) = TagOf(k)
    BY <2>2, ClaimedKeeps DEF QueueInv, TypeOK, TagOf
  <2>4. \A j \in queue' : \E k \in queue : TagOf(j) = TagOf(k)
    BY <2>1, <2>3
  <2> QED  BY <2>1, <2>4, QueueTags, TagsShrink DEF TagInv
<1>8. ASSUME NEW t \in Target, WriteDone(t) PROVE TagInv'
  BY <1>1, <1>8 DEF WriteDone, CompleteTask, sessionVars, allocVars
<1>9. CASE UNCHANGED vars
  BY <1>1, <1>9 DEF vars, sessionVars, queueVars, allocVars
<1> QED  BY <1>2, <1>3, <1>4, <1>5, <1>6, <1>7, <1>8, <1>9 DEF Next

THEOREM TagInvariant == ASSUME FewOpens, NoWrap PROVE Spec => []TagInv
<1>1. QueueInv /\ ReadyInv /\ TagInv /\ [Next]_vars => TagInv'
  BY TagInvNext
<1> QED  BY <1>1, TagInvInit, QueueInvariant, ReadyInvariant, PTL DEF Spec

(* A command number a target holds names the task it fetched and no other,  *)
(* through aborts, resets, reissues and the teardown and re-creation of the *)
(* session, as long as neither counter wraps (device.c:204, 401).           *)
THEOREM AlwaysHandleExact == ASSUME FewOpens, NoWrap PROVE Spec => []HandleExact
<1>1. TagInv => HandleExact
  <2> SUFFICES ASSUME TagInv, NEW t \in Target, NEW k \in queue
               PROVE  held[t].cmd_number = k.cmd_number <=> held[t].id = k.id
    BY DEF HandleExact
  <2>1. held[t] \in Tags /\ TagOf(k) \in Tags
    BY DEF Tags
  <2> QED  BY <2>1 DEF TagInv, TagOf
<1> QED  BY <1>1, TagInvariant, PTL
-----------------------------------------------------------------------------
(* The session implements ScsiPort *)

Inv == QueueInv /\ ReadyInv /\ TagInv

PortStep == [Port!Next]_(Port!portVars)

LEMMA PortStutter ==
  ASSUME Shown' = Shown, UNCHANGED midVars
  PROVE  PortStep
BY DEF PortStep, Port!portVars, midVars

LEMMA ShownTyped ==
  /\ \A c \in Cmd : Shown[c] = {t \in Target : \E k \in queue : k.sc = c /\ held[t].id = k.id}
  /\ \A c \in Cmd : Shown'[c] = {t \in Target : \E k \in queue' : k.sc = c /\ held'[t].id = k.id}
BY DEF Shown

(* Steps that leave each queued id with its command, and the headers alone, *)
(* change nobody's sight.                                                   *)
LEMMA SameSight ==
  ASSUME held' = held,
         \A j \in queue' : \E k \in queue : j.id = k.id /\ j.sc = k.sc,
         \A k \in queue : \E j \in queue' : j.id = k.id /\ j.sc = k.sc
  PROVE  Shown' = Shown
<1>1. ASSUME NEW c \in Cmd
      PROVE  {t \in Target : \E k \in queue' : k.sc = c /\ held'[t].id = k.id}
             = {t \in Target : \E k \in queue : k.sc = c /\ held[t].id = k.id}
  <2>1. ASSUME NEW t \in Target
        PROVE  (\E k \in queue' : k.sc = c /\ held'[t].id = k.id)
               <=> \E k \in queue : k.sc = c /\ held[t].id = k.id
    OBVIOUS
  <2> QED  BY <2>1
<1> QED  BY <1>1 DEF Shown

(* Completing tasks takes sight of their commands away, and of no other.    *)
LEMMA CompleteSight ==
  ASSUME Inv, NEW S, S \subseteq queue, queue' = queue \ S, held' = held
  PROVE  \A c \in Cmd : Shown'[c] = IF c \in Scs(S) THEN {} ELSE Shown[c]
<1>1. \A k \in queue' : k \in queue /\ k.sc \notin Scs(S)
  BY OneTaskPerCommand DEF Inv, QueueInv, Scs
<1>2. \A k \in queue : k.sc \notin Scs(S) => k \in queue'
  BY DEF Scs
<1>3. ASSUME NEW c \in Cmd
      PROVE  Shown'[c] = IF c \in Scs(S) THEN {} ELSE Shown[c]
  <2>1. CASE c \in Scs(S)
    BY <1>1, <2>1, ShownTyped
  <2>2. CASE c \notin Scs(S)
    <3>1. \A t \in Target : (\E k \in queue' : k.sc = c /\ held'[t].id = k.id)
                           <=> \E k \in queue : k.sc = c /\ held[t].id = k.id
      BY <1>1, <1>2, <2>2
    <3>2. {t \in Target : \E k \in queue' : k.sc = c /\ held'[t].id = k.id}
          = {t \in Target : \E k \in queue : k.sc = c /\ held[t].id = k.id}
      BY <3>1
    <3>3. Shown'[c] = Shown[c]
      <4>1. Shown[c] = {t \in Target : \E k \in queue : k.sc = c /\ held[t].id = k.id}
        BY ShownTyped
      <4>2. Shown'[c] = {t \in Target : \E k \in queue' : k.sc = c /\ held'[t].id = k.id}
        BY ShownTyped
      <4> QED  BY <3>2, <4>1, <4>2
    <3> QED  BY <2>2, <3>3
  <2> QED  BY <2>1, <2>2
<1> QED  BY <1>3

LEMMA PortInit == Init => Port!Init
BY DEF Init, Port!Init, Shown

LEMMA QueueCommandImplements ==
  ASSUME Inv, NEW c \in Cmd, QueueCommand(c)
  PROVE  PortStep
<1>1. CASE QueueRefuse(c)
  <2>1. Shown' = Shown /\ mid' = mid
    BY <1>1 DEF QueueRefuse, queueVars, Shown
  <2>2. Port!Refuse(c)
    BY <1>1, <2>1 DEF QueueRefuse, Port!Refuse, Port!Move, Inv, QueueInv, TypeOK
  <2> QED  BY <2>2 DEF PortStep, Port!Next
<1>2. CASE QueueCheck(c)
  <2>1. Shown' = Shown
    BY <1>2 DEF QueueCheck, Shown
  <2>2. Shown[c] = {}
    BY <1>2, ShownTyped DEF QueueCheck, Inv, QueueInv, Outstanding
  <2>3. Port!Issue(c)
    BY <1>2, <2>1, <2>2 DEF QueueCheck, Port!Issue, Port!Move
  <2> QED  BY <2>3 DEF PortStep, Port!Next
<1>3. CASE QueueAppend(c)
  <2>1. \A t \in Target : held[t].id \in Nat /\ held[t].id <= nextId
    BY HbaAssumption DEF HbaAssumption, Inv, QueueInv, TypeOK, Handle, TagInv, Tags
  <2>2. ASSUME NEW d \in Cmd, NEW t \in Target
        PROVE  (\E k \in queue' : k.sc = d /\ held'[t].id = k.id)
               <=> \E k \in queue : k.sc = d /\ held[t].id = k.id
    BY <1>3, <2>1, HbaAssumption DEF HbaAssumption, QueueAppend, Inv, QueueInv, TypeOK
  <2>3. Shown' = Shown
    BY <2>2 DEF Shown
  <2> QED  BY <1>3, <2>3, PortStutter DEF QueueAppend
<1>4. CASE QueueBusy(c)
  <2>1. Shown' = Shown /\ result' = result
    BY <1>4 DEF QueueBusy, queueVars, Shown
  <2>2. CASE mid[c] = "issued"
    <3>1. \A k \in queue : k.sc # c
      BY <1>4, HbaAssumption DEF HbaAssumption, QueueBusy, Inv, QueueInv, OwnerClean, TypeOK,
         Task, Ids, PtrExact
    <3>2. Shown[c] = {}
      BY <3>1, ShownTyped
    <3>3. Port!PushBack(c)
      BY <1>4, <2>1, <2>2, <3>2 DEF QueueBusy, Port!PushBack, Port!Move, Inv, QueueInv, TypeOK
    <3> QED  BY <3>3 DEF PortStep, Port!Next
  <2>3. CASE mid[c] # "issued"
    <3>1. mid' = mid
      BY <1>4, <2>3 DEF QueueBusy, Inv, QueueInv, TypeOK
    <3> QED  BY <2>1, <3>1, PortStutter DEF midVars
  <2> QED  BY <2>2, <2>3
<1> QED  BY <1>1, <1>2, <1>3, <1>4 DEF QueueCommand

LEMMA RecoveryImplements ==
  ASSUME Inv, NEW c \in Cmd, Expire(c) \/ EhAbort(c)
  PROVE  PortStep
<1>1. CASE Expire(c)
  <2>1. Shown' = Shown
    BY <1>1 DEF Expire, queueVars, Shown
  <2>2. Port!Expire(c)
    BY <1>1, <2>1 DEF Expire, Port!Expire, Port!Move, Inv, QueueInv, TypeOK
  <2> QED  BY <2>2 DEF PortStep, Port!Next
<1>2. CASE EhAbort(c)
  <2> DEFINE S == {k \in queue : k.id = ptr[c]}
  <2>1. queue' = queue \ S /\ held' = held /\ S \subseteq queue
    BY <1>2 DEF EhAbort, CompleteTask
  <2>2. \A k \in queue : k \in S <=> k.sc = c
    BY DEF Inv, QueueInv, IdsExact, PtrExact, TypeOK, Task, Ids
  <2>3. \A d \in Cmd \ {c} : d \notin Scs(S)
    BY <2>2 DEF Scs
  <2> HIDE DEF S
  <2>4. \A d \in Cmd \ {c} : Shown'[d] = Shown[d]
    BY <2>1, <2>3, CompleteSight
  <2>5. Shown'[c] = {}
    BY <2>1, <2>2, ShownTyped
  <2>6. Port!Recover(c)
    BY <1>2, <2>4, <2>5 DEF EhAbort, Port!Recover, Port!Move, Port!OthersSee
  <2> QED  BY <2>6 DEF PortStep, Port!Next
<1> QED  BY <1>1, <1>2

LEMMA ForgetImplements ==
  ASSUME \A c \in Cmd : Shown'[c] \subseteq Shown[c], UNCHANGED midVars
  PROVE  PortStep
BY DEF midVars, PortStep, Port!Next, Port!Forget

LEMMA HostResetImplements == ASSUME Inv, EhHostReset PROVE PortStep
<1>1. queue' = queue \ queue /\ held' = held /\ UNCHANGED midVars
  BY DEF EhHostReset, CompleteTask
<1>2. \A c \in Cmd : Shown'[c] \subseteq Shown[c]
  BY <1>1, CompleteSight
<1> QED  BY <1>1, <1>2, ForgetImplements

LEMMA UnregisterImplements == ASSUME FewOpens, Inv, Unregister PROVE PortStep
<1> DEFINE S == {c \in Scs(queue) : mid[c] = "issued"}
<1>1. registered = {} /\ queue' = {} /\ held' = held
  <2>1. Cardinality(registered) = 0 /\ IsFiniteSet(registered)
    BY RegisteredFinite DEF Unregister, Inv, QueueInv, ReadyInv, ReadyWhileOpen
  <2> QED  BY <2>1, FS_EmptySet DEF Unregister, CompleteTask
<1>2. \A t \in Target, k \in queue : held[t].id # k.id
  BY <1>1 DEF Inv, TagInv, NoHandle, QueueInv, TypeOK, Task, Ids
<1>3. Shown = [c \in Cmd |-> {}] /\ Shown' = [c \in Cmd |-> {}]
  BY <1>1, <1>2 DEF Shown
<1>4. S \in SUBSET Cmd
  BY DEF Scs, Inv, QueueInv, TypeOK, Task
<1>5. /\ mid' = [c \in Cmd |-> IF c \in S THEN "idle" ELSE mid[c]]
      /\ result' = [c \in Cmd |-> IF c \in S THEN "noconnect" ELSE result[c]]
  <2>1. S = {c \in Scs(queue) : mid[c] = "issued"}
    OBVIOUS
  <2> QED  BY <2>1 DEF Unregister, ScsiDone
<1>6. Port!Disconnect(S)
  BY <1>3, <1>4, <1>5 DEF Port!Disconnect
<1> QED  BY <1>4, <1>6 DEF PortStep, Port!Next

LEMMA TargetsComeAndGo ==
  ASSUME Inv, NEW t \in Target, Register(t) \/ Release(t)
  PROVE  PortStep
<1>1. CASE Register(t)
  <2>1. queue' = queue /\ held' = held /\ UNCHANGED midVars
    BY <1>1 DEF Register, Inv, QueueInv, GoneIsEmpty
  <2>2. Shown' = Shown
    BY <2>1 DEF Shown
  <2> QED  BY <2>1, <2>2, PortStutter
<1>2. CASE Release(t)
  <2>1. queue' = queue /\ UNCHANGED midVars
        /\ \A u \in Target : held'[u] = IF u = t THEN NoHandle ELSE held[u]
    BY <1>2 DEF Release, queueVars, Inv, QueueInv, TypeOK
  <2>2. \A k \in queue : k.id # 0
    BY DEF Inv, QueueInv, TypeOK, Task, Ids
  <2>3. \A u \in Target, k \in queue : held'[u].id = k.id => held[u].id = k.id
    BY <2>1, <2>2 DEF NoHandle
  <2>4. \A c \in Cmd : Shown'[c] \subseteq Shown[c]
    BY <2>1, <2>3, ShownTyped
  <2> QED  BY <2>1, <2>4, ForgetImplements
<1> QED  BY <1>1, <1>2

LEMMA DeviceImplements ==
  ASSUME Inv, NEW t \in Target, ReadHeader(t) \/ ReceiveTask(t) \/ WriteDone(t)
  PROVE  PortStep
<1> DEFINE S == TaskOfCmd(held[t].cmd_number)
<1>0. S \subseteq queue /\ \A j, k \in S : j = k
  BY OneTaskOfCmd DEF Inv, QueueInv, TypeOK
<1>1. \A k \in S : k.cmd_number = held[t].cmd_number
  BY DEF TaskOfCmd, Oldest
<1> HIDE DEF S
<1>2. CASE ReadHeader(t)
  <2>1. PICK k \in queue : held' = [held EXCEPT ![t] = TagOf(k)]
    BY <1>2 DEF ReadHeader, Offered, Oldest, TagOf
  <2>2. queue' = queue /\ UNCHANGED midVars /\ k.sc \in Cmd
        /\ \A u \in Target : held'[u] = IF u = t THEN TagOf(k) ELSE held[u]
    BY <1>2, <2>1 DEF ReadHeader, queueVars, Inv, QueueInv, TypeOK, Task
  <2>3. \A j \in queue : j.id = k.id => j = k
    BY DEF Inv, QueueInv, IdsExact
  <2>4. t \in Shown'[k.sc]
    BY <2>2, ShownTyped DEF TagOf
  <2>5. Shown'[k.sc] \subseteq Shown[k.sc] \cup {t}
    BY <2>2, ShownTyped
  <2>6. \A d \in Cmd \ {k.sc} : Shown'[d] \subseteq Shown[d]
    BY <2>2, <2>3, ShownTyped DEF TagOf
  <2>7. mid[k.sc] # "idle"
    BY DEF Inv, QueueInv, Outstanding
  <2>8. Port!Show(k.sc, t)
    BY <2>2, <2>4, <2>5, <2>6, <2>7 DEF Port!Show, midVars
  <2> QED  BY <2>2, <2>8 DEF PortStep, Port!Next
<1>3. CASE ReceiveTask(t)
  <2>1. held' = held /\ UNCHANGED midVars /\ queue' = IF leaked' THEN queue ELSE Claimed(S)
    BY <1>3 DEF ReceiveTask, S
  <2>2. /\ \A j \in queue' : \E k \in queue : j.id = k.id /\ j.sc = k.sc
        /\ \A k \in queue : \E j \in queue' : j.id = k.id /\ j.sc = k.sc
    <3>1. CASE leaked'
      BY <2>1, <3>1
    <3>2. CASE ~leaked'
      BY <1>0, <2>1, <3>2, ClaimedKeeps DEF Inv, QueueInv, TypeOK
    <3> QED  BY <3>1, <3>2
  <2> QED  BY <2>1, <2>2, SameSight, PortStutter
<1>4. CASE WriteDone(t)
  <2>1. queue' = queue \ S /\ held' = held /\ ScsiDone(S, "answered")
    BY <1>4 DEF WriteDone, CompleteTask, S
  <2>2. \A c \in Cmd : Shown'[c] = IF c \in Scs(S) THEN {} ELSE Shown[c]
    BY <1>0, <2>1, CompleteSight
  <2>3. \A c \in Cmd : Shown'[c] \subseteq Shown[c]
    BY <2>2
  <2>4. CASE {c \in Scs(S) : mid[c] = "issued"} = {}
    <3>1. mid' = mid /\ result' = result
      BY <2>1, <2>4 DEF ScsiDone, Inv, QueueInv, TypeOK
    <3> QED  BY <2>3, <3>1, ForgetImplements DEF midVars
  <2>5. CASE {c \in Scs(S) : mid[c] = "issued"} # {}
    <3>1. PICK k \in S : mid[k.sc] = "issued"
      BY <2>5 DEF Scs
    <3>2. Scs(S) = {k.sc} /\ k \in queue /\ k.sc \in Cmd
      BY <1>0, <3>1 DEF Scs, Inv, QueueInv, TypeOK, Task
    <3>3. held[t].id = k.id
      <4>1. held[t] \in Tags /\ TagOf(k) \in Tags
        BY <3>2 DEF Tags
      <4> QED  BY <1>1, <3>1, <4>1 DEF Inv, TagInv, TagOf
    <3>4. t \in Shown[k.sc]
      BY <3>2, <3>3, ShownTyped
    <3>5. /\ mid' = [mid EXCEPT ![k.sc] = "idle"]
          /\ result' = [result EXCEPT ![k.sc] = "answered"]
      BY <2>1, <3>1, <3>2 DEF ScsiDone, Inv, QueueInv, TypeOK
    <3>6. Port!Answer(k.sc, t)
      BY <2>2, <3>1, <3>2, <3>4, <3>5 DEF Port!Answer, Port!Move, Port!OthersSee
    <3> QED  BY <3>2, <3>6 DEF PortStep, Port!Next
  <2> QED  BY <2>4, <2>5
<1> QED  BY <1>2, <1>3, <1>4

LEMMA PortNext == ASSUME FewOpens, Inv, [Next]_vars PROVE PortStep
<1>1. ASSUME NEW c \in Cmd, QueueCommand(c) \/ Expire(c) \/ EhAbort(c) PROVE PortStep
  BY <1>1, QueueCommandImplements, RecoveryImplements
<1>2. CASE EhHostReset
  BY <1>2, HostResetImplements
<1>3. ASSUME NEW t \in Target, Register(t) \/ Release(t) PROVE PortStep
  BY <1>3, TargetsComeAndGo
<1>4. ASSUME NEW t \in Target, ReadHeader(t) \/ ReceiveTask(t) \/ WriteDone(t) PROVE PortStep
  BY <1>4, DeviceImplements
<1>5. CASE Unregister
  BY <1>5, UnregisterImplements
<1>6. CASE UNCHANGED vars
  <2>1. Shown' = Shown /\ UNCHANGED midVars
    BY <1>6 DEF vars, queueVars, Shown
  <2> QED  BY <2>1, PortStutter
<1> QED  BY <1>1, <1>2, <1>3, <1>4, <1>5, <1>6 DEF Next

(* The driver keeps what ScsiPort promises: every issue of a command comes  *)
(* back at most once, and answered only by a target that fetched that very  *)
(* issue (hba.c, device.c), as long as neither counter wraps.               *)
THEOREM ImplementsPort == ASSUME FewOpens, NoWrap PROVE Spec => PortSpec
<1>1. Init => Port!Init
  BY PortInit
<1>2. Inv /\ [Next]_vars => [Port!Next]_(Port!portVars)
  BY PortNext DEF PortStep
<1>3. Spec => []Inv
  BY QueueInvariant, ReadyInvariant, TagInvariant, PTL DEF Inv
<1> QED  BY <1>1, <1>2, <1>3, PTL DEF Spec, PortSpec, Port!Spec
=============================================================================
