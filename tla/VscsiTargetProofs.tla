------------------------- MODULE VscsiTargetProofs -------------------------
(***************************************************************************)
(* Proofs about the driver together with its user program.  What the       *)
(* program does to the driver is what any target may do, so that the       *)
(* driver's invariants carry over; on top of them, the program answers a   *)
(* command only after running that command.                                *)
(***************************************************************************)
EXTENDS VscsiTarget, VscsiHbaProofs

LEMMA ProgramStep == TargetNext => [Next]_vars
BY DEF TargetNext, Driver, Program, Start, Serve, Wake, ReadNothing, ReadTask, Claim, ReadData,
   GiveUp, Run, Reply, Exit, Kill, Gone, Next

(* Every behaviour of driver and program is one of the driver serving       *)
(* arbitrary targets, so all that VscsiHbaProofs proves holds here.         *)
THEOREM ProgramRunsDriver == TargetSpec => Spec
<1>1. TargetInit => Init
  BY DEF TargetInit
<1>2. [TargetNext]_allVars => [Next]_vars
  BY ProgramStep DEF allVars
<1> QED  BY <1>1, <1>2, PTL DEF TargetSpec, Spec

LEMMA InvAlong == ASSUME FewOpens, NoWrap PROVE TargetSpec => []Inv
BY ProgramRunsDriver, QueueInvariant, ReadyInvariant, TagInvariant, PTL DEF Inv
-----------------------------------------------------------------------------
(* Past the fetch, a target holds a header, and its buffers the command of  *)
(* the task with that header's id, if it is still queued.                   *)
Serving(t) == pc[t] \in {"claim", "data", "copy", "serve", "reply"}

RanInv == /\ TargetTypeOK
          /\ \A t \in Target : Serving(t) =>
               /\ held[t].id \in Ids
               /\ \A k \in queue : k.id = held[t].id => cdb[t] = k.sc
          /\ \A t \in Target : pc[t] = "reply" => held[t].id \in ran[t]

(* A step queues old tasks, possibly newly claimed, or a task of a new id.  *)
LEMMA QueueOrigin ==
  ASSUME Inv, [Next]_vars
  PROVE  \A j \in queue' : \/ \E k \in queue : j.id = k.id /\ j.sc = k.sc
                           \/ j.id = nextId + 1
<1>1. ASSUME queue' \subseteq queue
      PROVE  \A j \in queue' : \E k \in queue : j.id = k.id /\ j.sc = k.sc
  BY <1>1
<1>2. ASSUME NEW c \in Cmd, QueueCommand(c)
      PROVE  \A j \in queue' : \/ \E k \in queue : j.id = k.id /\ j.sc = k.sc
                               \/ j.id = nextId + 1
  BY <1>2 DEF QueueCommand, QueueRefuse, QueueCheck, QueueAppend, QueueBusy, queueVars
<1>3. ASSUME NEW t \in Target, ReceiveTask(t)
      PROVE  \A j \in queue' : \E k \in queue : j.id = k.id /\ j.sc = k.sc
  <2> DEFINE S == TaskOfCmd(held[t].cmd_number)
  <2>1. S \subseteq queue /\ \A j, k \in S : j = k
    BY OneTaskOfCmd DEF Inv, QueueInv, TypeOK
  <2>2. queue' = IF leaked' THEN queue ELSE Claimed(S)
    BY <1>3 DEF ReceiveTask
  <2> HIDE DEF S
  <2>3. \A j \in Claimed(S) : \E k \in queue : j.id = k.id /\ j.sc = k.sc
    BY <2>1, ClaimedKeeps DEF Inv, QueueInv, TypeOK
  <2> QED  BY <2>2, <2>3
<1>4. ASSUME NEW c \in Cmd, Expire(c) \/ EhAbort(c) PROVE queue' \subseteq queue
  BY <1>4 DEF Expire, EhAbort, CompleteTask, queueVars
<1>5. CASE EhHostReset \/ Unregister \/ UNCHANGED vars
  BY <1>1, <1>5 DEF EhHostReset, Unregister, CompleteTask, vars, queueVars
<1>6. ASSUME NEW t \in Target, Register(t) \/ Release(t) \/ ReadHeader(t) \/ WriteDone(t)
      PROVE  queue' \subseteq queue
  BY <1>6 DEF Register, Release, ReadHeader, WriteDone, CompleteTask, queueVars
<1> QED  BY <1>1, <1>2, <1>3, <1>4, <1>5, <1>6 DEF Next

LEMMA RanInvInit == TargetInit => RanInv
<1> SUFFICES ASSUME TargetInit PROVE RanInv
  OBVIOUS
<1>1. TypeOK
  BY QueueInvInit DEF TargetInit, QueueInv
<1> QED  BY <1>1 DEF TargetInit, RanInv, TargetTypeOK, Places, Serving

(* The headers stay, and every id they name stays with its command.         *)
LEMMA HeadersKeep ==
  ASSUME Inv, RanInv, [Next]_vars, NEW t \in Target, Serving(t), held'[t] = held[t],
         cdb'[t] = cdb[t]
  PROVE  held'[t].id \in Ids /\ \A k \in queue' : k.id = held'[t].id => cdb'[t] = k.sc
<1>1. held[t].id <= nextId /\ nextId \in Nat /\ held[t].id \in Ids
  BY HbaAssumption DEF HbaAssumption, Inv, QueueInv, TypeOK, TagInv, Tags, RanInv
<1>2. held[t].id # nextId + 1
  BY <1>1, HbaAssumption DEF HbaAssumption, Ids
<1> QED  BY <1>1, <1>2, QueueOrigin DEF RanInv

LEMMA RanInvNext == Inv /\ Inv' /\ RanInv /\ [TargetNext]_allVars => RanInv'
<1> SUFFICES ASSUME Inv, Inv', RanInv, [TargetNext]_allVars PROVE RanInv'
  OBVIOUS
<1>0. [Next]_vars /\ TypeOK' /\ NoCmd \notin Cmd
  BY ProgramStep, HbaAssumption DEF HbaAssumption, allVars, Inv, QueueInv
<1>1. CASE Driver \/ UNCHANGED allVars
  <2>1. UNCHANGED programVars /\ held' = held
    BY <1>1 DEF Driver, QueueCommand, QueueRefuse, QueueCheck, QueueAppend, QueueBusy, Expire,
       EhAbort, EhHostReset, Unregister, allVars, vars
  <2>2. TargetTypeOK'
    BY <1>0, <2>1 DEF RanInv, TargetTypeOK, programVars
  <2> QED  BY <1>0, <2>1, <2>2, HeadersKeep DEF RanInv, programVars, Serving
<1>2. ASSUME NEW t \in Target, Wake(t) \/ ReadNothing(t) \/ Claim(t) \/ ReadData(t) \/ GiveUp(t)
                                \/ Reply(t)
      PROVE  RanInv'
  <2>1. held' = held /\ UNCHANGED <<cdb, ran>>
    BY <1>2 DEF Wake, ReadNothing, Claim, ReadData, GiveUp, Reply, ReceiveTask, WriteDone, vars
  <2>2. pc' \in [Target -> Places] /\ \A u \in Target : u # t => pc'[u] = pc[u]
    BY <1>2 DEF Wake, ReadNothing, Claim, ReadData, GiveUp, Reply, Goes, RanInv, TargetTypeOK,
       Places
  <2>3. pc'[t] # "reply" /\ (Serving(t)' => Serving(t))
    BY <1>2 DEF Wake, ReadNothing, Claim, ReadData, GiveUp, Reply, Goes, RanInv, TargetTypeOK,
       Places, Serving
  <2>4. TargetTypeOK'
    BY <1>0, <2>1, <2>2 DEF RanInv, TargetTypeOK
  <2> QED  BY <1>0, <2>1, <2>2, <2>3, <2>4, HeadersKeep DEF RanInv, Serving
<1>3. ASSUME NEW t \in Target, Start(t) \/ Exit(t) \/ Kill(t) PROVE RanInv'
  <2>1. /\ ran' = ran /\ pc' \in [Target -> Places] /\ pc'[t] \in {"get", "down"}
        /\ \A u \in Target : u # t => pc'[u] = pc[u]
    BY <1>3 DEF Start, Exit, Kill, Gone, Goes, RanInv, TargetTypeOK, Places
  <2>2. cdb' \in [Target -> Cmd \cup {NoCmd}] /\ \A u \in Target : u # t => cdb'[u] = cdb[u]
    BY <1>3 DEF Start, Exit, Kill, Gone, RanInv, TargetTypeOK
  <2>3. \A u \in Target : u # t => held'[u] = held[u]
    BY <1>3 DEF Start, Exit, Kill, Gone, Register, Release, Inv, QueueInv, TypeOK
  <2>4. TargetTypeOK'
    BY <1>0, <2>1, <2>2 DEF RanInv, TargetTypeOK
  <2> QED  BY <1>0, <2>1, <2>2, <2>3, <2>4, HeadersKeep DEF RanInv, Serving
<1>4. ASSUME NEW t \in Target, ReadTask(t) PROVE RanInv'
  <2>1. PICK k \in Offered : held' = [held EXCEPT ![t] = [id |-> k.id, cmd_number |-> k.cmd_number]]
    BY <1>4 DEF ReadTask, ReadHeader
  <2>2. PICK j \in Offered : cdb' = [cdb EXCEPT ![t] = j.sc]
    BY <1>4 DEF ReadTask
  <2>3. j = k /\ k \in queue /\ k \in Task /\ k.id \in Ids
    BY DEF Offered, Oldest, Inv, QueueInv, IdsExact, TypeOK, Task, Ids
  <2>4. /\ UNCHANGED <<queue, ran>> /\ pc[t] = "woken"
        /\ pc' \in [Target -> Places] /\ pc'[t] = "claim"
        /\ \A u \in Target : u # t => pc'[u] = pc[u]
    BY <1>4 DEF ReadTask, ReadHeader, queueVars, Goes, RanInv, TargetTypeOK, Places
  <2>5. /\ cdb' \in [Target -> Cmd \cup {NoCmd}] /\ cdb'[t] = k.sc
        /\ \A u \in Target : u # t => cdb'[u] = cdb[u]
    BY <2>2, <2>3 DEF RanInv, TargetTypeOK, Task
  <2>6. held'[t].id = k.id /\ \A u \in Target : u # t => held'[u] = held[u]
    BY <2>1 DEF Inv, QueueInv, TypeOK
  <2>7. \A i \in queue' : i.id = k.id => i = k
    BY <2>3, <2>4 DEF Inv, QueueInv, IdsExact
  <2>8. TargetTypeOK'
    BY <1>0, <2>4, <2>5 DEF RanInv, TargetTypeOK
  <2> QED  BY <2>3, <2>4, <2>5, <2>6, <2>7, <2>8 DEF RanInv, Serving
<1>5. ASSUME NEW t \in Target, Run(t) PROVE RanInv'
  <2>1. UNCHANGED <<held, cdb, queue>> /\ pc[t] = "serve" /\ pc' = [pc EXCEPT ![t] = "reply"]
        /\ ran' = [ran EXCEPT ![t] = @ \cup {held[t].id}]
    BY <1>5 DEF Run, Goes, vars, queueVars
  <2>2. held[t].id \in Ids
    BY <2>1 DEF RanInv, Serving
  <2>3. ran' \in [Target -> SUBSET Ids] /\ \A u \in Target : ran[u] \subseteq ran'[u]
        /\ held[t].id \in ran'[t]
    BY <2>1, <2>2 DEF RanInv, TargetTypeOK
  <2>4. TargetTypeOK'
    BY <1>0, <2>1, <2>3 DEF RanInv, TargetTypeOK, Places
  <2>5. \A u \in Target : Serving(u)' => Serving(u)
    BY <2>1 DEF Serving, RanInv, TargetTypeOK
  <2>6. ASSUME NEW u \in Target, pc'[u] = "reply" PROVE held'[u].id \in ran'[u]
    BY <2>1, <2>2, <2>3, <2>6 DEF RanInv, TargetTypeOK, Serving
  <2> QED  BY <2>1, <2>4, <2>5, <2>6 DEF RanInv
<1> QED  BY <1>1, <1>2, <1>3, <1>4, <1>5 DEF TargetNext, Program, Serve

THEOREM RanInvariant == ASSUME FewOpens, NoWrap PROVE TargetSpec => []RanInv
BY RanInvInit, RanInvNext, InvAlong, PTL DEF TargetSpec

(* A target's answer finds, by its number, only the task whose CDB it ran   *)
(* (main.c:174-196, device.c:204), as long as neither counter wraps.        *)
THEOREM AlwaysAnswersWhatItRan == ASSUME FewOpens, NoWrap PROVE TargetSpec => []AnswersWhatItRan
<1>1. Inv /\ RanInv => AnswersWhatItRan
  <2> SUFFICES ASSUME Inv, RanInv, NEW t \in Target, NEW k \in queue,
                      pc[t] = "reply", k.cmd_number = held[t].cmd_number
               PROVE  k.id \in ran[t] /\ cdb[t] = k.sc
    BY DEF AnswersWhatItRan
  <2>1. held[t] \in Tags /\ TagOf(k) \in Tags
    BY DEF Tags
  <2>2. held[t].id = k.id
    BY <2>1 DEF Inv, TagInv, TagOf
  <2> QED  BY <2>2 DEF RanInv, Serving
<1> QED  BY <1>1, InvAlong, RanInvariant, PTL

(* Every variable of the program keeps its type (main.c:160-198).           *)
THEOREM TargetTypeCorrect == ASSUME FewOpens, NoWrap PROVE TargetSpec => []TargetTypeOK
BY RanInvariant, PTL DEF RanInv
-----------------------------------------------------------------------------
(* What is offered is newer than all a target has run, and than what it is  *)
(* serving.                                                                 *)
Unclaimed == {k \in queue : k.flags = "SUBMITTED"}

InOrder(t) ==
  /\ \A i \in ran[t] : i <= nextId /\ \A k \in Unclaimed : i < k.id
  /\ pc[t] \in {"claim", "data", "copy", "serve"} => \A i \in ran[t] : i < held[t].id
  /\ pc[t] = "claim" => \A k \in Unclaimed : held[t].id <= k.id
  /\ pc[t] \in {"data", "copy", "serve"} => \A k \in Unclaimed : held[t].id < k.id

OrderInv == \A t \in Target : InOrder(t)

(* What is claimed is not unclaimed any more.                               *)
LEMMA ClaimedStays ==
  ASSUME NEW S, S \subseteq queue, queue \subseteq Task
  PROVE  \A j \in Claimed(S) : j.flags = "SUBMITTED" => j \in queue \ S
BY DEF Claimed, Task

(* A step makes no old task unclaimed again.                                *)
LEMMA UnclaimedOrigin ==
  ASSUME Inv, [Next]_vars
  PROVE  /\ nextId \in Nat /\ nextId' \in Nat /\ nextId <= nextId'
         /\ \A j \in Unclaimed' : j \in Unclaimed \/ j.id = nextId + 1
<1>0. nextId \in Nat
  BY HbaAssumption DEF HbaAssumption, Inv, QueueInv, TypeOK
<1>1. ASSUME queue' \subseteq queue, nextId' = nextId PROVE Unclaimed' \subseteq Unclaimed
  BY <1>1 DEF Unclaimed
<1>2. ASSUME NEW c \in Cmd, QueueAppend(c)
      PROVE  /\ nextId' = nextId + 1
             /\ \A j \in Unclaimed' : j \in Unclaimed \/ j.id = nextId + 1
  BY <1>2 DEF QueueAppend, Unclaimed
<1>3. ASSUME NEW c \in Cmd, QueueRefuse(c) \/ QueueCheck(c) \/ QueueBusy(c) \/ Expire(c) \/ EhAbort(c)
      PROVE  queue' \subseteq queue /\ nextId' = nextId
  BY <1>3 DEF QueueRefuse, QueueCheck, QueueBusy, Expire, EhAbort, CompleteTask, queueVars,
     allocVars
<1>4. ASSUME NEW t \in Target, ReceiveTask(t)
      PROVE  Unclaimed' \subseteq Unclaimed /\ nextId' = nextId
  <2>1. queue' = queue \/ queue' = Claimed(TaskOfCmd(held[t].cmd_number))
    BY <1>4 DEF ReceiveTask
  <2>2. TaskOfCmd(held[t].cmd_number) \subseteq queue /\ queue \subseteq Task
    BY OneTaskOfCmd DEF Inv, QueueInv, TypeOK
  <2>3. \A j \in queue' : j.flags = "SUBMITTED" => j \in queue
    BY <2>1, <2>2, ClaimedStays
  <2> QED  BY <1>4, <2>3 DEF Unclaimed, ReceiveTask, allocVars
<1>5. ASSUME EhHostReset \/ Unregister \/ UNCHANGED vars
      PROVE  queue' \subseteq queue /\ nextId' = nextId
  BY <1>5 DEF EhHostReset, Unregister, CompleteTask, vars, queueVars, allocVars
<1>6. ASSUME NEW t \in Target, Register(t) \/ Release(t) \/ ReadHeader(t) \/ WriteDone(t)
      PROVE  queue' \subseteq queue /\ nextId' = nextId
  BY <1>6 DEF Register, Release, ReadHeader, WriteDone, CompleteTask, queueVars, allocVars
<1>7. \/ Unclaimed' \subseteq Unclaimed /\ nextId' = nextId
      \/ /\ nextId' = nextId + 1
         /\ \A j \in Unclaimed' : j \in Unclaimed \/ j.id = nextId + 1
  <2>1. ASSUME NEW c \in Cmd, QueueCommand(c) \/ Expire(c) \/ EhAbort(c) PROVE <1>7
    BY <2>1, <1>1, <1>2, <1>3 DEF QueueCommand
  <2>2. CASE EhHostReset \/ Unregister \/ UNCHANGED vars
    BY <2>2, <1>1, <1>5
  <2>3. ASSUME NEW t \in Target, \/ Register(t) \/ Release(t) \/ ReadHeader(t) \/ ReceiveTask(t)
                                 \/ WriteDone(t)
        PROVE  <1>7
    BY <2>3, <1>1, <1>4, <1>6
  <2> QED  BY <2>1, <2>2, <2>3 DEF Next
<1>8. nextId' \in Nat /\ nextId <= nextId'
  BY <1>0, <1>7
<1> QED  BY <1>0, <1>7, <1>8

(* The number in a target's header finds the task that was fetched, if it   *)
(* is still queued.                                                         *)
LEMMA NumberFinds ==
  ASSUME Inv, NEW t \in Target
  PROVE  \A k \in queue : k.id = held[t].id => k \in TaskOfCmd(held[t].cmd_number)
<1>1. held[t] \in Tags /\ \A k \in queue : TagOf(k) \in Tags
  BY DEF Tags
<1>2. \A k \in queue : k.id = held[t].id => k.cmd_number = held[t].cmd_number
  BY <1>1 DEF Inv, TagInv, TagOf
<1>3. \A j, k \in queue : j.cmd_number = held[t].cmd_number /\ k.cmd_number = held[t].cmd_number
                          => j = k
  <2>1. \A k \in queue : k.cmd_number = held[t].cmd_number => k.id = held[t].id
    BY <1>1 DEF Inv, TagInv, TagOf
  <2> QED  BY <2>1 DEF Inv, QueueInv, IdsExact
<1>4. \A k \in queue : k.id \in Nat
  BY DEF Inv, QueueInv, TypeOK, Task, Ids
<1> QED  BY <1>2, <1>3, <1>4 DEF TaskOfCmd, Oldest

(* A claim leaves no unclaimed task with the id that was claimed.           *)
LEMMA ClaimTakes ==
  ASSUME Inv, Inv', RanInv, NEW t \in Target, pc[t] = "claim", ReceiveTask(t)
  PROVE  \A k \in Unclaimed' : k \in Unclaimed /\ k.id # held[t].id
<1> DEFINE S == TaskOfCmd(held[t].cmd_number)
<1>1. queue' = Claimed(S)
  BY DEF ReceiveTask, Inv, ReadyInv, NoLockLeak
<1>2. \A k \in queue : k.id = held[t].id => k \in S
  BY NumberFinds
<1>3. S \subseteq queue /\ queue \subseteq Task
  BY OneTaskOfCmd DEF Inv, QueueInv, TypeOK
<1> HIDE DEF S
<1>4. \A k \in Claimed(S) : k.flags = "SUBMITTED" => k \in queue \ S
  BY <1>3, ClaimedStays
<1> QED  BY <1>1, <1>2, <1>4 DEF Unclaimed

(* A target that keeps its header, and its place or gives it up, keeps the  *)
(* order.                                                                   *)
LEMMA OrderKeeps ==
  ASSUME Inv, RanInv, [Next]_vars, NEW t \in Target, InOrder(t),
         ran'[t] = ran[t],
         \/ pc'[t] = pc[t] /\ held'[t] = held[t]
         \/ pc'[t] \in {"down", "get", "woken", "exit", "reply"}
         \/ pc[t] = "data" /\ pc'[t] = "copy" /\ held'[t] = held[t]
         \/ pc[t] = "copy" /\ pc'[t] = "serve" /\ held'[t] = held[t]
  PROVE  InOrder(t)'
<1>1. /\ ran[t] \subseteq Ids /\ Ids \subseteq Nat
      /\ Serving(t) => held[t].id \in Ids /\ held[t].id <= nextId
  BY DEF RanInv, TargetTypeOK, Ids, Inv, TagInv, Tags
<1>2. \A k \in Unclaimed : k.id \in Nat
  BY DEF Unclaimed, Inv, QueueInv, TypeOK, Task, Ids
<1> DEFINE new == nextId + 1
<1>a. /\ nextId \in Nat /\ nextId' \in Nat /\ nextId <= nextId'
      /\ \A j \in Unclaimed' : j \in Unclaimed \/ j.id = new
  BY UnclaimedOrigin
<1>3. \A i \in ran'[t] : i <= nextId' /\ \A k \in Unclaimed' : i < k.id
  <2> SUFFICES ASSUME NEW i \in ran[t] PROVE i <= nextId' /\ \A k \in Unclaimed' : i < k.id
    OBVIOUS
  <2>1. i \in Nat /\ i <= nextId /\ \A k \in Unclaimed : i < k.id
    BY <1>1 DEF InOrder
  <2>2. i <= nextId' /\ i < new
    BY <2>1, <1>a
  <2> HIDE DEF new
  <2> QED  BY <2>1, <2>2, <1>a
<1>4. pc'[t] \in {"claim", "data", "copy", "serve"} => \A i \in ran'[t] : i < held'[t].id
  BY DEF InOrder
<1>b. Serving(t) => held[t].id < new /\ held[t].id <= new
  <2>1. \A n \in Nat : n <= nextId => n < new /\ n <= new
    BY <1>a
  <2> QED  BY <1>1, <2>1
<1> HIDE DEF new
<1>5. ASSUME pc'[t] = "claim", NEW k \in Unclaimed' PROVE held'[t].id <= k.id
  <2>1. pc[t] = "claim" /\ held'[t] = held[t] /\ Serving(t)
    BY <1>5 DEF Serving
  <2> QED  BY <2>1, <1>a, <1>b DEF InOrder
<1>6. ASSUME pc'[t] \in {"data", "copy", "serve"}, NEW k \in Unclaimed' PROVE held'[t].id < k.id
  <2>1. pc[t] \in {"data", "copy", "serve"} /\ held'[t] = held[t] /\ Serving(t)
    BY <1>6 DEF Serving
  <2> QED  BY <2>1, <1>a, <1>b DEF InOrder
<1> QED  BY <1>3, <1>4, <1>5, <1>6 DEF InOrder

LEMMA OrderInvNext == Inv /\ Inv' /\ RanInv /\ OrderInv /\ [TargetNext]_allVars => OrderInv'
<1> SUFFICES ASSUME Inv, Inv', RanInv, OrderInv, [TargetNext]_allVars, NEW u \in Target
             PROVE  InOrder(u)'
  BY DEF OrderInv
<1>0. [Next]_vars /\ InOrder(u) /\ u \in DOMAIN pc /\ u \in DOMAIN ran /\ u \in DOMAIN held
  BY ProgramStep DEF allVars, OrderInv, RanInv, TargetTypeOK, TypeOK
<1>1. CASE Driver \/ UNCHANGED allVars
  <2>1. UNCHANGED programVars /\ held' = held
    BY <1>1 DEF Driver, QueueCommand, QueueRefuse, QueueCheck, QueueAppend, QueueBusy, Expire,
       EhAbort, EhHostReset, Unregister, allVars, vars
  <2> QED  BY <1>0, <2>1, OrderKeeps DEF programVars
<1>2. ASSUME NEW t \in Target, Program(t), u # t PROVE InOrder(u)'
  <2>1. pc'[u] = pc[u] /\ ran'[u] = ran[u] /\ held'[u] = held[u]
    BY <1>0, <1>2 DEF Program, Serve, Start, Wake, ReadNothing, ReadTask, Claim, ReadData, GiveUp,
       Run, Reply, Exit, Kill, Gone, Goes, Register, Release, ReadHeader, ReceiveTask, WriteDone,
       vars
  <2> QED  BY <1>0, <2>1, OrderKeeps
<1>3. CASE Start(u) \/ Exit(u) \/ Kill(u) \/ ReadNothing(u) \/ GiveUp(u) \/ Reply(u)
  <2>1. pc'[u] \in {"down", "get", "exit"} /\ ran'[u] = ran[u]
    BY <1>0, <1>3 DEF Start, Exit, Kill, Gone, ReadNothing, GiveUp, Reply, Goes
  <2> QED  BY <1>0, <2>1, OrderKeeps
<1>4. CASE ReadTask(u)
  <2>1. PICK k \in Offered : held' = [held EXCEPT ![u] = [id |-> k.id, cmd_number |-> k.cmd_number]]
    BY <1>4 DEF ReadTask, ReadHeader
  <2>2. held'[u].id = k.id /\ k \in Unclaimed /\ \A j \in Unclaimed : k.id <= j.id
    BY <1>0, <2>1 DEF Offered, Oldest, Unclaimed
  <2>3. UNCHANGED <<queue, ran, nextId>> /\ pc'[u] = "claim"
    BY <1>0, <1>4 DEF ReadTask, ReadHeader, queueVars, allocVars, Goes
  <2> QED  BY <1>0, <2>2, <2>3 DEF InOrder, Unclaimed
<1>5. CASE Claim(u)
  <2>1. /\ pc[u] = "claim" /\ pc'[u] \in {"data", "copy", "serve"}
        /\ UNCHANGED <<ran, held, nextId>> /\ ReceiveTask(u)
    BY <1>0, <1>5 DEF Claim, Goes, ReceiveTask, allocVars
  <2>2. held[u].id \in Nat /\ \A k \in Unclaimed : k.id \in Nat
    BY <2>1 DEF RanInv, Serving, Ids, Unclaimed, Inv, QueueInv, TypeOK, Task
  <2>3. \A k \in Unclaimed' : k \in Unclaimed /\ held[u].id < k.id
    BY <1>0, <2>1, <2>2, ClaimTakes DEF InOrder
  <2> QED  BY <1>0, <2>1, <2>3 DEF InOrder
<1>6. CASE Wake(u) \/ ReadData(u)
  <2>1. /\ \/ pc'[u] = "woken"
           \/ pc[u] = "data" /\ pc'[u] = "copy"
           \/ pc[u] = "copy" /\ pc'[u] = "serve"
        /\ ran' = ran /\ held' = held
    BY <1>0, <1>6 DEF Wake, ReadData, Goes, vars
  <2> QED  BY <1>0, <2>1, OrderKeeps
<1>7. CASE Run(u)
  <2>1. /\ UNCHANGED <<held, queue, nextId>> /\ pc[u] = "serve" /\ pc'[u] = "reply"
        /\ ran'[u] = ran[u] \cup {held[u].id}
    BY <1>0, <1>7 DEF Run, Goes, vars, queueVars, allocVars
  <2>2. held[u].id <= nextId
    BY DEF Inv, TagInv, Tags
  <2> QED  BY <1>0, <2>1, <2>2 DEF InOrder, Unclaimed
<1> QED  BY <1>1, <1>2, <1>3, <1>4, <1>5, <1>6, <1>7 DEF TargetNext, Program, Serve

(* The order invariant, for the two properties that are read off it.        *)
THEOREM OrderInvariant == ASSUME FewOpens, NoWrap PROVE TargetSpec => []OrderInv
<1>1. TargetInit => OrderInv
  BY DEF TargetInit, OrderInv, InOrder
<1> QED  BY <1>1, OrderInvNext, InvAlong, RanInvariant, PTL DEF TargetSpec

(* While neither counter wraps, each target runs the issues it takes in the *)
(* order they were queued and none twice (device.c:105-108, 405).           *)
THEOREM AlwaysRunsInOrder == ASSUME FewOpens, NoWrap PROVE TargetSpec => []RunsInOrder
<1>1. OrderInv => RunsInOrder
  BY DEF OrderInv, InOrder, RunsInOrder
<1> QED  BY <1>1, OrderInvariant, PTL

(* A task that is still queued when its data is read is claimed, as all     *)
(* unclaimed ones are newer, and is found by its number: the program never  *)
(* gives up on it (main.c:184, device.c:118-134).                           *)
THEOREM OnlyGivesUpIfGone == ASSUME FewOpens, NoWrap PROVE TargetSpec => GivesUpOnlyIfGone
<1>1. ASSUME Inv, RanInv, OrderInv, NEW t \in Target, GiveUp(t), NEW k \in queue,
             k.id = held[t].id
      PROVE  FALSE
  <2>1. pc[t] = "copy" /\ DataOf(t) = {}
    BY <1>1 DEF GiveUp, Goes
  <2>2. k \in TaskOfCmd(held[t].cmd_number) /\ k \in Task /\ k.id \in Nat
    BY <1>1, NumberFinds DEF Inv, QueueInv, TypeOK, Task, Ids
  <2>3. k \notin Unclaimed
    BY <1>1, <2>1, <2>2 DEF OrderInv, InOrder
  <2>4. k.flags = "RECEIVED"
    BY <1>1, <2>2, <2>3 DEF Unclaimed, Task
  <2> QED  BY <2>1, <2>2, <2>4 DEF DataOf
<1>2. ASSUME RanInv, TargetNext, NEW t \in Target, pc[t] = "copy", pc'[t] = "exit"
      PROVE  GiveUp(t)
  <2>1. t \in DOMAIN pc
    BY <1>2 DEF RanInv, TargetTypeOK
  <2> QED  BY <1>2, <2>1 DEF TargetNext, Driver, programVars, Program, Serve, Start, Wake,
              ReadNothing, ReadTask, Claim, ReadData, GiveUp, Run, Reply, Exit, Kill, Gone, Goes
<1>3. Inv /\ RanInv /\ OrderInv /\ [TargetNext]_allVars =>
        [\A t \in Target : pc[t] = "copy" /\ pc'[t] = "exit"
                             => \A k \in queue : k.id # held[t].id]_allVars
  BY <1>1, <1>2
<1> QED  BY <1>3, InvAlong, RanInvariant, OrderInvariant, PTL DEF TargetSpec, GivesUpOnlyIfGone
-----------------------------------------------------------------------------
(* The targets that run are those whose file is attached, each counted once. *)
OpenInv == /\ registered = {t \in Target : pc[t] # "down"}
           /\ Device_Open = Cardinality(registered)

LEMMA OpenInvNext ==
  ASSUME FewOpens, Inv, RanInv, OpenInv, [TargetNext]_allVars
  PROVE  OpenInv'
<1>0. /\ pc \in [Target -> Places] /\ Device_Open \in Nat
      /\ IsFiniteSet(registered) /\ Cardinality(registered) \in Nat
  BY RegisteredFinite DEF RanInv, TargetTypeOK, Inv, QueueInv
<1>1. CASE Driver \/ UNCHANGED allVars
  <2>1. UNCHANGED <<pc, registered, Device_Open>>
    BY <1>1 DEF Driver, QueueCommand, QueueRefuse, QueueCheck, QueueAppend, QueueBusy, Expire,
       EhAbort, EhHostReset, Unregister, sessionVars, programVars, allVars, vars
  <2> QED  BY <2>1 DEF OpenInv
<1>2. ASSUME NEW t \in Target, Serve(t) PROVE OpenInv'
  <2>1. UNCHANGED <<registered, Device_Open>>
    BY <1>2 DEF Serve, Wake, ReadNothing, ReadTask, Claim, ReadData, GiveUp, Run, Reply,
       ReadHeader, ReceiveTask, WriteDone, sessionVars, vars
  <2>2. pc[t] # "down" /\ \E p \in Places \ {"down"} : pc' = [pc EXCEPT ![t] = p]
    BY <1>2 DEF Serve, Wake, ReadNothing, ReadTask, Claim, ReadData, GiveUp, Run, Reply, Goes,
       Places
  <2> QED  BY <1>0, <2>1, <2>2 DEF OpenInv
<1>3. ASSUME NEW t \in Target, Start(t) PROVE OpenInv'
  <2>1. /\ pc[t] = "down" /\ pc' = [pc EXCEPT ![t] = "get"] /\ Device_Open < MaxOpens
        /\ registered' = registered \cup {t} /\ Device_Open' = (Device_Open + 1) % OpenMod
    BY <1>3 DEF Start, Goes, Register
  <2>2. t \notin registered /\ registered' = {u \in Target : pc'[u] # "down"}
    BY <1>0, <2>1 DEF OpenInv
  <2>3. Cardinality(registered') = Cardinality(registered) + 1
    BY <1>0, <2>1, <2>2, FS_AddElement
  <2>4. Device_Open' = Device_Open + 1
    BY <1>0, <2>1, HbaAssumption DEF HbaAssumption, FewOpens
  <2> QED  BY <2>2, <2>3, <2>4 DEF OpenInv
<1>4. ASSUME NEW t \in Target, Exit(t) \/ Kill(t) PROVE OpenInv'
  <2>1. /\ t \in registered /\ pc' = [pc EXCEPT ![t] = "down"]
        /\ registered' = registered \ {t} /\ Device_Open' = (Device_Open - 1) % OpenMod
    BY <1>4 DEF Exit, Kill, Gone, Release
  <2>2. registered' = {u \in Target : pc'[u] # "down"}
    BY <1>0, <2>1 DEF OpenInv
  <2>3. IsFiniteSet(registered') /\ Cardinality(registered') = Cardinality(registered) - 1
    BY <1>0, <2>1, FS_RemoveElement
  <2>4. Device_Open - 1 \in Nat
    BY <2>3, FS_CardinalityType DEF OpenInv
  <2>5. Device_Open' = Device_Open - 1
    BY <2>1, <2>4, HbaAssumption DEF HbaAssumption, Inv, QueueInv, TypeOK
  <2> QED  BY <2>2, <2>3, <2>5 DEF OpenInv
<1> QED  BY <1>1, <1>2, <1>3, <1>4 DEF TargetNext, Program

(* The program registers each file once, so the count of opens is that of   *)
(* the targets that run, and the HBA is ready exactly while there is one    *)
(* (vscsiapi.c:26-37, device.c:378, 465-470).                               *)
THEOREM AlwaysReadyExact == ASSUME FewOpens, NoWrap PROVE TargetSpec => []ReadyExact
<1>1. TargetInit => OpenInv
  BY FS_EmptySet DEF TargetInit, Init, OpenInv
<1>2. ASSUME Inv, OpenInv PROVE ReadyExact
  <2>1. /\ Device_Open = Cardinality({t \in Target : pc[t] # "down"})
        /\ Cardinality(registered) = 0 <=> {t \in Target : pc[t] # "down"} = {}
    BY <1>2, RegisteredFinite DEF OpenInv, Inv, QueueInv
  <2>2. flags = "READY" <=> Device_Open # 0
    BY <1>2 DEF Inv, ReadyInv, ReadyWhileOpen
  <2> QED  BY <1>2, <2>1, <2>2 DEF ReadyExact, OpenInv
<1> QED  BY <1>1, <1>2, OpenInvNext, InvAlong, RanInvariant, PTL DEF TargetSpec
=============================================================================
