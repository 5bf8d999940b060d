-------------------------- MODULE TaskCacheProofs --------------------------
(***************************************************************************)
(* Proofs about the slab that the tasks of all sessions share, for any     *)
(* number of sessions, commands and slots.  The first layer says who has   *)
(* which slot; the second follows flags and results of commands whose slot *)
(* nobody has written since it was freed.                                  *)
(***************************************************************************)
EXTENDS TaskCache, TLAPS

(* A queued task is an object in use, of the one command that points to it, *)
(* which is not back with the mid layer.                                    *)
QueuedTask(s, k) == /\ slots[k].used
                    /\ slots[k].sc \in Cmd
                    /\ HostOf(slots[k].sc) = s
                    /\ ptr[slots[k].sc] = k
                    /\ mid[slots[k].sc] # "idle"

TasksOwned == \A s \in Session : \A k \in queue[s] : QueuedTask(s, k)

(* SCp.ptr is the task, or the slot of a task that is being completed. *)
PointersOwned == \A c \in Cmd : \/ ptr[c] \in queue[HostOf(c)] /\ slots[ptr[c]].sc = c
                                \/ ptr[c] = NoSlot
                                \/ section[HostOf(c)].sc = c

(* What the holder of a queue lock is at: tasks of its own session, and a   *)
(* command that has left the queue but not gone back.                       *)
Section(s) == /\ section[s].todo \subseteq queue[s]
              /\ section[s].cur = NoSlot <=> section[s].sc = NoSlot
              /\ section[s].sc # NoSlot =>
                   /\ HostOf(section[s].sc) = s
                   /\ ptr[section[s].sc] = section[s].cur
                   /\ mid[section[s].sc] # "idle"
                   /\ \A k \in queue[s] : slots[k].sc # section[s].sc

SectionsOwned == \A s \in Session : Section(s)

SlotInv == TypeOK /\ TasksOwned /\ PointersOwned /\ SectionsOwned

LEMMA HostOfType == \A c \in Cmd : HostOf(c) \in Session
BY CacheAssumption DEF CacheAssumption, HostOf, Session, Cmd

LEMMA NoSlotIsNothing == NoSlot \notin Slot /\ NoSlot \notin Cmd
BY CacheAssumption DEF CacheAssumption, Cmd

(* A free slot is in no queue; a command with the mid layer has no task. *)
LEMMA FreeIsUnqueued ==
  ASSUME SlotInv
  PROVE  /\ \A k \in Slot, s \in Session : ~slots[k].used => k \notin queue[s]
         /\ \A c \in Cmd : mid[c] = "idle" =>
              /\ \A s \in Session : section[s].sc # c /\ \A k \in queue[s] : slots[k].sc # c
              /\ ptr[c] = NoSlot
<1> USE DEF SlotInv, TasksOwned, QueuedTask
<1>1. \A k \in Slot, s \in Session : ~slots[k].used => k \notin queue[s]
  OBVIOUS
<1>2. ASSUME NEW c \in Cmd, mid[c] = "idle"
      PROVE  \A s \in Session : section[s].sc # c /\ \A k \in queue[s] : slots[k].sc # c
  BY <1>2, NoSlotIsNothing DEF SectionsOwned, Section
<1>3. ASSUME NEW c \in Cmd, mid[c] = "idle"
      PROVE  ptr[c] = NoSlot
  BY <1>2, <1>3, HostOfType DEF PointersOwned
<1> QED  BY <1>1, <1>2, <1>3

LEMMA SlotInvInit == Init => SlotInv
<1> SUFFICES ASSUME Init PROVE SlotInv
  OBVIOUS
<1>1. TypeOK
  BY DEF Init, TypeOK, TaskFlags, Free
<1>2. TasksOwned /\ PointersOwned
  BY DEF Init, TasksOwned, PointersOwned
<1>3. SectionsOwned
  BY DEF Init, SectionsOwned, Section, Free
<1> QED  BY <1>1, <1>2, <1>3 DEF SlotInv

LEMMA QueueCommandKeeps ==
  ASSUME SlotInv, NEW c \in Cmd, QueueCommand(c)
  PROVE  SlotInv'
<1> DEFINE h == HostOf(c)
<1>1. h \in Session
  BY HostOfType
<1>2. PICK k \in Slot :
        /\ mid[c] = "idle" /\ section[h] = Free /\ ~slots[k].used
        /\ slots' = [slots EXCEPT ![k] = [used |-> TRUE, flags |-> "LIVE", sc |-> c]]
        /\ hit' = (hit \ {c}) \cup LookingAt(k)
        /\ queue' = [queue EXCEPT ![h] = @ \cup {k}]
        /\ ptr' = [ptr EXCEPT ![c] = k]
        /\ res' = [res EXCEPT ![c] = "zero"]
        /\ mid' = [mid EXCEPT ![c] = "issued"]
        /\ poisons' = poisons /\ section' = section
  BY DEF QueueCommand, LockFree, scsitap_alloc_task
<1> HIDE DEF h
<1>3. /\ \A s \in Session : k \notin queue[s] /\ section[s].sc # c
      /\ \A s \in Session : \A j \in queue[s] : slots[j].sc # c
  BY <1>2, FreeIsUnqueued
<1>4. TypeOK'
  <2>1. LookingAt(k) \in SUBSET Cmd
    BY NoSlotIsNothing DEF LookingAt, SlotInv, TypeOK, SectionsOwned, Section
  <2> QED  BY <1>1, <1>2, <2>1 DEF SlotInv, TypeOK, TaskFlags
<1> USE DEF SlotInv, TypeOK
<1>5. TasksOwned'
  <2> SUFFICES ASSUME NEW s \in Session, NEW j \in queue'[s] PROVE QueuedTask(s, j)'
    BY DEF TasksOwned
  <2>1. CASE j = k
    BY <1>1, <1>2, <1>3, <2>1 DEF QueuedTask, h
  <2>2. CASE j # k
    <3>1. j \in queue[s] /\ j \in Slot /\ slots'[j] = slots[j]
      BY <1>1, <1>2, <2>2
    <3>2. QueuedTask(s, j) /\ slots[j].sc # c
      BY <1>3, <3>1 DEF TasksOwned
    <3> QED  BY <1>2, <3>1, <3>2 DEF QueuedTask
  <2> QED  BY <2>1, <2>2
<1>6. PointersOwned'
  <2> SUFFICES ASSUME NEW d \in Cmd
               PROVE  \/ ptr'[d] \in queue'[HostOf(d)] /\ slots'[ptr'[d]].sc = d
                      \/ ptr'[d] = NoSlot
                      \/ section'[HostOf(d)].sc = d
    BY DEF PointersOwned
  <2>1. CASE d = c
    BY <1>1, <1>2, <2>1 DEF h
  <2>2. CASE d # c
    <3>1. ptr'[d] = ptr[d] /\ HostOf(d) \in Session
      BY <1>2, <2>2, HostOfType
    <3> QED  BY <1>1, <1>2, <1>3, <3>1 DEF PointersOwned
  <2> QED  BY <2>1, <2>2
<1>7. SectionsOwned'
  <2> SUFFICES ASSUME NEW s \in Session PROVE Section(s)'
    BY DEF SectionsOwned
  <2>1. Section(s) /\ section[s].sc # c
    BY <1>3 DEF SectionsOwned
  <2>2. \A j \in queue'[s] : (j \in queue[s] /\ slots'[j] = slots[j]) \/ slots'[j].sc = c
    BY <1>1, <1>2, <1>3
  <2> QED  BY <1>1, <1>2, <2>1, <2>2 DEF Section
<1> QED  BY <1>4, <1>5, <1>6, <1>7
(* Taking the lock for tasks of one's own queue changes nothing that the    *)
(* slots depend on. *)
LEMMA EnterKeeps ==
  ASSUME SlotInv, NEW s \in Session, NEW op \in {"answer", "abort", "reset", "flush"},
         NEW S \in SUBSET queue[s], section[s] = Free, Enter(s, op, S),
         queue' = queue, ptr' = ptr, mid' = mid, poisons' = poisons, hit' = hit,
         slots' \in [Slot -> [used : BOOLEAN, flags : TaskFlags, sc : Cmd \cup {NoSlot}]],
         \A k \in Slot : slots'[k].used = slots[k].used /\ slots'[k].sc = slots[k].sc,
         res' \in [Cmd -> {"none", "zero", "answered", "noconnect", "timeout"}]
  PROVE  SlotInv'
<1> USE DEF SlotInv, TypeOK
<1>1. section' = [section EXCEPT ![s].op = op, ![s].todo = S]
  BY DEF Enter
<1>2. /\ section'[s].todo = S /\ section'[s].cur = NoSlot /\ section'[s].sc = NoSlot
      /\ \A r \in Session \ {s} : section'[r] = section[r]
  BY <1>1 DEF Free
<1>3. \A r \in Session : section'[r].sc = section[r].sc /\ section'[r].cur = section[r].cur
  BY <1>2 DEF Free
<1>4. TypeOK'
  <2>1. S \in SUBSET Slot
    OBVIOUS
  <2>2. section' \in [Session -> [op : {"none", "answer", "abort", "reset", "flush"},
                                  todo : SUBSET Slot, cur : Slot \cup {NoSlot},
                                  sc : Cmd \cup {NoSlot}]]
    <3> DEFINE R == [op : {"none", "answer", "abort", "reset", "flush"},
                     todo : SUBSET Slot, cur : Slot \cup {NoSlot}, sc : Cmd \cup {NoSlot}]
    <3>1. section[s] \in R
      OBVIOUS
    <3>2. [section[s] EXCEPT !.op = op, !.todo = S] \in R
      BY <2>1, <3>1
    <3> QED  BY <1>1, <3>2
  <2> QED  BY <2>2
<1>5. TasksOwned'
  BY DEF TasksOwned, QueuedTask
<1>6. PointersOwned'
  BY <1>3, HostOfType DEF PointersOwned
<1>7. SectionsOwned'
  <2> SUFFICES ASSUME NEW r \in Session PROVE Section(r)'
    BY DEF SectionsOwned
  <2>1. CASE r = s
    BY <1>2, <2>1 DEF Section
  <2>2. CASE r # s
    <3>1. section'[r] = section[r] /\ Section(r)
      BY <1>2, <2>2 DEF SectionsOwned
    <3> QED  BY <3>1 DEF Section
  <2> QED  BY <2>1, <2>2
<1> QED  BY <1>4, <1>5, <1>6, <1>7

LEMMA AnswerKeeps ==
  ASSUME SlotInv, NEW s \in Session, NEW k \in Slot, Answer(s, k)
  PROVE  SlotInv'
<1>1. slots[k].sc \in Cmd
  BY DEF SlotInv, TasksOwned, QueuedTask, Answer
<1>2. {k} \in SUBSET queue[s] /\ section[s] = Free /\ Enter(s, "answer", {k})
  BY DEF Answer, LockFree
<1>3. /\ queue' = queue /\ ptr' = ptr /\ mid' = mid /\ poisons' = poisons /\ hit' = hit
      /\ slots' = slots
      /\ res' \in [Cmd -> {"none", "zero", "answered", "noconnect", "timeout"}]
  BY <1>1 DEF Answer, SlotInv, TypeOK
<1> QED  BY <1>2, <1>3, EnterKeeps DEF SlotInv, TypeOK

LEMMA AbortTaskKeeps ==
  ASSUME SlotInv, NEW c \in Cmd, AbortTask(c)
  PROVE  SlotInv'
<1> DEFINE h == HostOf(c)
<1>1. h \in Session /\ section[h] = Free /\ Enter(h, "abort", {ptr[c]})
  BY HostOfType DEF AbortTask, LockFree
<1>2. ptr[c] \in queue[h] /\ ptr[c] \in Slot
  BY <1>1, NoSlotIsNothing DEF AbortTask, SlotInv, TypeOK, PointersOwned, Free
<1>3. /\ queue' = queue /\ ptr' = ptr /\ mid' = mid /\ poisons' = poisons /\ hit' = hit
      /\ res' = res
      /\ slots' = [slots EXCEPT ![ptr[c]].flags = "ABORTED"]
  BY DEF AbortTask, cmdVars
<1>4. /\ slots' \in [Slot -> [used : BOOLEAN, flags : TaskFlags, sc : Cmd \cup {NoSlot}]]
      /\ \A k \in Slot : slots'[k].used = slots[k].used /\ slots'[k].sc = slots[k].sc
  BY <1>2, <1>3 DEF SlotInv, TypeOK, TaskFlags
<1> HIDE DEF h
<1> QED  BY <1>1, <1>2, <1>3, <1>4, EnterKeeps DEF SlotInv, TypeOK

LEMMA ResetKeeps ==
  ASSUME SlotInv, NEW s \in Session, HostReset(s) \/ Destroy(s)
  PROVE  SlotInv'
<1>1. /\ section[s] = Free
      /\ Enter(s, "reset", queue[s]) \/ Enter(s, "flush", queue[s])
      /\ queue' = queue /\ ptr' = ptr /\ mid' = mid /\ poisons' = poisons /\ hit' = hit
      /\ slots' = slots /\ res' = res
  BY DEF HostReset, Destroy, LockFree, cmdVars
<1> QED  BY <1>1, EnterKeeps DEF SlotInv, TypeOK

LEMMA TimerKeeps ==
  ASSUME SlotInv, NEW c \in Cmd, Expire(c) \/ AbortNothing(c)
  PROVE  SlotInv'
<1> USE DEF SlotInv, TypeOK
<1>1. CASE Expire(c)
  BY <1>1 DEF Expire, TasksOwned, QueuedTask, PointersOwned, SectionsOwned, Section
<1>2. CASE AbortNothing(c)
  <2> USE <1>2 DEF AbortNothing
  <2>1. \A s \in Session : \A k \in queue[s] : slots[k].sc # c
    BY NoSlotIsNothing DEF TasksOwned, QueuedTask
  <2>2. \A s \in Session : section[s].sc # c
    BY HostOfType, NoSlotIsNothing DEF SectionsOwned, Section, LockFree, Free
  <2>3. TypeOK'
    OBVIOUS
  <2>4. TasksOwned'
    BY <2>1 DEF TasksOwned, QueuedTask
  <2>5. PointersOwned'
    BY DEF PointersOwned
  <2>6. SectionsOwned'
    BY <2>2 DEF SectionsOwned, Section
  <2> QED  BY <2>3, <2>4, <2>5, <2>6
<1> QED  BY <1>1, <1>2

(* The first half of a completion: the slot is free, the command is not back. *)
LEMMA FreeTaskKeeps ==
  ASSUME SlotInv, NEW s \in Session, FreeTask(s)
  PROVE  SlotInv'
<1> USE DEF SlotInv, TypeOK
<1>1. PICK k \in section[s].todo :
        /\ section[s].cur = NoSlot
        /\ res' = IF section[s].op = "flush" THEN [res EXCEPT ![slots[k].sc] = "noconnect"] ELSE res
        /\ queue' = [queue EXCEPT ![s] = @ \ {k}]
        /\ slots' = [slots EXCEPT ![k] = [used |-> FALSE, flags |-> FlagsOnFree(s, k),
                                          sc |-> NoSlot]]
        /\ hit' = IF poisons THEN hit \cup {slots[k].sc} ELSE hit
        /\ section' = [section EXCEPT ![s].cur = k, ![s].sc = slots[k].sc, ![s].todo = @ \ {k}]
        /\ poisons' = poisons /\ ptr' = ptr /\ mid' = mid
  BY DEF FreeTask
<1> DEFINE c == slots[k].sc
<1>2. k \in queue[s] /\ k \in Slot /\ QueuedTask(s, k)
  BY DEF SectionsOwned, Section, TasksOwned
<1>3. c \in Cmd /\ HostOf(c) = s /\ ptr[c] = k /\ mid[c] # "idle"
  BY <1>2 DEF QueuedTask
<1>4. \A r \in Session : \A j \in queue'[r] :
        /\ j \in queue[r] /\ j \in Slot /\ slots'[j] = slots[j] /\ slots[j].sc # c
        /\ QueuedTask(r, j)
  BY <1>1, <1>2, <1>3 DEF TasksOwned, QueuedTask
<1>5. /\ section'[s].cur = k /\ section'[s].sc = c /\ section'[s].todo = section[s].todo \ {k}
      /\ section'[s].op = section[s].op
      /\ \A r \in Session \ {s} : section'[r] = section[r]
  BY <1>1
<1>6. TypeOK'
  <2>1. FlagsOnFree(s, k) \in TaskFlags
    BY <1>2 DEF FlagsOnFree, TaskFlags
  <2>2. slots' \in [Slot -> [used : BOOLEAN, flags : TaskFlags, sc : Cmd \cup {NoSlot}]]
    BY <1>1, <1>2, <2>1
  <2>3. section' \in [Session -> [op : {"none", "answer", "abort", "reset", "flush"},
                                  todo : SUBSET Slot, cur : Slot \cup {NoSlot},
                                  sc : Cmd \cup {NoSlot}]]
    BY <1>1, <1>2, <1>3
  <2> QED  BY <1>1, <1>2, <1>3, <2>2, <2>3
<1> HIDE DEF c
<1>7. TasksOwned'
  BY <1>1, <1>4 DEF TasksOwned, QueuedTask
<1>8. PointersOwned'
  <2> SUFFICES ASSUME NEW d \in Cmd
               PROVE  \/ ptr'[d] \in queue'[HostOf(d)] /\ slots'[ptr'[d]].sc = d
                      \/ ptr'[d] = NoSlot
                      \/ section'[HostOf(d)].sc = d
    BY DEF PointersOwned
  <2>1. HostOf(d) \in Session /\ ptr'[d] = ptr[d]
    BY <1>1, HostOfType
  <2>2. CASE d = c
    BY <1>3, <1>5, <2>2
  <2>3. CASE d # c
    <3>1. section[s].sc = NoSlot
      BY <1>1 DEF SectionsOwned, Section
    <3>2. section[HostOf(d)].sc = d => section'[HostOf(d)].sc = d
      BY <1>5, <2>1, <3>1, NoSlotIsNothing
    <3>3. ASSUME ptr[d] \in queue[HostOf(d)], slots[ptr[d]].sc = d
          PROVE  ptr[d] \in queue'[HostOf(d)] /\ slots'[ptr[d]].sc = d
      BY <1>1, <1>2, <2>1, <2>3, <3>3 DEF c
    <3> QED  BY <2>1, <3>2, <3>3 DEF PointersOwned
  <2> QED  BY <2>2, <2>3
<1>9. SectionsOwned'
  <2> SUFFICES ASSUME NEW r \in Session PROVE Section(r)'
    BY DEF SectionsOwned
  <2>1. Section(r)
    BY DEF SectionsOwned
  <2>2. CASE r = s
    BY <1>1, <1>2, <1>3, <1>4, <1>5, <2>1, <2>2, NoSlotIsNothing DEF Section
  <2>3. CASE r # s
    <3>1. section'[r] = section[r] /\ queue'[r] = queue[r]
      BY <1>1, <1>5, <2>3
    <3> QED  BY <1>1, <1>4, <2>1, <3>1 DEF Section
  <2> QED  BY <2>2, <2>3
<1> QED  BY <1>6, <1>7, <1>8, <1>9

(* The second half: whatever the flags say, only that command goes back. *)
LEMMA FinishTaskKeeps ==
  ASSUME SlotInv, NEW s \in Session, FinishTask(s)
  PROVE  SlotInv'
<1> USE DEF SlotInv, TypeOK
<1> DEFINE c == section[s].sc
<1>1. /\ section[s].cur # NoSlot
      /\ ptr' = [ptr EXCEPT ![c] = NoSlot]
      /\ mid' \in {[mid EXCEPT ![c] = "idle"], mid}
      /\ res' \in {[res EXCEPT ![c] = "timeout"], res}
      /\ section' = [section EXCEPT ![s] = IF @.todo = {} THEN Free
                         ELSE [@ EXCEPT !.cur = NoSlot, !.sc = NoSlot]]
      /\ poisons' = poisons /\ slots' = slots /\ queue' = queue /\ hit' = hit
  <2>1. c \in Cmd
    BY DEF FinishTask, SectionsOwned, Section
  <2> QED  BY <2>1 DEF FinishTask
<1>2. c \in Cmd /\ HostOf(c) = s /\ \A k \in queue[s] : slots[k].sc # c
  BY <1>1, NoSlotIsNothing DEF SectionsOwned, Section
<1>3. \A r \in Session : \A k \in queue[r] : slots[k].sc # c
  BY <1>2 DEF TasksOwned, QueuedTask
<1>3a. PICK n : n = IF section[s].todo = {} THEN Free
                  ELSE [section[s] EXCEPT !.cur = NoSlot, !.sc = NoSlot]
  OBVIOUS
<1>3b. /\ section' = [section EXCEPT ![s] = n]
      /\ n.cur = NoSlot /\ n.sc = NoSlot /\ n.todo = section[s].todo
      /\ n \in [op : {"none", "answer", "abort", "reset", "flush"}, todo : SUBSET Slot,
                cur : Slot \cup {NoSlot}, sc : Cmd \cup {NoSlot}]
  <2>1. section[s] \in [op : {"none", "answer", "abort", "reset", "flush"}, todo : SUBSET Slot,
                        cur : Slot \cup {NoSlot}, sc : Cmd \cup {NoSlot}]
    OBVIOUS
  <2>2. section' = [section EXCEPT ![s] = n]
    BY <1>1, <1>3a
  <2>3. CASE section[s].todo = {}
    BY <1>3a, <2>2, <2>3 DEF Free
  <2>4. CASE section[s].todo # {}
    BY <1>3a, <2>1, <2>2, <2>4
  <2> QED  BY <2>3, <2>4
<1>4. /\ section'[s].cur = NoSlot /\ section'[s].sc = NoSlot
      /\ section'[s].todo = section[s].todo
      /\ \A r \in Session \ {s} : section'[r] = section[r]
  BY <1>3b
<1>5. TypeOK'
  <2>1. section' \in [Session -> [op : {"none", "answer", "abort", "reset", "flush"},
                                  todo : SUBSET Slot, cur : Slot \cup {NoSlot},
                                  sc : Cmd \cup {NoSlot}]]
    BY <1>3b
  <2> QED  BY <1>1, <1>2, <2>1
<1>6. \A d \in Cmd \ {c} : ptr'[d] = ptr[d] /\ mid'[d] = mid[d]
  BY <1>1, <1>2
<1>7. ptr'[c] = NoSlot
  BY <1>1, <1>2
<1> HIDE DEF c
<1>8. TasksOwned'
  BY <1>1, <1>3, <1>6 DEF TasksOwned, QueuedTask
<1>9. PointersOwned'
  <2> SUFFICES ASSUME NEW d \in Cmd \ {c}
               PROVE  \/ ptr'[d] \in queue'[HostOf(d)] /\ slots'[ptr'[d]].sc = d
                      \/ ptr'[d] = NoSlot
                      \/ section'[HostOf(d)].sc = d
    BY <1>7 DEF PointersOwned
  <2>1. section[HostOf(d)].sc = d => section'[HostOf(d)].sc = d
    BY <1>4, HostOfType DEF c
  <2> QED  BY <1>1, <1>6, <2>1 DEF PointersOwned
<1>10. SectionsOwned'
  <2> SUFFICES ASSUME NEW r \in Session PROVE Section(r)'
    BY DEF SectionsOwned
  <2>1. Section(r)
    BY DEF SectionsOwned
  <2>2. CASE r = s
    BY <1>1, <1>4, <2>1, <2>2 DEF Section
  <2>3. CASE r # s
    <3>1. section'[r] = section[r] /\ section[r].sc # c
      BY <1>2, <1>4, <2>1, <2>3, NoSlotIsNothing DEF Section
    <3>2. section[r].sc # NoSlot => section[r].sc \in Cmd \ {c}
      BY <3>1
    <3> QED  BY <1>1, <1>6, <2>1, <3>1, <3>2 DEF Section
  <2> QED  BY <2>2, <2>3
<1> QED  BY <1>5, <1>8, <1>9, <1>10

(* Who has which slot, for any number of sessions that share the slab: the  *)
(* inductive invariant of scsitap_task_cache. *)
THEOREM SlotInvariant == Spec => []SlotInv
<1>1. SlotInv /\ [Next]_vars => SlotInv'
  <2> SUFFICES ASSUME SlotInv, [Next]_vars PROVE SlotInv'
    OBVIOUS
  <2>1. CASE \E c \in Cmd : QueueCommand(c) \/ Expire(c) \/ AbortTask(c) \/ AbortNothing(c)
    BY <2>1, QueueCommandKeeps, TimerKeeps, AbortTaskKeeps
  <2>2. CASE \E s \in Session : \/ HostReset(s) \/ Destroy(s)
                                \/ FreeTask(s) \/ FinishTask(s)
                                \/ \E k \in Slot : Answer(s, k)
    BY <2>2, ResetKeeps, FreeTaskKeeps, FinishTaskKeeps, AnswerKeeps
  <2>3. CASE UNCHANGED vars
    BY <2>3 DEF vars, cmdVars, SlotInv, TypeOK, TasksOwned, QueuedTask, PointersOwned,
       SectionsOwned, Section
  <2> QED  BY <2>1, <2>2, <2>3 DEF Next
<1> QED  BY <1>1, SlotInvInit, PTL DEF Spec

(* A slot is one task of one session, of the command whose SCp.ptr it is    *)
(* (hba.c:177-180): an abort never frees another session's task. *)
THEOREM SlotsAlwaysApart == Spec => []SlotsApart
<1>1. SlotInv => SlotsApart
  BY DEF SlotInv, SlotsApart, TasksOwned, QueuedTask, PointersOwned
<1> QED  BY <1>1, SlotInvariant, PTL

(* No command is completed that the mid layer already has back (hba.c:181). *)
THEOREM CommandNeverDoneTwice == Spec => []NeverDoneTwice
<1>1. SlotInv => NeverDoneTwice
  BY FreeIsUnqueued DEF NeverDoneTwice
<1> QED  BY <1>1, SlotInvariant, PTL
-----------------------------------------------------------------------------
(* A task is marked only while it is being aborted, and its command has no  *)
(* result before somebody answers it.                                       *)
LiveTask(s, k) ==
  LET c == slots[k].sc
      now == IF k \in section[s].todo THEN section[s].op ELSE "none"
  IN  /\ now = "abort" <=> slots[k].flags = "ABORTED"
      /\ now = "abort" => mid[c] = "expired"
      /\ res[c] = IF now = "answer" THEN "answered" ELSE "zero"

(* The freed task of a command that is not hit is as it was left. *)
FreedTask(s) ==
  LET c == section[s].sc
      op == section[s].op
  IN  c \in Cmd \ hit =>
        /\ ~slots[section[s].cur].used
        /\ op \in {"reset", "abort"} <=> slots[section[s].cur].flags = "ABORTED"
        /\ op = "abort" => mid[c] = "expired"
        /\ res[c] = CASE op = "answer" -> "answered"
                      [] op = "flush"  -> "noconnect"
                      [] OTHER         -> "zero"

LiveTasks == \A s \in Session : \A k \in queue[s] : LiveTask(s, k)
FreedTasks == \A s \in Session : FreedTask(s)

(* Who holds the lock is at something. *)
OpExact == \A s \in Session : section[s].op = "none" => section[s] = Free

FlagsInv == LiveTasks /\ FreedTasks /\ OpExact /\ DoneUnlessAborted

LEMMA FlagsInvInit == Init => FlagsInv
BY NoSlotIsNothing DEF Init, FlagsInv, LiveTasks, FreedTasks, OpExact, DoneUnlessAborted,
   FreedTask, Free

(* Distinct tasks, queued or being completed, are of distinct commands. *)
LEMMA CommandsApart ==
  ASSUME SlotInv
  PROVE  /\ \A r, s \in Session : \A j \in queue[r], k \in queue[s] :
              slots[j].sc = slots[k].sc => j = k
         /\ \A r, s \in Session : \A k \in queue[r] : section[s].sc # slots[k].sc
         /\ \A r, s \in Session : r # s /\ section[r].sc = section[s].sc => section[r].sc = NoSlot
         /\ \A c \in Cmd : ptr[c] = NoSlot =>
              \A s \in Session : section[s].sc # c /\ \A k \in queue[s] : slots[k].sc # c
<1> USE DEF SlotInv, TypeOK
<1>1. \A r \in Session : \A k \in queue[r] : QueuedTask(r, k) /\ k \in Slot
  BY DEF TasksOwned
<1>2. \A s \in Session : Section(s)
  BY DEF SectionsOwned
<1>3. \A r, s \in Session : \A j \in queue[r], k \in queue[s] : slots[j].sc = slots[k].sc => j = k
  BY <1>1 DEF QueuedTask
<1>4. \A r, s \in Session : \A k \in queue[r] : section[s].sc # slots[k].sc
  BY <1>1, <1>2, NoSlotIsNothing DEF QueuedTask, Section
<1>5. \A r, s \in Session : r # s /\ section[r].sc = section[s].sc => section[r].sc = NoSlot
  BY <1>2 DEF Section
<1>6. ASSUME NEW c \in Cmd, ptr[c] = NoSlot
      PROVE  \A s \in Session : section[s].sc # c /\ \A k \in queue[s] : slots[k].sc # c
  BY <1>1, <1>2, <1>6, NoSlotIsNothing DEF QueuedTask, Section
<1> QED  BY <1>3, <1>4, <1>5, <1>6

LEMMA QueueCommandFlags ==
  ASSUME SlotInv, FlagsInv, NEW c \in Cmd, QueueCommand(c)
  PROVE  FlagsInv'
<1> DEFINE h == HostOf(c)
<1> USE DEF SlotInv, TypeOK
<1>1. h \in Session
  BY HostOfType
<1>2. PICK k \in Slot :
        /\ mid[c] = "idle" /\ section[h] = Free /\ ~slots[k].used
        /\ slots' = [slots EXCEPT ![k] = [used |-> TRUE, flags |-> "LIVE", sc |-> c]]
        /\ hit' = (hit \ {c}) \cup LookingAt(k)
        /\ queue' = [queue EXCEPT ![h] = @ \cup {k}]
        /\ ptr' = [ptr EXCEPT ![c] = k]
        /\ res' = [res EXCEPT ![c] = "zero"]
        /\ mid' = [mid EXCEPT ![c] = "issued"]
        /\ section' = section
  BY DEF QueueCommand, LockFree, scsitap_alloc_task
<1> HIDE DEF h
<1>3. /\ \A s \in Session : k \notin queue[s] /\ section[s].sc # c
      /\ \A s \in Session : \A j \in queue[s] : slots[j].sc # c
  BY <1>2, FreeIsUnqueued
<1>4. LiveTasks'
  <2> SUFFICES ASSUME NEW s \in Session, NEW j \in queue'[s] PROVE LiveTask(s, j)'
    BY DEF LiveTasks
  <2>1. CASE j = k
    <3>1. k \notin section[s].todo
      BY <1>3 DEF SectionsOwned, Section
    <3>2. slots'[j].sc = c /\ slots'[j].flags = "LIVE" /\ res'[c] = "zero"
      BY <1>2, <2>1
    <3> QED  BY <1>2, <2>1, <3>1, <3>2 DEF LiveTask
  <2>2. CASE j # k
    <3>1. j \in queue[s] /\ j \in Slot /\ slots'[j] = slots[j] /\ LiveTask(s, j)
      BY <1>1, <1>2, <2>2 DEF FlagsInv, LiveTasks
    <3>2. slots[j].sc \in Cmd \ {c}
      BY <1>3, <3>1 DEF TasksOwned, QueuedTask
    <3> QED  BY <1>2, <3>1, <3>2 DEF LiveTask
  <2> QED  BY <2>1, <2>2
<1>5. FreedTasks'
  <2> SUFFICES ASSUME NEW s \in Session, section[s].sc \in Cmd \ hit' PROVE FreedTask(s)'
    BY <1>2 DEF FreedTasks, FreedTask
  <2>1. section[s].cur # k /\ section[s].sc \in Cmd \ hit /\ section[s].sc # c
    BY <1>2, <1>3 DEF LookingAt
  <2>2. FreedTask(s)
    BY DEF FlagsInv, FreedTasks
  <2>3. section[s].cur \in Slot
    BY NoSlotIsNothing, <2>1 DEF SectionsOwned, Section
  <2> QED  BY <1>2, <2>1, <2>2, <2>3 DEF FreedTask
<1>6. OpExact'
  BY <1>2 DEF FlagsInv, OpExact
<1>7. DoneUnlessAborted'
  BY <1>2, NoSlotIsNothing DEF FlagsInv, DoneUnlessAborted
<1> QED  BY <1>4, <1>5, <1>6, <1>7 DEF FlagsInv

LEMMA AnswerFlags ==
  ASSUME SlotInv, FlagsInv, NEW s \in Session, NEW k \in Slot, Answer(s, k)
  PROVE  FlagsInv'
<1> USE DEF SlotInv, TypeOK
<1> DEFINE c == slots[k].sc
<1>1. /\ section[s] = Free /\ k \in queue[s]
      /\ res' = [res EXCEPT ![c] = "answered"]
      /\ section' = [section EXCEPT ![s].op = "answer", ![s].todo = {k}]
      /\ slots' = slots /\ queue' = queue /\ ptr' = ptr /\ mid' = mid /\ hit' = hit
  BY DEF Answer, LockFree, Enter
<1>2. c \in Cmd /\ ptr[c] = k /\ mid[c] # "idle"
  BY <1>1 DEF TasksOwned, QueuedTask
<1>3. /\ section'[s].op = "answer" /\ section'[s].todo = {k} /\ section'[s].sc = NoSlot
      /\ \A r \in Session \ {s} : section'[r] = section[r]
  BY <1>1 DEF Free
<1>4. LiveTasks'
  <2> SUFFICES ASSUME NEW r \in Session, NEW j \in queue[r] PROVE LiveTask(r, j)'
    BY <1>1 DEF LiveTasks
  <2>1. LiveTask(r, j) /\ slots[j].sc \in Cmd
    BY DEF FlagsInv, LiveTasks, TasksOwned, QueuedTask
  <2>2. CASE j = k
    <3>1. r = s
      BY <1>1, <2>2 DEF TasksOwned, QueuedTask
    <3> QED  BY <1>1, <1>2, <1>3, <2>1, <2>2, <3>1 DEF LiveTask, Free
  <2>3. CASE j # k
    <3>1. slots[j].sc # c
      BY <1>1, <2>3, CommandsApart
    <3>2. res'[slots[j].sc] = res[slots[j].sc]
      BY <1>1, <2>1, <3>1
    <3>3. \/ r # s /\ section'[r] = section[r]
          \/ r = s /\ j \notin section'[r].todo /\ j \notin section[r].todo
      BY <1>1, <1>3, <2>3 DEF Free
    <3> QED  BY <1>1, <2>1, <3>2, <3>3 DEF LiveTask
  <2> QED  BY <2>2, <2>3
<1>5. FreedTasks'
  <2> SUFFICES ASSUME NEW r \in Session, section'[r].sc \in Cmd \ hit PROVE FreedTask(r)'
    BY <1>1 DEF FreedTasks, FreedTask
  <2>1. r # s /\ section'[r] = section[r] /\ FreedTask(r)
    BY <1>3, NoSlotIsNothing DEF FlagsInv, FreedTasks
  <2>2. section[r].sc # c
    BY <1>1, CommandsApart
  <2> QED  BY <1>1, <2>1, <2>2 DEF FreedTask
<1>6. OpExact'
  BY <1>3 DEF FlagsInv, OpExact
<1>7. DoneUnlessAborted'
  BY <1>1, <1>2, NoSlotIsNothing DEF FlagsInv, DoneUnlessAborted
<1> QED  BY <1>4, <1>5, <1>6, <1>7 DEF FlagsInv

LEMMA AbortTaskFlags ==
  ASSUME SlotInv, FlagsInv, NEW c \in Cmd, AbortTask(c)
  PROVE  FlagsInv'
<1> USE DEF SlotInv, TypeOK
<1> DEFINE s == HostOf(c)
           k == ptr[c]
<1>1. /\ section[s] = Free /\ mid[c] = "expired" /\ k # NoSlot
      /\ slots' = [slots EXCEPT ![k].flags = "ABORTED"]
      /\ section' = [section EXCEPT ![s].op = "abort", ![s].todo = {k}]
      /\ queue' = queue /\ ptr' = ptr /\ mid' = mid /\ hit' = hit /\ res' = res
  BY DEF AbortTask, LockFree, Enter, cmdVars
<1>2. s \in Session
  BY HostOfType
<1>3. k \in queue[s] /\ k \in Slot /\ slots[k].sc = c /\ slots[k].used
  BY <1>1, <1>2, NoSlotIsNothing DEF PointersOwned, TasksOwned, QueuedTask, Free
<1>4. /\ section'[s].op = "abort" /\ section'[s].todo = {k} /\ section'[s].sc = NoSlot
      /\ \A r \in Session \ {s} : section'[r] = section[r]
  BY <1>1, <1>2 DEF Free
<1>5. /\ slots'[k].sc = c /\ slots'[k].flags = "ABORTED"
      /\ \A j \in Slot \ {k} : slots'[j] = slots[j]
  BY <1>1, <1>3
<1> HIDE DEF s, k
<1>6. LiveTasks'
  <2> SUFFICES ASSUME NEW r \in Session, NEW j \in queue[r] PROVE LiveTask(r, j)'
    BY <1>1 DEF LiveTasks
  <2>1. LiveTask(r, j)
    BY DEF FlagsInv, LiveTasks
  <2>2. CASE j = k
    <3>1. r = s
      BY <1>2, <1>3, <2>2 DEF TasksOwned, QueuedTask
    <3> QED  BY <1>1, <1>3, <1>4, <1>5, <2>1, <2>2, <3>1 DEF LiveTask, Free
  <2>3. CASE j # k
    <3>1. \/ r # s /\ section'[r] = section[r]
          \/ r = s /\ j \notin section'[r].todo /\ j \notin section[r].todo
      BY <1>1, <1>4, <2>3 DEF Free
    <3>2. slots'[j] = slots[j]
      BY <1>5, <2>3
    <3> QED  BY <1>1, <2>1, <3>1, <3>2 DEF LiveTask
  <2> QED  BY <2>2, <2>3
<1>7. FreedTasks'
  <2> SUFFICES ASSUME NEW r \in Session, section'[r].sc \in Cmd \ hit PROVE FreedTask(r)'
    BY <1>1 DEF FreedTasks, FreedTask
  <2>1. r # s /\ section'[r] = section[r] /\ FreedTask(r)
    BY <1>4, NoSlotIsNothing DEF FlagsInv, FreedTasks
  <2>2. section[r].cur \in Slot \ {k}
    BY <1>3, <2>1, NoSlotIsNothing DEF FreedTask, SectionsOwned, Section
  <2> QED  BY <1>1, <1>5, <2>1, <2>2 DEF FreedTask
<1>8. OpExact'
  BY <1>4 DEF FlagsInv, OpExact
<1>9. DoneUnlessAborted'
  BY <1>1 DEF FlagsInv, DoneUnlessAborted
<1> QED  BY <1>6, <1>7, <1>8, <1>9 DEF FlagsInv

LEMMA ResetFlags ==
  ASSUME SlotInv, FlagsInv, NEW s \in Session, HostReset(s) \/ Destroy(s)
  PROVE  FlagsInv'
<1> USE DEF SlotInv, TypeOK
<1>1. PICK op \in {"reset", "flush"} :
        /\ section[s] = Free
        /\ section' = [section EXCEPT ![s].op = op, ![s].todo = queue[s]]
        /\ slots' = slots /\ queue' = queue /\ ptr' = ptr /\ mid' = mid /\ hit' = hit /\ res' = res
  BY DEF HostReset, Destroy, LockFree, Enter, cmdVars
<1>2. /\ section'[s].op = op /\ section'[s].todo = queue[s] /\ section'[s].sc = NoSlot
      /\ \A r \in Session \ {s} : section'[r] = section[r]
  BY <1>1 DEF Free
<1>3. LiveTasks'
  <2> SUFFICES ASSUME NEW r \in Session, NEW j \in queue[r] PROVE LiveTask(r, j)'
    BY <1>1 DEF LiveTasks
  <2>1. LiveTask(r, j)
    BY DEF FlagsInv, LiveTasks
  <2> QED  BY <1>1, <1>2, <2>1 DEF LiveTask, Free
<1>4. FreedTasks'
  BY <1>1, <1>2, NoSlotIsNothing DEF FlagsInv, FreedTasks, FreedTask
<1>5. OpExact' /\ DoneUnlessAborted'
  BY <1>1, <1>2 DEF FlagsInv, OpExact, DoneUnlessAborted
<1> QED  BY <1>3, <1>4, <1>5 DEF FlagsInv

LEMMA TimerFlags ==
  ASSUME SlotInv, FlagsInv, NEW c \in Cmd, Expire(c) \/ AbortNothing(c)
  PROVE  FlagsInv'
<1> USE DEF SlotInv, TypeOK, FlagsInv
<1>1. CASE Expire(c)
  <2> USE <1>1 DEF Expire
  <2>1. LiveTasks'
    BY DEF LiveTasks, LiveTask, TasksOwned, QueuedTask
  <2>2. FreedTasks'
    BY DEF FreedTasks, FreedTask
  <2> QED  BY <2>1, <2>2 DEF OpExact, DoneUnlessAborted
<1>2. CASE AbortNothing(c)
  <2> USE <1>2 DEF AbortNothing
  <2>1. \A s \in Session : section[s].sc # c /\ \A k \in queue[s] : slots[k].sc # c
    BY CommandsApart
  <2>2. LiveTasks'
    BY <2>1 DEF LiveTasks, LiveTask, TasksOwned, QueuedTask
  <2>3. FreedTasks'
    BY <2>1 DEF FreedTasks, FreedTask
  <2> QED  BY <2>2, <2>3 DEF OpExact, DoneUnlessAborted
<1> QED  BY <1>1, <1>2

LEMMA FreeTaskFlags ==
  ASSUME SlotInv, FlagsInv, NEW s \in Session, FreeTask(s)
  PROVE  FlagsInv'
<1> USE DEF SlotInv, TypeOK
<1>1. PICK k \in section[s].todo :
        /\ section[s].cur = NoSlot
        /\ res' = IF section[s].op = "flush" THEN [res EXCEPT ![slots[k].sc] = "noconnect"] ELSE res
        /\ queue' = [queue EXCEPT ![s] = @ \ {k}]
        /\ slots' = [slots EXCEPT ![k] = [used |-> FALSE, flags |-> FlagsOnFree(s, k),
                                          sc |-> NoSlot]]
        /\ hit' = IF poisons THEN hit \cup {slots[k].sc} ELSE hit
        /\ section' = [section EXCEPT ![s].cur = k, ![s].sc = slots[k].sc, ![s].todo = @ \ {k}]
        /\ ptr' = ptr /\ mid' = mid
  BY DEF FreeTask
<1> DEFINE c == slots[k].sc
<1>2. k \in queue[s] /\ k \in Slot /\ QueuedTask(s, k) /\ LiveTask(s, k)
  BY DEF SectionsOwned, Section, TasksOwned, FlagsInv, LiveTasks
<1>3. c \in Cmd /\ ptr[c] = k /\ mid[c] # "idle" /\ slots[k].used
  BY <1>2 DEF QueuedTask
<1>4. /\ section'[s].cur = k /\ section'[s].sc = c /\ section'[s].todo = section[s].todo \ {k}
      /\ section'[s].op = section[s].op
      /\ \A r \in Session \ {s} : section'[r] = section[r]
  BY <1>1
<1>5. /\ ~slots'[k].used /\ slots'[k].flags = FlagsOnFree(s, k)
      /\ \A j \in Slot \ {k} : slots'[j] = slots[j]
  BY <1>1, <1>2
<1>6. \A d \in Cmd \ {c} : res'[d] = res[d]
  BY <1>1, <1>3
<1>7. section[s].op \in {"answer", "abort", "reset", "flush"}
  BY DEF FlagsInv, OpExact, Free
<1> HIDE DEF c
<1>8. LiveTasks'
  <2> SUFFICES ASSUME NEW r \in Session, NEW j \in queue'[r] PROVE LiveTask(r, j)'
    BY DEF LiveTasks
  <2>1. j \in queue[r] /\ j # k
    BY <1>1, <1>2 DEF TasksOwned, QueuedTask
  <2>2. slots[j].sc \in Cmd \ {c} /\ slots'[j] = slots[j]
    BY <1>2, <1>5, <2>1, CommandsApart DEF TasksOwned, QueuedTask, c
  <2>3. /\ section'[r].op = section[r].op
        /\ j \in section'[r].todo <=> j \in section[r].todo
    BY <1>4, <2>1
  <2> QED  BY <1>1, <1>6, <2>1, <2>2, <2>3 DEF LiveTask, FlagsInv, LiveTasks
<1>9. FreedTasks'
  <2> SUFFICES ASSUME NEW r \in Session, section'[r].sc \in Cmd \ hit' PROVE FreedTask(r)'
    BY DEF FreedTasks, FreedTask
  <2>1. CASE r = s
    <3>1. ~poisons
      BY <1>1, <1>3, <1>4, <2>1 DEF c
    <3>2. slots'[k].flags = IF section[s].op = "reset" THEN "ABORTED" ELSE slots[k].flags
      BY <1>5, <3>1 DEF FlagsOnFree
    <3>3. res'[c] = IF section[s].op = "flush" THEN "noconnect" ELSE res[c]
      BY <1>1, <1>3 DEF c
    <3> QED  BY <1>1, <1>2, <1>4, <1>5, <1>7, <2>1, <3>2, <3>3 DEF FreedTask, LiveTask, c
  <2>2. CASE r # s
    <3>1. section'[r] = section[r] /\ section[r].sc \in Cmd \ hit /\ section[r].sc # c
      BY <1>1, <1>2, <1>4, <2>2, CommandsApart DEF c
    <3>2. FreedTask(r) /\ section[r].cur \in Slot \ {k}
      BY <1>3, <3>1, NoSlotIsNothing DEF FlagsInv, FreedTasks, FreedTask, SectionsOwned, Section
    <3> QED  BY <1>1, <1>5, <1>6, <3>1, <3>2 DEF FreedTask
  <2> QED  BY <2>1, <2>2
<1>10. OpExact'
  BY <1>4, <1>7 DEF FlagsInv, OpExact
<1>11. DoneUnlessAborted'
  BY <1>1, <1>2, <1>3, <1>6, NoSlotIsNothing DEF FlagsInv, DoneUnlessAborted
<1> QED  BY <1>8, <1>9, <1>10, <1>11 DEF FlagsInv

LEMMA FinishTaskFlags ==
  ASSUME SlotInv, FlagsInv, NEW s \in Session, FinishTask(s)
  PROVE  FlagsInv'
<1> USE DEF SlotInv, TypeOK
<1> DEFINE c == section[s].sc
           op == section[s].op
           done == Done(s) /\ mid[c] = "issued"
<1>1. /\ section[s].cur # NoSlot
      /\ ptr' = [ptr EXCEPT ![c] = NoSlot]
      /\ mid' = [mid EXCEPT ![c] = IF op = "abort" \/ done THEN "idle" ELSE @]
      /\ res' = [res EXCEPT ![c] = IF op = "abort" THEN "timeout" ELSE @]
      /\ section' = [section EXCEPT ![s] = IF @.todo = {} THEN Free
                         ELSE [@ EXCEPT !.cur = NoSlot, !.sc = NoSlot]]
      /\ slots' = slots /\ queue' = queue /\ hit' = hit
  BY DEF FinishTask
<1>2. c \in Cmd
  BY <1>1, NoSlotIsNothing DEF SectionsOwned, Section
<1>3. /\ section'[s].sc = NoSlot /\ section'[s].todo = section[s].todo
      /\ section[s].todo # {} => section'[s].op = op
      /\ section[s].todo = {} => section'[s] = Free
      /\ \A r \in Session \ {s} : section'[r] = section[r]
  <2>1. PICK n : n = IF section[s].todo = {} THEN Free
                     ELSE [section[s] EXCEPT !.cur = NoSlot, !.sc = NoSlot]
    OBVIOUS
  <2>2. section'[s] = n /\ \A r \in Session \ {s} : section'[r] = section[r]
    BY <1>1, <2>1
  <2>3. /\ n.sc = NoSlot /\ n.todo = section[s].todo
        /\ section[s].todo # {} => n.op = op
        /\ section[s].todo = {} => n = Free
    BY <2>1 DEF Free
  <2> QED  BY <2>2, <2>3
<1>4. \A d \in Cmd \ {c} : ptr'[d] = ptr[d] /\ mid'[d] = mid[d] /\ res'[d] = res[d]
  BY <1>1, <1>2
<1>5. LiveTasks'
  <2> SUFFICES ASSUME NEW r \in Session, NEW j \in queue[r] PROVE LiveTask(r, j)'
    BY <1>1 DEF LiveTasks
  <2>1. LiveTask(r, j) /\ slots[j].sc \in Cmd \ {c}
    BY CommandsApart DEF FlagsInv, LiveTasks, TasksOwned, QueuedTask
  <2>2. /\ j \in section'[r].todo <=> j \in section[r].todo
        /\ j \in section[r].todo => section'[r].op = section[r].op
    BY <1>3
  <2> QED  BY <1>1, <1>4, <2>1, <2>2 DEF LiveTask
<1>6. FreedTasks'
  <2> SUFFICES ASSUME NEW r \in Session, section'[r].sc \in Cmd \ hit PROVE FreedTask(r)'
    BY <1>1 DEF FreedTasks, FreedTask
  <2>1. r # s /\ section'[r] = section[r] /\ FreedTask(r)
    BY <1>3, NoSlotIsNothing DEF FlagsInv, FreedTasks
  <2>2. section[r].sc \in Cmd \ {c}
    BY <2>1, NoSlotIsNothing, CommandsApart
  <2> QED  BY <1>1, <1>4, <2>1, <2>2 DEF FreedTask
<1>7. OpExact'
  <2>1. op # "none"
    BY <1>1 DEF FlagsInv, OpExact, Free
  <2> QED  BY <1>3, <2>1 DEF FlagsInv, OpExact
<1>8. DoneUnlessAborted'
  <2>1. ASSUME NEW d \in Cmd \ hit
        PROVE  /\ mid'[d] = "idle" => res'[d] # "zero"
               /\ mid'[d] = "issued" /\ ptr'[d] = NoSlot => res'[d] = "zero"
    <3>1. CASE d # c
      BY <1>4, <3>1 DEF FlagsInv, DoneUnlessAborted
    <3>2. CASE d = c
      <4>1. /\ mid'[c] = IF op = "abort" \/ done THEN "idle" ELSE mid[c]
            /\ res'[c] = IF op = "abort" THEN "timeout" ELSE res[c]
        BY <1>1, <1>2
      <4>2. mid[c] # "idle"
        BY <1>2, NoSlotIsNothing DEF SectionsOwned, Section
      <4>3. FreedTask(s)
        BY DEF FlagsInv, FreedTasks
      <4>4. op \in {"answer", "abort", "reset", "flush"}
        BY <1>1 DEF FlagsInv, OpExact, Free
      <4> QED  BY <3>2, <4>1, <4>2, <4>3, <4>4, <2>1 DEF FreedTask, Done
    <3> QED  BY <3>1, <3>2
  <2> QED  BY <1>1, <2>1 DEF DoneUnlessAborted
<1> QED  BY <1>5, <1>6, <1>7, <1>8 DEF FlagsInv

(* Flags and results of all tasks in the slab, those just freed included. *)
THEOREM FlagsInvariant == Spec => []FlagsInv
<1>1. SlotInv /\ FlagsInv /\ [Next]_vars => FlagsInv'
  <2> SUFFICES ASSUME SlotInv, FlagsInv, [Next]_vars PROVE FlagsInv'
    OBVIOUS
  <2>1. CASE \E c \in Cmd : QueueCommand(c) \/ Expire(c) \/ AbortTask(c) \/ AbortNothing(c)
    BY <2>1, QueueCommandFlags, TimerFlags, AbortTaskFlags
  <2>2. CASE \E s \in Session : \/ HostReset(s) \/ Destroy(s)
                                \/ FreeTask(s) \/ FinishTask(s)
                                \/ \E k \in Slot : Answer(s, k)
    BY <2>2, ResetFlags, FreeTaskFlags, FinishTaskFlags, AnswerFlags
  <2>3. CASE UNCHANGED vars
    BY <2>3 DEF vars, cmdVars, FlagsInv, LiveTasks, LiveTask, FreedTasks, FreedTask, OpExact,
       DoneUnlessAborted
  <2> QED  BY <2>1, <2>2, <2>3 DEF Next
<1> QED  BY <1>1, FlagsInvInit, SlotInvariant, PTL DEF Spec

(* The flags that scsitap_complete_task reads after it has freed the task   *)
(* (hba.c:177-181) decide rightly for every command whose slot nobody wrote *)
(* in between: an answer does not vanish and no command without a result    *)
(* goes back. *)
THEOREM AlwaysDoneUnlessAborted == Spec => []DoneUnlessAborted
<1>1. FlagsInv => DoneUnlessAborted
  BY DEF FlagsInv
<1> QED  BY <1>1, FlagsInvariant, PTL
=============================================================================
