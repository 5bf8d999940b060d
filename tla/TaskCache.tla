----------------------------- MODULE TaskCache -----------------------------
(***************************************************************************)
(* scsitap_task_cache, the slab that the tasks of all sessions come from,  *)
(* and scsitap_complete_task (kernel/hba.c), which frees a task and reads  *)
(* its flags afterwards.  Each session has a queue lock of its own, so     *)
(* that another session may be given the slot in between.                  *)
(*                                                                         *)
(* A completion is two steps of the section that holds the session's queue *)
(* lock: the task is unlinked and freed, then its flags are looked at.     *)
(***************************************************************************)
EXTENDS Integers, FiniteSets

CONSTANTS Hosts,      \* how many HBAs, each with its own scsitap_queue_lock
          Cmds,       \* how many commands the mid layer has for them
          Slot,       \* the objects of the slab
          NoSlot      \* NULL

ASSUME CacheAssumption == /\ NoSlot \notin Slot \cup Nat
                          /\ IsFiniteSet(Slot)
                          /\ Hosts \in Nat \ {0} /\ Cmds \in Nat

Session == 1..Hosts
Cmd == 1..Cmds

(* The HBA that a command is for: the commands are dealt out in turn. *)
HostOf(c) == ((c - 1) % Hosts) + 1

VARIABLES
  poisons,   \* whether this kernel overwrites objects that are freed
  slots,     \* slots[k]: in use or not, and the fields of the task in it
  queue,     \* queue[s]: the tasks in the scsitap_queue of s
  section,   \* section[s]: what the holder of the queue lock of s is at
  ptr,       \* ptr[c]: the task in c's SCp.ptr
  res,       \* res[c]: sc->result, "zero" until somebody sets it, and in the
             \* end what the mid layer took for c
  mid,       \* mid[c]: where c is, as the mid layer sees it (external)
  hit        \* the commands whose task was overwritten before its flags were read

cmdVars == <<ptr, res, mid>>
vars == <<poisons, slots, queue, section, cmdVars, hit>>

(* flags: ABORTED, or one of the values that let scsi_done be called.       *)
TaskFlags == {"LIVE", "ABORTED", "POISON"}
Free == [op |-> "none", todo |-> {}, cur |-> NoSlot, sc |-> NoSlot]

TypeOK ==
  /\ poisons \in BOOLEAN
  /\ slots \in [Slot -> [used : BOOLEAN, flags : TaskFlags, sc : Cmd \cup {NoSlot}]]
  /\ queue \in [Session -> SUBSET Slot]
  /\ section \in [Session -> [op : {"none", "answer", "abort", "reset", "flush"},
                              todo : SUBSET Slot, cur : Slot \cup {NoSlot},
                              sc : Cmd \cup {NoSlot}]]
  /\ ptr \in [Cmd -> Slot \cup {NoSlot}]
  /\ res \in [Cmd -> {"none", "zero", "answered", "noconnect", "timeout"}]
  /\ mid \in [Cmd -> {"idle", "issued", "expired"}]
  /\ hit \in SUBSET Cmd

Init == /\ poisons \in BOOLEAN
        /\ slots = [k \in Slot |-> [used |-> FALSE, flags |-> "POISON", sc |-> NoSlot]]
        /\ queue = [s \in Session |-> {}]
        /\ section = [s \in Session |-> Free]
        /\ ptr = [c \in Cmd |-> NoSlot]
        /\ res = [c \in Cmd |-> "none"]
        /\ mid = [c \in Cmd |-> "idle"]
        /\ hit = {}
-----------------------------------------------------------------------------
LockFree(s) == section[s] = Free

Enter(s, op, S) == section' = [section EXCEPT ![s].op = op, ![s].todo = S]

(* The commands whose freed task is still to be looked at in slot k. *)
LookingAt(k) == {section[s].sc : s \in {r \in Session : section[r].cur = k}}

(* kmem_cache_alloc hands out any slot that is not in use. *)
scsitap_alloc_task(k, c) ==
  /\ ~slots[k].used
  /\ slots' = [slots EXCEPT ![k] = [used |-> TRUE, flags |-> "LIVE", sc |-> c]]
  /\ hit' = (hit \ {c}) \cup LookingAt(k)

(* scsitap_queuecommand on a session that is ready.  Without a free slot,   *)
(* or when the allocation fails, the command stays with the mid layer.      *)
QueueCommand(c) == \E k \in Slot :
  LET s == HostOf(c) IN
  /\ mid[c] = "idle" /\ LockFree(s)
  /\ scsitap_alloc_task(k, c)
  /\ queue' = [queue EXCEPT ![s] = @ \cup {k}]
  /\ ptr' = [ptr EXCEPT ![c] = k]
  /\ res' = [res EXCEPT ![c] = "zero"]
  /\ mid' = [mid EXCEPT ![c] = "issued"]
  /\ UNCHANGED <<poisons, section>>

Expire(c) == /\ mid[c] = "issued"
             /\ mid' = [mid EXCEPT ![c] = "expired"]
             /\ UNCHANGED <<poisons, slots, queue, section, ptr, res, hit>>
-----------------------------------------------------------------------------
(* The paths that complete tasks, up to their calls of complete_task *)

(* scsitap_ctl_write: a target answers a queued task. *)
Answer(s, k) == /\ LockFree(s) /\ k \in queue[s]
                /\ res' = [res EXCEPT ![slots[k].sc] = "answered"]
                /\ Enter(s, "answer", {k})
                /\ UNCHANGED <<poisons, slots, queue, ptr, mid, hit>>

(* scsitap_eh_abort finds a task in SCp.ptr. *)
AbortTask(c) == /\ mid[c] = "expired" /\ LockFree(HostOf(c)) /\ ptr[c] # NoSlot
                /\ slots' = [slots EXCEPT ![ptr[c]].flags = "ABORTED"]
                /\ Enter(HostOf(c), "abort", {ptr[c]})
                /\ UNCHANGED <<poisons, queue, cmdVars, hit>>

(* Mutation of AbortNothing: without a task the abort handler fails, and    *)
(* recovery keeps the command.                                              *)
AbortNothing_Fails(c) == /\ mid[c] = "expired" /\ LockFree(HostOf(c)) /\ ptr[c] = NoSlot
                         /\ UNCHANGED vars

(* It finds none and succeeds all the same. *)
AbortNothing(c) == /\ mid[c] = "expired" /\ LockFree(HostOf(c)) /\ ptr[c] = NoSlot
                   /\ mid' = [mid EXCEPT ![c] = "idle"]
                   /\ res' = [res EXCEPT ![c] = "timeout"]
                   /\ UNCHANGED <<poisons, slots, queue, section, ptr, hit>>

(* scsitap_eh_host_reset *)
HostReset(s) == /\ LockFree(s) /\ queue[s] # {}
                /\ Enter(s, "reset", queue[s])
                /\ UNCHANGED <<poisons, slots, queue, cmdVars, hit>>

(* scsitap_destroy_session, which ends the tasks that nobody serves; the    *)
(* session that the next target creates is taken for the same one.          *)
Destroy(s) == /\ LockFree(s) /\ queue[s] # {}
              /\ Enter(s, "flush", queue[s])
              /\ UNCHANGED <<poisons, slots, queue, cmdVars, hit>>
-----------------------------------------------------------------------------
(* scsitap_complete_task *)

FlagsOnFree(s, k) == IF poisons THEN "POISON"
                     ELSE IF section[s].op = "reset" THEN "ABORTED" ELSE slots[k].flags

(* Mutations of FreeTask: the task stays in the list; the loop of the reset *)
(* does not mark its tasks.                                                 *)
FreeTask_Linked(s) == \E k \in section[s].todo :
  /\ section[s].cur = NoSlot
  /\ res' = IF section[s].op = "flush" THEN [res EXCEPT ![slots[k].sc] = "noconnect"] ELSE res
  /\ slots' = [slots EXCEPT ![k].used = FALSE, ![k].flags = FlagsOnFree(s, k)]
  /\ hit' = IF poisons THEN hit \cup {slots[k].sc} ELSE hit
  /\ section' = [section EXCEPT ![s].cur = k, ![s].sc = slots[k].sc,
                                    ![s].todo = @ \ {k}]
  /\ UNCHANGED <<poisons, queue, ptr, mid>>

FreeTask_Unmarked(s) == \E k \in section[s].todo :
  /\ section[s].cur = NoSlot
  /\ res' = IF section[s].op = "flush" THEN [res EXCEPT ![slots[k].sc] = "noconnect"] ELSE res
  /\ queue' = [queue EXCEPT ![s] = @ \ {k}]
  /\ slots' = [slots EXCEPT ![k].used = FALSE, ![k].sc = NoSlot]
  /\ hit' = IF poisons THEN hit \cup {slots[k].sc} ELSE hit
  /\ section' = [section EXCEPT ![s].cur = k, ![s].sc = slots[k].sc,
                                    ![s].todo = @ \ {k}]
  /\ UNCHANGED <<poisons, ptr, mid>>

(* Its first half, with what the loops of the reset and of the destruction  *)
(* do to each task first: the task leaves the list and is freed.  What is   *)
(* left in its sc field is not read again.                                  *)
FreeTask(s) == \E k \in section[s].todo :
  /\ section[s].cur = NoSlot
  /\ res' = IF section[s].op = "flush" THEN [res EXCEPT ![slots[k].sc] = "noconnect"] ELSE res
  /\ queue' = [queue EXCEPT ![s] = @ \ {k}]
  /\ slots' = [slots EXCEPT ![k] = [used |-> FALSE, flags |-> FlagsOnFree(s, k), sc |-> NoSlot]]
  /\ hit' = IF poisons THEN hit \cup {slots[k].sc} ELSE hit
  /\ section' = [section EXCEPT ![s].cur = k, ![s].sc = slots[k].sc,
                                    ![s].todo = @ \ {k}]
  /\ UNCHANGED <<poisons, ptr, mid>>

(* Whether scsi_done is called: the flags are those of whoever has the slot *)
(* by now.                                                                  *)
Done(s) == slots[section[s].cur].flags # "ABORTED"

(* Mutation of FinishTask: SCp.ptr is not cleared.                          *)
FinishTask_KeepsPtr(s) ==
  LET c == section[s].sc
      recovered == section[s].op = "abort"
      done == Done(s) /\ mid[c] = "issued"
  IN  /\ section[s].cur # NoSlot
      /\ mid' = [mid EXCEPT ![c] = IF recovered \/ done THEN "idle" ELSE @]
      /\ res' = [res EXCEPT ![c] = IF recovered THEN "timeout" ELSE @]
      /\ section' = [section EXCEPT ![s] = IF @.todo = {} THEN Free
                         ELSE [@ EXCEPT !.cur = NoSlot, !.sc = NoSlot]]
      /\ UNCHANGED <<poisons, slots, queue, hit, ptr>>

(* Its second half: SCp.ptr is cleared, the flags are read and scsi_done is *)
(* called, which the mid layer ignores once the command's timer has fired.  *)
(* The abort handler then returns, which ends recovery.                     *)
FinishTask(s) ==
  LET c == section[s].sc
      recovered == section[s].op = "abort"
      done == Done(s) /\ mid[c] = "issued"
  IN  /\ section[s].cur # NoSlot
      /\ ptr' = [ptr EXCEPT ![c] = NoSlot]
      /\ mid' = [mid EXCEPT ![c] = IF recovered \/ done THEN "idle" ELSE @]
      /\ res' = [res EXCEPT ![c] = IF recovered THEN "timeout" ELSE @]
      /\ section' = [section EXCEPT ![s] = IF @.todo = {} THEN Free
                         ELSE [@ EXCEPT !.cur = NoSlot, !.sc = NoSlot]]
      /\ UNCHANGED <<poisons, slots, queue, hit>>
-----------------------------------------------------------------------------
Next == \/ \E c \in Cmd : QueueCommand(c) \/ Expire(c) \/ AbortTask(c) \/ AbortNothing(c)
        \/ \E s \in Session : \/ HostReset(s) \/ Destroy(s)
                              \/ FreeTask(s) \/ FinishTask(s)
                              \/ \E k \in Slot : Answer(s, k)

Spec == Init /\ [][Next]_vars

(* Sections that hold a spin lock go on, timers fire, and error recovery    *)
(* gets the lock in the end.                                                *)
Fairness == /\ \A s \in Session : WF_vars(FreeTask(s) \/ FinishTask(s))
            /\ \A c \in Cmd : WF_vars(Expire(c)) /\ SF_vars(AbortTask(c) \/ AbortNothing(c))

FairSpec == Spec /\ Fairness
-----------------------------------------------------------------------------
(* What must hold of tasks that share one slab *)

(* A slot is one task of one session, of the command whose SCp.ptr it is,   *)
(* however completions and allocations of the sessions overlap              *)
(* (hba.c:177-180): an abort never frees another session's task.            *)
SlotsApart ==
  /\ TypeOK
  /\ \A s \in Session : \A k \in queue[s] :
       /\ slots[k].used /\ HostOf(slots[k].sc) = s /\ ptr[slots[k].sc] = k
       /\ \A r \in Session \ {s} : k \notin queue[r]
  /\ \A c \in Cmd : \/ (ptr[c] \in queue[HostOf(c)] /\ slots[ptr[c]].sc = c)
                     \/ ptr[c] = NoSlot
                     \/ section[HostOf(c)].sc = c

(* A command that is being completed, or has a task to be completed, is     *)
(* not back with the mid layer yet: scsi_done is never called for one that  *)
(* the mid layer has already freed or issued again (hba.c:181).             *)
NeverDoneTwice == \A c \in Cmd : mid[c] = "idle" =>
  \A s \in Session : section[s].sc # c /\ \A k \in queue[s] : slots[k].sc # c

(* The mid layer takes a command for good only if a target said so, and an  *)
(* answer does not vanish: "call scsi done if it is not an abort request"   *)
(* (hba.c:169) is kept for every command whose slot nobody wrote between    *)
(* its release and the look at its flags.                                   *)
DoneUnlessAborted == \A c \in Cmd \ hit :
  /\ mid[c] = "idle" => res[c] # "zero"
  /\ mid[c] = "issued" /\ ptr[c] = NoSlot => res[c] = "zero"

(* Whatever is misread, every issued command comes back: a call of          *)
(* scsi_done that was left out by mistake is made up for by the timer and   *)
(* an abort that finds no task.                                             *)
CommandReturns == \A c \in Cmd : mid[c] = "issued" ~> mid[c] = "idle"
=============================================================================
