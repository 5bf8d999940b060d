----------------------------- MODULE CachedDisk -----------------------------
(***************************************************************************)
(* A disk with a volatile cache, as a LUN file behind a stdio stream turns *)
(* out to be: a crash may undo the last write, block by block and nothing  *)
(* older, until a command settles it; not every command does.              *)
(***************************************************************************)
EXTENDS Disk

VARIABLE undo       \* undo[l]: what the blocks of the last write held before

Nothing == [b \in {} |-> CHOOSE v \in Val : TRUE]

CachedInit == Init /\ undo = [l \in Lun |-> Nothing]

Undoable(l, S) == undo' = [undo EXCEPT ![l] = [b \in S |-> disk[l][b]]]

(* What was written stays written from here on. *)
Settle(l) == Undoable(l, {})

CachedWrite(l, d) == Write(l, d) /\ Undoable(l, DOMAIN d)

Crash(l) == /\ \E S \in SUBSET DOMAIN undo[l] :
                 disk' = [disk EXCEPT ![l] = Overlay([b \in S |-> undo[l][b]], @)]
            /\ Settle(l)
            /\ UNCHANGED answer

CachedNext == \E l \in Lun :
  \/ \E d \in Data : CachedWrite(l, d)
  \/ \E S \in SUBSET Block : Read(l, S) /\ Settle(l)
  \/ Leave(l) /\ UNCHANGED undo
  \/ UNCHANGED <<disk, answer>> /\ Settle(l)
  \/ Crash(l)

CachedSpec == CachedInit /\ [][CachedNext]_<<disk, answer, undo>>
=============================================================================
