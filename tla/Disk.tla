-------------------------------- MODULE Disk --------------------------------
(***************************************************************************)
(* What LUNs promise to the host that mounts them: an acknowledged write   *)
(* is there for every later read, a read returns the current blocks of its *)
(* LUN, and no other command changes any.                                  *)
(***************************************************************************)
CONSTANTS Lun, Block, Val

VARIABLES disk,     \* disk[l]: the content of each block of LUN l
          answer    \* answer[l]: the last answer the host got for LUN l

Data == UNION {[S -> Val] : S \in SUBSET Block}

NoAnswer == [kind |-> "none"]
Written  == [kind |-> "written"]
Rejected == [kind |-> "rejected"]
Attended == [kind |-> "good"]
Returned(d) == [kind |-> "read", data |-> d]

Overlay(d, old) == [b \in DOMAIN old |-> IF b \in DOMAIN d THEN d[b] ELSE old[b]]

Init == /\ disk \in [Lun -> [Block -> Val]]
        /\ answer = [l \in Lun |-> NoAnswer]

Answer(l, a) == answer' = [answer EXCEPT ![l] = a]

Write(l, d) == /\ disk' = [disk EXCEPT ![l] = Overlay(d, @)]
               /\ Answer(l, Written)

Read(l, S) == /\ Answer(l, Returned([b \in S |-> disk[l][b]]))
              /\ UNCHANGED disk

(* A command that is rejected or has nothing to do with the blocks. *)
Leave(l) == /\ Answer(l, Rejected) \/ Answer(l, Attended)
            /\ UNCHANGED disk

Next == \E l \in Lun : \/ \E d \in Data : Write(l, d)
                       \/ \E S \in SUBSET Block : Read(l, S)
                       \/ Leave(l)

Spec == Init /\ [][Next]_<<disk, answer>>
=============================================================================
