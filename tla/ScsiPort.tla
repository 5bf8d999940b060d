------------------------------ MODULE ScsiPort ------------------------------
(***************************************************************************)
(* What the virtual HBA promises to the SCSI mid layer, without its queue. *)
(*                                                                         *)
(* A SCSI command is idle, issued (its timer runs) or expired (its timer   *)
(* fired and error recovery owns it).  A command that was issued comes     *)
(* back exactly once: answered by a user target that was shown this very   *)
(* issue of it, failed because nobody can serve it any more, pushed back   *)
(* before anybody saw it, or returned by error recovery.                   *)
(***************************************************************************)
CONSTANTS Cmd,      \* the scsi_cmnd structures of the mid layer
          Target    \* the user programs that may serve the HBA

VARIABLES mid,      \* mid[c]: where command c is, as the mid layer sees it
          result,   \* result[c]: how the last issue of c ended
          shown     \* shown[c]: the targets that hold the current issue of c

portVars == <<mid, result, shown>>

Init == /\ mid = [c \in Cmd |-> "idle"]
        /\ result = [c \in Cmd |-> "none"]
        /\ shown = [c \in Cmd |-> {}]

(* Command c leaves the mid layer's hands, or error recovery gives it back *)
Move(c, from, to, r) ==
  /\ mid[c] = from
  /\ mid' = [mid EXCEPT ![c] = to]
  /\ result' = [result EXCEPT ![c] = r]

(* Nobody but the targets of command c loses or gains sight of a command. *)
OthersSee(c) == \A d \in Cmd \ {c} : shown'[d] = shown[d]

Issue(c) == /\ Move(c, "idle", "issued", "none")
            /\ shown[c] = {}
            /\ UNCHANGED shown

Refuse(c) == /\ Move(c, "idle", "idle", "noconnect")
             /\ UNCHANGED shown

PushBack(c) == /\ Move(c, "issued", "idle", result[c])
               /\ shown[c] = {}
               /\ UNCHANGED shown

Show(c, t) == /\ mid[c] # "idle"
              /\ t \in shown'[c]
              /\ shown'[c] \subseteq shown[c] \cup {t}
              /\ \A d \in Cmd \ {c} : shown'[d] \subseteq shown[d]
              /\ UNCHANGED <<mid, result>>

(* Targets leave, turn to other work, or answer too late. *)
Forget == /\ \A c \in Cmd : shown'[c] \subseteq shown[c]
          /\ UNCHANGED <<mid, result>>

Answer(c, t) == /\ t \in shown[c]
                /\ Move(c, "issued", "idle", "answered")
                /\ shown'[c] = {}
                /\ OthersSee(c)

(* The HBA goes away: commands that no target holds fail together. *)
Disconnect(S) == /\ \A c \in S : mid[c] = "issued" /\ shown[c] = {}
                 /\ mid' = [c \in Cmd |-> IF c \in S THEN "idle" ELSE mid[c]]
                 /\ result' = [c \in Cmd |-> IF c \in S THEN "noconnect" ELSE result[c]]
                 /\ UNCHANGED shown

Expire(c) == /\ Move(c, "issued", "expired", result[c])
             /\ UNCHANGED shown

Recover(c) == /\ Move(c, "expired", "idle", "timeout")
              /\ shown'[c] = {}
              /\ OthersSee(c)

Next == \/ \E c \in Cmd : \/ Issue(c) \/ Refuse(c) \/ PushBack(c)
                          \/ Expire(c) \/ Recover(c)
                          \/ \E t \in Target : Show(c, t) \/ Answer(c, t)
        \/ Forget
        \/ \E S \in SUBSET Cmd : Disconnect(S)

Spec == Init /\ [][Next]_portVars
=============================================================================
