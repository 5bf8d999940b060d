----------------------------- MODULE ScsiEngine -----------------------------
(***************************************************************************)
(* What one target answers for its disks: run_scsi_command                 *)
(* (user/scsi_target.c) over scsi_sbc_commands (user/scsi.c), and main's   *)
(* way of sending the reply.  A command is served from fetch to answer in  *)
(* one step: a target serves one at a time.  LUN files are as other        *)
(* processes read them; LunFile models what their streams hold back.       *)
(***************************************************************************)
EXTENDS Integers, FiniteSets

CONSTANTS Luns,      \* the LUNs add_lun added
          MaxLun,    \* bound: the LUNs a host may address
          SizeInMb,  \* lunsizeinmb of each LUN
          PerMb,     \* blocks in a megabyte
          Lba6,      \* WRITE(6) sees block addresses modulo Lba6
          IntMod,    \* an int holds IntMod values, counted in blocks
          Val,       \* what a block may hold
          MaxLen     \* bound: transfer length of a command, in blocks

ASSUME EngineAssumption ==
  /\ MaxLun \in Nat /\ Luns \subseteq 0..MaxLun
  /\ SizeInMb \in Nat \ {0} /\ PerMb \in Nat \ {0} /\ MaxLen \in Nat
  /\ Lba6 \in Nat \ {0}
  /\ IntMod \in Nat \ {0} /\ IntMod % 2 = 0

Size == SizeInMb * PerMb
None == -1

VARIABLES
  image,     \* image[l]: the blocks of l's file
  acked,     \* acked[l]: what the host has been told LUN l holds
  wraps,     \* whether this build wraps the int product of the bounds check
  running,   \* the target has not crashed
  known,     \* the LUNs that the host knows of
  capacity,  \* capacity[l]: the last block the host was told of, or None
  answer     \* answer[l]: the last answer sent for LUN l

vars == <<image, acked, wraps, running, known, capacity, answer>>

TypeOK == /\ image \in [Luns -> UNION {[0..k -> Val] : k \in 0..(Size + MaxLen)}]
          /\ running \in BOOLEAN
          /\ known \subseteq 0..MaxLun
          /\ capacity \in [Luns -> Nat \cup {None}]

(* The files were truncated to the size of their LUN; LUN 0 is always probed. *)
Init == /\ \E v \in Val : image = [l \in Luns |-> [b \in 0..(Size - 1) |-> v]]
        /\ acked = image
        /\ wraps \in BOOLEAN
        /\ running = TRUE
        /\ known = {0}
        /\ capacity = [l \in Luns |-> None]
        /\ answer = [l \in Luns |-> [kind |-> "none"]]
-----------------------------------------------------------------------------
(* How the commands that leave the medium alone may end. *)

Good  == [kind |-> "good"]
Check == [kind |-> "rejected"]

spc_test_unit_ready             == {Good}
spc_request_sense               == {Good, Check}
spc_mode_sense6                 == {Good}
spc_inquiry                     == {Good, Check}
spc_persistent_reserve_in       == {Good, Check}
spc_persistent_reserve_out      == {Good, Check}
spc_mode_select10               == {Good}
spc_prevent_allow_media_removal == {Good}
sbc_verify                      == {Good}
no_command                      == {Check}   \* an opcode without a function

Other == UNION {spc_test_unit_ready, spc_request_sense, spc_mode_sense6, spc_inquiry,
                spc_persistent_reserve_in, spc_persistent_reserve_out, spc_mode_select10,
                spc_prevent_allow_media_removal, sbc_verify, no_command}

Answer(l, a) == answer' = [answer EXCEPT ![l] = a]
-----------------------------------------------------------------------------
(* The LUN a command is for.  The list ends in NULL for one that was not   *)
(* added, and DUMMY_LUN_0 has no commands: both are dereferenced.          *)
Served(l) == running /\ l \in known /\ l \in Luns

(* Mutation of LunOf: the search stops at the first LUN of the list.        *)
LunOf_Head(l) == CHOOSE k \in Luns : \A m \in Luns : k >= m

(* The entry of the list for LUN l. *)
LunOf(l) == CHOOSE k \in Luns : k = l

(* The bounds check: lunsizeinmb * 1024 * 1024 is a product of ints, and   *)
(* undefined when it overflows; a build wraps it or computes it wider.     *)
Signed(x) == IF x % IntMod < IntMod \div 2 THEN x % IntMod ELSE (x % IntMod) - IntMod
Limit == IF wraps THEN Signed(Size) ELSE Size

(* Mutations of InBounds: the length is forgotten; the last block is out.   *)
InBounds_FirstBlock(lba, n) == lba <= Limit
InBounds_Strict(lba, n)     == lba + n < Limit

InBounds(lba, n) == lba + n <= Limit

(* Commands without medium access. *)
Attend(l) ==
  /\ Served(l)
  /\ \E a \in Other : Answer(l, a)
  /\ UNCHANGED <<image, acked, wraps, running, known, capacity>>

(* The LUNs that fit in a reply of n entries, in the order of the list:    *)
(* add_lun put the newest in front.                                        *)
Reported(n) == {k \in Luns : Cardinality({m \in Luns : m > k}) < n}

spc_report_luns(l, n) ==
  /\ Served(l)
  /\ \/ known' = known \cup (Reported(n) \cap 0..MaxLun) /\ Answer(l, Good)
     \/ known' = known /\ Answer(l, Check)
  /\ UNCHANGED <<image, acked, wraps, running, capacity>>

(* The last block, from the size of the file. *)
sbc_read_capacity10(l) ==
  /\ Served(l)
  /\ capacity' = [capacity EXCEPT ![l] = Cardinality(DOMAIN image[LunOf(l)]) - 1]
  /\ Answer(l, Good)
  /\ UNCHANGED <<image, acked, wraps, running, known>>

Blocks(lba, n) == lba..(lba + n - 1)

(* READ(10).  Blocks beyond the end of the file would be read for ever. *)
sbc_read10(l, lba, n) ==
  /\ Served(l)
  /\ IF InBounds(lba, n)
     THEN /\ Blocks(lba, n) \subseteq DOMAIN image[LunOf(l)]
          /\ Answer(l, [kind |-> "read",
                        data |-> [b \in Blocks(lba, n) |-> image[LunOf(l)][b]]])
     ELSE Answer(l, Check)
  /\ UNCHANGED <<image, acked, wraps, running, known, capacity>>

(* The write loop, which puts d (blocks from lba on) at block at; a write  *)
(* beyond the end of the file makes it grow.                               *)
Put(l, lba, at, d) == image' = [image EXCEPT ![LunOf(l)] =
  LET to == {b - lba + at : b \in DOMAIN d}
  IN  [b \in to \cup DOMAIN @ |-> IF b \in to THEN d[b - at + lba] ELSE @[b]]]

Overlay(d, old) == [b \in DOMAIN old |-> IF b \in DOMAIN d THEN d[b] ELSE old[b]]

(* A write of d, acknowledged as blocks from lba on, done from block at on. *)
Write(l, lba, at, n, d) ==
  /\ Served(l)
  /\ IF InBounds(at, n)
     THEN /\ Put(l, lba, at, d)
          /\ acked' = [acked EXCEPT ![l] = Overlay(d, @)]
          /\ Answer(l, [kind |-> "written"])
     ELSE Answer(l, Check) /\ UNCHANGED <<image, acked>>
  /\ UNCHANGED <<wraps, running, known, capacity>>

(* WRITE(10) and WRITE(12) *)
sbc_write10(l, lba, n, d) == Write(l, lba, lba, n, d)

(* WRITE(6) takes 16 of the 21 bits of its block address. *)
sbc_write6(l, lba, n, d) == Write(l, lba, lba % Lba6, n, d)

(* The target dereferences NULL: the host addressed a LUN it was not told  *)
(* of, or LUN 0 of a target without one.                                   *)
Crash(l) ==
  /\ running /\ l \notin Luns
  /\ running' = FALSE
  /\ UNCHANGED <<image, acked, wraps, known, capacity, answer>>

Restart == /\ ~running
           /\ running' = TRUE
           /\ UNCHANGED <<image, acked, wraps, known, capacity, answer>>

Next == \/ Restart
        \/ \E l \in 0..MaxLun :
             \/ Attend(l) \/ sbc_read_capacity10(l) \/ Crash(l)
             \/ \E n \in 0..MaxLen :
                  \/ spc_report_luns(l, n)
                  \/ \E lba \in 0..Size :
                       \/ sbc_read10(l, lba, n)
                       \/ \E d \in [Blocks(lba, n) -> Val] :
                            sbc_write10(l, lba, n, d) \/ sbc_write6(l, lba, n, d)

Spec == Init /\ [][Next]_vars
-----------------------------------------------------------------------------
(* What the host is promised *)

Medium == INSTANCE Disk WITH Lun <- Luns, Block <- 0..(Size - 1), disk <- acked

(* Each LUN is a disk of its own: a read returns what was written to that  *)
(* LUN, a rejected command or one that is not for the medium changes no    *)
(* block, and no LUN sees another's blocks (scsi_target.c:54).             *)
DisksSpec == Medium!Spec

(* A block that READ CAPACITY announced can be read and written: the size  *)
(* of the file and the bounds of the transfers agree (scsi.c:178, 1312,    *)
(* 1395).                                                                  *)
AnnouncedIsServed == \A l \in Luns : \A b \in 0..capacity[l] : InBounds(b, 1)

(* No command makes a file grow beyond the capacity it had when the host   *)
(* asked (scsi.c:1395): the bounds leave no block outside the file.        *)
NeverGrows == \A l \in Luns : DOMAIN image[l] = 0..(Size - 1)
=============================================================================
