----------------------------- MODULE DvdEngine -----------------------------
(***************************************************************************)
(* The other LUNs that add_lun can make: a DVD-R burner or a DVD-ROM drive *)
(* over scsi_mmc_commands (user/scsi.c) and insert_new_dvd_r               *)
(* (user/scsi_target.c).  A target serves either the disks of ScsiEngine   *)
(* or one drive, from its start on; luntype says which.  The block         *)
(* transfers are the functions that disks have, on a file that is as long  *)
(* as what was burnt.                                                      *)
(***************************************************************************)
EXTENDS ScsiEngine, FiniteSetsExt

CONSTANTS Zero        \* a block of zeros, as a hole in a file reads

ASSUME DvdAssumption == Zero \notin Val

VARIABLES
  luntype,    \* luntype of the target's LUNs
  disc,       \* the blocks of the drive's file
  pos,        \* the position of the drive's stream, in blocks
  state,      \* of the target: serving, hung in a transfer loop, or down
  reply,      \* status of the last command
  trackSize   \* the track size the host was told last

discVars == <<disc, pos>>
toldVars == <<reply, trackSize>>
driveVars == <<luntype, discVars, state, toldVars>>
engineVars == <<vars, driveVars>>

Drives == {"DVD_R", "DVD_ROM"}
Empty == [b \in {} |-> Zero]
Length(d) == Cardinality(DOMAIN d)

DriveTypeOK ==
  /\ TypeOK
  /\ luntype \in Drives \cup {"HD"}
  /\ DOMAIN disc = 0..(Length(disc) - 1) /\ \A b \in DOMAIN disc : disc[b] \in Val \cup {Zero}
  /\ pos \in Nat
  /\ state \in {"serving", "hung", "down"}
  /\ reply \in {"none", "good", "rejected"}
  /\ trackSize \in Nat

(* add_lun: a DVD-R file is opened "w+", a DVD-ROM file, of any size, "r".  *)
Discs == IF luntype = "DVD_ROM" THEN UNION {[0..(n - 1) -> Val] : n \in 0..(Size + 1)}
         ELSE {Empty}

EngineInit == /\ Init
              /\ luntype \in Drives \cup {"HD"}
              /\ disc \in Discs
              /\ pos = 0
              /\ state = "serving" /\ reply = "none" /\ trackSize = 0

(* Set when the LUN is added, and by nothing after that. *)
is_blank == luntype = "DVD_R"

Reply(r) == state = "serving" /\ reply' = r
-----------------------------------------------------------------------------
(* Commands that report about the disc *)

(* Only by address 1, and not for block 0.  A DVD-ROM's track is as long as *)
(* the place where the stream happens to be; a DVD-R has the whole disc     *)
(* free, from block 0 on.                                                   *)
mmc_read_track_information(address, lba) ==
  \/ /\ address # 1 \/ lba = 0
     /\ Reply("rejected") /\ UNCHANGED <<discVars, trackSize>>
  \/ /\ address = 1 /\ lba # 0
     /\ Reply("good")
     /\ trackSize' = IF luntype = "DVD_ROM" THEN pos ELSE trackSize
     /\ UNCHANGED discVars

(* Format 0 tells the book; for a DVD-ROM it also seeks to the end. *)
mmc_read_dvd_structure(format) ==
  /\ Reply(IF format \in {0, 1} \/ (format \in {13, 14} /\ luntype = "DVD_R")
           THEN "good" ELSE "rejected")
  /\ pos' = IF format = 0 /\ luntype = "DVD_ROM" THEN Length(disc) ELSE pos
  /\ UNCHANGED <<disc, trackSize>>
-----------------------------------------------------------------------------
(* Commands that leave the disc and the stream alone, and how they may end *)

(* A blank disc has no table of contents; of the formats only 0 is known. *)
mmc_read_toc(format) == IF is_blank \/ format # 0 THEN "rejected" ELSE "good"

(* The write speeds (type 3) are a burner's only. *)
mmc_get_performance(type) ==
  IF type = 0 \/ (type = 3 /\ luntype = "DVD_R") THEN "good" ELSE "rejected"

mmc_report_key(format)          == IF format = 8 THEN "good" ELSE "rejected"
mmc_read_buffer_capacity(block) == IF block = 0 THEN "good" ELSE "rejected"

mmc_read_disc_information       == {"good"}
mmc_get_configuration           == {"good"}
spc_mode_sense10                == {"good"}
mmc_prevent_allow_media_removal == {"good"}
mmc_set_cd_speed                == {"good"}
mmc_set_streaming               == {"good"}
mmc_synchronize_cache           == {"good"}
mmc_reserve_track               == {"good"}

(* With those that disks have too, and the opcodes without a function. *)
OtherMmc == {mmc_read_toc(format) : format \in {0, 1, 2}}
            \cup {mmc_get_performance(type) : type \in {0, 3, 4}}
            \cup {mmc_report_key(format) : format \in {0, 8}}
            \cup {mmc_read_buffer_capacity(block) : block \in {0, 1}}
            \cup (UNION {mmc_read_disc_information, mmc_get_configuration, spc_mode_sense10,
                         mmc_prevent_allow_media_removal, mmc_set_cd_speed, mmc_set_streaming,
                         mmc_synchronize_cache, mmc_reserve_track})
            \cup {IF a = Good THEN "good" ELSE "rejected" : a \in Other}

Inform == \E r \in OtherMmc : Reply(r) /\ UNCHANGED <<discVars, trackSize>>
-----------------------------------------------------------------------------
(* Block transfers *)

(* sbc_read_capacity10, which asks the stream for the end of the file. *)
mmc_read_capacity == /\ Reply("good")
                     /\ pos' = Length(disc)
                     /\ UNCHANGED <<disc, trackSize>>

(* Mutation of Seek: the stream is moved before the bounds are checked.     *)
Seek_First(lba, n) == pos' = lba + n

(* Where the transfer leaves the stream. *)
Seek(lba, n) == pos' = IF n > 0 /\ InBounds(lba, n) THEN lba + n ELSE pos

Hang == state = "serving" /\ state' = "hung" /\ UNCHANGED <<discVars, toldVars>>

(* sbc_read10.  At the end of the file fread returns 0 for ever. *)
mmc_read(lba, n) ==
  \/ /\ InBounds(lba, n) => Blocks(lba, n) \subseteq DOMAIN disc
     /\ Reply(IF InBounds(lba, n) THEN "good" ELSE "rejected")
     /\ Seek(lba, n)
     /\ UNCHANGED <<disc, trackSize, state>>
  \/ InBounds(lba, n) /\ ~(Blocks(lba, n) \subseteq DOMAIN disc) /\ Hang

(* Mutation of Burn: a write after the end of the file leaves no blocks     *)
(* before it.                                                               *)
Burn_NoHole(d) == [b \in DOMAIN d \cup DOMAIN disc |-> IF b \in DOMAIN d THEN d[b] ELSE disc[b]]

(* A write after the end of the file leaves a hole of zeros. *)
Burn(d) == [b \in 0..(Max({Length(disc) - 1} \cup DOMAIN d)) |->
              IF b \in DOMAIN d THEN d[b] ELSE IF b \in DOMAIN disc THEN disc[b] ELSE Zero]

(* sbc_write10.  On a DVD-ROM's stream fwrite returns 0 for ever. *)
mmc_write(lba, n, d) ==
  \/ /\ InBounds(lba, n) /\ n > 0 => luntype = "DVD_R"
     /\ Reply(IF InBounds(lba, n) THEN "good" ELSE "rejected")
     /\ Seek(lba, n)
     /\ disc' = IF InBounds(lba, n) /\ n > 0 THEN Burn(d) ELSE disc
     /\ UNCHANGED <<trackSize, state>>
  \/ InBounds(lba, n) /\ n > 0 /\ luntype = "DVD_ROM" /\ Hang
-----------------------------------------------------------------------------
(* Changing discs *)

(* The file is renamed, if anything was burnt and rename() can, and the     *)
(* LUN's file is opened "w+"; which file the burnt disc ends up in is left  *)
(* out.                                                                     *)
insert_new_dvd_r == disc' = Empty /\ pos' = 0

(* exit(10): the LUN's file, there still or renamed, cannot be opened. *)
insert_fails == disc' \in {disc, Empty} /\ pos' = 0

(* START STOP UNIT, whichever way. *)
mmc_start_stop_unit ==
  \/ /\ Reply("good")
     /\ IF luntype = "DVD_R" THEN insert_new_dvd_r ELSE UNCHANGED discVars
     /\ UNCHANGED <<trackSize, state>>
  \/ /\ luntype = "DVD_R" /\ state = "serving"
     /\ insert_fails /\ state' = "down"
     /\ UNCHANGED toldVars

(* The target is killed, as it must be when it hangs, and started again. *)
KillDrive == /\ state # "down"
             /\ state' = "down"
             /\ UNCHANGED <<discVars, toldVars>>

RestartDrive == /\ state = "down"
                /\ state' = "serving"
                /\ disc' = IF luntype = "DVD_R" THEN Empty ELSE disc
                /\ pos' = 0
                /\ UNCHANGED toldVars

(* run_scsi_command over scsi_mmc_commands *)
Mmc == \/ Inform \/ mmc_read_capacity
       \/ \E address \in {0, 1}, lba \in {0, 1} : mmc_read_track_information(address, lba)
       \/ \E format \in {0, 1, 13, 14, 17} : mmc_read_dvd_structure(format)

BlockTransfer == \E lba \in 0..Size, n \in 0..MaxLen :
  mmc_read(lba, n) \/ \E d \in [Blocks(lba, n) -> Val] : mmc_write(lba, n, d)

DriveNext == /\ luntype \in Drives
             /\ \/ Mmc /\ UNCHANGED state
                \/ BlockTransfer \/ mmc_start_stop_unit
                \/ KillDrive \/ RestartDrive
             /\ UNCHANGED <<vars, luntype>>

DisksNext == luntype = "HD" /\ Next /\ UNCHANGED driveVars

EngineSpec == EngineInit /\ [][DisksNext \/ DriveNext]_engineVars
-----------------------------------------------------------------------------
(* What must hold of a drive *)

(* A DVD-ROM's track, reported from where the stream happens to be          *)
(* (scsi.c:363), is never reported longer than its disc.                    *)
TrackWithinDisc == luntype = "DVD_ROM" => trackSize <= Length(disc)
=============================================================================
