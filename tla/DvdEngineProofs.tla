-------------------------- MODULE DvdEngineProofs --------------------------
(***************************************************************************)
(* Proofs about the engine of a target, its disks first and its drive      *)
(* second, for LUNs and discs of any size and commands of any length.      *)
(* What depends on the size of a LUN is a hypothesis of the theorem:       *)
(* Addressable for WRITE(6), and NoOverflow for the product of ints in the *)
(* bounds check.                                                           *)
(***************************************************************************)
EXTENDS DvdEngine, FiniteSetTheorems, TLAPS

Addressable == Size < Lba6
NoOverflow  == Size < IntMod \div 2
-----------------------------------------------------------------------------
(* The engine with its drive added still does to disks what ScsiEngine says *)

LEMMA EngineIsScsi == EngineSpec => Spec
<1>1. EngineInit => Init
  BY DEF EngineInit
<1>2. [DisksNext \/ DriveNext]_engineVars => [Next]_vars
  BY DEF DisksNext, DriveNext, engineVars, vars
<1> QED  BY <1>1, <1>2, PTL DEF EngineSpec, Spec
-----------------------------------------------------------------------------
(* The disks *)

Medium0 == [0..(Size - 1) -> Val]

DiskInv == /\ image \in [Luns -> Medium0]
           /\ acked \in [Luns -> Medium0]
           /\ wraps \in BOOLEAN /\ running \in BOOLEAN
           /\ known \subseteq 0..MaxLun
           /\ capacity \in [Luns -> {None, Size - 1}]
           /\ DOMAIN answer = Luns

LEMMA SizeFacts == Size \in Nat \ {0} /\ Limit <= Size /\ Limit \in Int
<1>1. Size \in Nat \ {0}
  BY EngineAssumption DEF EngineAssumption, Size
<1>2. Size % IntMod \in 0..Size /\ Size % IntMod \in 0..(IntMod - 1)
  BY <1>1, EngineAssumption DEF EngineAssumption
<1> QED  BY <1>1, <1>2, EngineAssumption DEF EngineAssumption, Limit, Signed

LEMMA LimitIsSize == ASSUME NoOverflow PROVE Limit = Size
<1>1. Size \in Nat /\ Size < IntMod
  BY SizeFacts, EngineAssumption DEF EngineAssumption, NoOverflow
<1>2. Size % IntMod = Size
  BY <1>1, EngineAssumption DEF EngineAssumption
<1> QED  BY <1>2 DEF Limit, Signed, NoOverflow

LEMMA LunOfIsIt == ASSUME NEW l \in Luns PROVE LunOf(l) = l
BY DEF LunOf

LEMMA BlocksInside ==
  ASSUME NEW lba \in Nat, NEW n \in Nat, InBounds(lba, n)
  PROVE  Blocks(lba, n) \subseteq 0..(Size - 1)
BY SizeFacts DEF InBounds, Blocks

LEMMA MediumSize == Cardinality(0..(Size - 1)) = Size
BY SizeFacts, FS_Interval

LEMMA DiskInvInit == Init => DiskInv
BY EngineAssumption DEF EngineAssumption, Init, DiskInv, Medium0, None

(* A write that is in bounds changes blocks of the file and adds none. *)
LEMMA PutInside ==
  ASSUME DiskInv, NEW l \in Luns, NEW lba \in Nat, NEW at \in Nat, NEW n \in Nat,
         NEW d \in [Blocks(lba, n) -> Val], InBounds(at, n), Put(l, lba, at, d)
  PROVE  /\ image' \in [Luns -> Medium0]
         /\ at = lba => image' = [image EXCEPT ![l] = Overlay(d, @)]
<1>1. PICK to : to = {b - lba + at : b \in DOMAIN d}
  OBVIOUS
<1>2. to = Blocks(at, n)
  <2>1. to \subseteq Blocks(at, n)
    BY <1>1 DEF Blocks
  <2>2. ASSUME NEW c \in Blocks(at, n) PROVE c \in to
    <3>1. c - at + lba \in DOMAIN d /\ c = (c - at + lba) - lba + at
      BY <2>2 DEF Blocks
    <3> QED  BY <1>1, <3>1
  <2> QED  BY <2>1, <2>2
<1>3. to \subseteq 0..(Size - 1)
  BY <1>2, BlocksInside
<1>4. image' = [image EXCEPT ![l] =
        [b \in to \cup DOMAIN image[l] |-> IF b \in to THEN d[b - at + lba] ELSE image[l][b]]]
  BY <1>1, LunOfIsIt DEF Put
<1>5. image[l] \in Medium0 /\ DOMAIN image[l] = 0..(Size - 1)
  BY DEF DiskInv, Medium0
<1>6. to \cup DOMAIN image[l] = 0..(Size - 1)
  BY <1>3, <1>5
<1>7. \A b \in to : d[b - at + lba] \in Val
  BY <1>2 DEF Blocks
<1>8. [b \in to \cup DOMAIN image[l] |-> IF b \in to THEN d[b - at + lba] ELSE image[l][b]]
        \in Medium0
  BY <1>5, <1>6, <1>7 DEF Medium0
<1>9. image' \in [Luns -> Medium0]
  BY <1>4, <1>8 DEF DiskInv
<1>10. ASSUME at = lba PROVE image' = [image EXCEPT ![l] = Overlay(d, @)]
  <2>1. \A b \in to : b - at + lba = b
    BY <1>2, <1>10 DEF Blocks
  <2>2. DOMAIN d = to
    BY <1>2, <1>10
  <2>3. [b \in to \cup DOMAIN image[l] |-> IF b \in to THEN d[b - at + lba] ELSE image[l][b]]
        = Overlay(d, image[l])
    BY <1>5, <1>6, <2>1, <2>2 DEF Overlay
  <2> QED  BY <1>4, <2>3
<1> QED  BY <1>9, <1>10

LEMMA OverlayInside ==
  ASSUME NEW S, NEW d \in [S -> Val], NEW old \in Medium0
  PROVE  Overlay(d, old) \in Medium0
BY DEF Overlay, Medium0

LEMMA WriteKeeps ==
  ASSUME DiskInv, NEW l \in 0..MaxLun, NEW lba \in Nat, NEW at \in Nat, NEW n \in Nat,
         NEW d \in [Blocks(lba, n) -> Val], Write(l, lba, at, n, d)
  PROVE  DiskInv'
<1>1. /\ l \in Luns /\ wraps' = wraps /\ running' = running /\ known' = known
      /\ capacity' = capacity /\ DOMAIN answer' = Luns
  BY DEF Write, Served, Answer, DiskInv
<1>2. image' \in [Luns -> Medium0] /\ acked' \in [Luns -> Medium0]
  <2>1. CASE InBounds(at, n)
    <3>1. Put(l, lba, at, d) /\ acked' = [acked EXCEPT ![l] = Overlay(d, @)]
      BY <2>1 DEF Write
    <3>2. image' \in [Luns -> Medium0]
      BY <1>1, <2>1, <3>1, PutInside
    <3>3. Overlay(d, acked[l]) \in Medium0
      BY <1>1, OverlayInside DEF DiskInv
    <3> QED  BY <1>1, <3>1, <3>2, <3>3 DEF DiskInv
  <2>2. CASE ~InBounds(at, n)
    BY <2>2 DEF Write, DiskInv
  <2> QED  BY <2>1, <2>2
<1> QED  BY <1>1, <1>2 DEF DiskInv

LEMMA AddressFacts ==
  ASSUME NEW lba \in 0..Size
  PROVE  lba \in Nat /\ lba % Lba6 \in Nat
BY SizeFacts, EngineAssumption DEF EngineAssumption

LEMMA DiskInvNext == DiskInv /\ [Next]_vars => DiskInv'
<1> SUFFICES ASSUME DiskInv, [Next]_vars PROVE DiskInv'
  OBVIOUS
<1>1. CASE UNCHANGED vars
  BY <1>1 DEF vars, DiskInv
<1>2. CASE Restart \/ \E l \in 0..MaxLun : Crash(l)
  BY <1>2 DEF Restart, Crash, DiskInv
<1>3. ASSUME NEW l \in 0..MaxLun, Attend(l) PROVE DiskInv'
  BY <1>3 DEF Attend, Answer, DiskInv
<1>4. ASSUME NEW l \in 0..MaxLun, sbc_read_capacity10(l) PROVE DiskInv'
  <2>1. l \in Luns /\ DOMAIN image[LunOf(l)] = 0..(Size - 1)
    BY <1>4, LunOfIsIt DEF sbc_read_capacity10, Served, DiskInv, Medium0
  <2>2. capacity' = [capacity EXCEPT ![l] = Size - 1]
    BY <1>4, <2>1, MediumSize DEF sbc_read_capacity10
  <2> QED  BY <1>4, <2>1, <2>2 DEF sbc_read_capacity10, Answer, DiskInv
<1>5. ASSUME NEW l \in 0..MaxLun, NEW n \in 0..MaxLen, spc_report_luns(l, n) PROVE DiskInv'
  BY <1>5 DEF spc_report_luns, Answer, DiskInv
<1>6. ASSUME NEW l \in 0..MaxLun, NEW n \in 0..MaxLen, NEW lba \in 0..Size,
             sbc_read10(l, lba, n)
      PROVE  DiskInv'
  BY <1>6 DEF sbc_read10, Answer, DiskInv
<1>7. ASSUME NEW l \in 0..MaxLun, NEW n \in 0..MaxLen, NEW lba \in 0..Size,
             NEW d \in [Blocks(lba, n) -> Val],
             sbc_write10(l, lba, n, d) \/ sbc_write6(l, lba, n, d)
      PROVE  DiskInv'
  <2>1. n \in Nat
    BY EngineAssumption DEF EngineAssumption
  <2> QED  BY <1>7, <2>1, AddressFacts, WriteKeeps DEF sbc_write10, sbc_write6
<1> QED  BY <1>1, <1>2, <1>3, <1>4, <1>5, <1>6, <1>7 DEF Next

LEMMA DiskInvariant == EngineSpec => []DiskInv
BY EngineIsScsi, DiskInvInit, DiskInvNext, PTL DEF Spec

(* No command makes a LUN's file grow or shrink (scsi.c:1395), whatever the *)
(* build makes of the overflow in the bounds check. *)
THEOREM FilesNeverGrow == EngineSpec => []NeverGrows
<1>1. DiskInv => NeverGrows
  BY DEF DiskInv, Medium0, NeverGrows
<1> QED  BY <1>1, DiskInvariant, PTL

(* A block that READ CAPACITY announced is in the bounds of reads and       *)
(* writes (scsi.c:178, 1312, 1395). *)
THEOREM AnnouncedAlwaysServed == ASSUME NoOverflow PROVE EngineSpec => []AnnouncedIsServed
<1>1. DiskInv => AnnouncedIsServed
  <2> SUFFICES ASSUME DiskInv, NEW l \in Luns, NEW b \in 0..capacity[l] PROVE InBounds(b, 1)
    BY DEF AnnouncedIsServed
  <2>1. capacity[l] \in {None, Size - 1}
    BY DEF DiskInv
  <2> QED  BY <2>1, SizeFacts, LimitIsSize DEF InBounds, None
<1> QED  BY <1>1, DiskInvariant, PTL

-----------------------------------------------------------------------------
(* The disks implement Disk *)

(* The files hold what was acknowledged. *)
FilesCurrent == image = acked

MediumStep == [Medium!Next]_<<acked, answer>>

LEMMA WriteImplements ==
  ASSUME DiskInv, FilesCurrent, NEW l \in 0..MaxLun, NEW lba \in Nat, NEW n \in Nat,
         NEW d \in [Blocks(lba, n) -> Val], Write(l, lba, lba, n, d)
  PROVE  FilesCurrent' /\ MediumStep
<1>1. l \in Luns
  BY DEF Write, Served
<1>2. CASE InBounds(lba, n)
  <2>1. /\ Put(l, lba, lba, d) /\ acked' = [acked EXCEPT ![l] = Overlay(d, @)]
        /\ answer' = [answer EXCEPT ![l] = Medium!Written]
    BY <1>2 DEF Write, Answer, Medium!Written
  <2>2. image' = [image EXCEPT ![l] = Overlay(d, @)]
    BY <1>1, <1>2, <2>1, PutInside
  <2>3. FilesCurrent'
    BY <2>1, <2>2 DEF FilesCurrent
  <2>4. d \in Medium!Data
    BY <1>2, BlocksInside DEF Medium!Data
  <2>5. Medium!Write(l, d)
    BY <2>1 DEF Medium!Write, Medium!Answer, Overlay, Medium!Overlay
  <2> QED  BY <1>1, <2>3, <2>4, <2>5 DEF MediumStep, Medium!Next
<1>3. CASE ~InBounds(lba, n)
  <2>1. image' = image /\ acked' = acked /\ answer' = [answer EXCEPT ![l] = Medium!Rejected]
    BY <1>3 DEF Write, Answer, Check, Medium!Rejected
  <2> QED  BY <1>1, <2>1 DEF FilesCurrent, MediumStep, Medium!Next, Medium!Leave, Medium!Answer
<1> QED  BY <1>2, <1>3

LEMMA ReadImplements ==
  ASSUME DiskInv, FilesCurrent, NEW l \in 0..MaxLun, NEW lba \in Nat, NEW n \in Nat,
         sbc_read10(l, lba, n)
  PROVE  FilesCurrent' /\ MediumStep
<1>1. l \in Luns /\ LunOf(l) = l /\ image' = image /\ acked' = acked
  BY LunOfIsIt DEF sbc_read10, Served
<1>2. CASE InBounds(lba, n)
  <2>1. Blocks(lba, n) \in SUBSET (0..(Size - 1))
    BY <1>2, BlocksInside
  <2>2. answer' = [answer EXCEPT ![l] = Medium!Returned([b \in Blocks(lba, n) |-> acked[l][b]])]
    BY <1>1, <1>2 DEF sbc_read10, Answer, FilesCurrent, Medium!Returned
  <2>3. Medium!Read(l, Blocks(lba, n))
    BY <1>1, <2>2 DEF Medium!Read, Medium!Answer
  <2> QED  BY <1>1, <2>1, <2>3 DEF FilesCurrent, MediumStep, Medium!Next
<1>3. CASE ~InBounds(lba, n)
  <2>1. answer' = [answer EXCEPT ![l] = Medium!Rejected]
    BY <1>3 DEF sbc_read10, Answer, Check, Medium!Rejected
  <2> QED  BY <1>1, <2>1 DEF FilesCurrent, MediumStep, Medium!Next, Medium!Leave, Medium!Answer
<1> QED  BY <1>2, <1>3

(* A command without medium access leaves the disk as it is. *)
LEMMA LeaveImplements ==
  ASSUME FilesCurrent, NEW l \in Luns, NEW a \in {Good, Check}, Answer(l, a),
         UNCHANGED <<image, acked>>
  PROVE  FilesCurrent' /\ MediumStep
BY DEF FilesCurrent, MediumStep, Medium!Next, Medium!Leave, Medium!Answer, Medium!Rejected,
   Medium!Attended, Answer, Good, Check

LEMMA OtherFacts == Other \subseteq {Good, Check}
BY DEF Other, spc_test_unit_ready, spc_request_sense, spc_mode_sense6, spc_inquiry,
   spc_persistent_reserve_in, spc_persistent_reserve_out, spc_mode_select10,
   spc_prevent_allow_media_removal, sbc_verify, no_command

LEMMA MediumNext ==
  ASSUME Addressable
  PROVE  DiskInv /\ FilesCurrent /\ [Next]_vars => FilesCurrent' /\ MediumStep
<1> SUFFICES ASSUME DiskInv, FilesCurrent, [Next]_vars PROVE FilesCurrent' /\ MediumStep
  OBVIOUS
<1>1. CASE UNCHANGED vars \/ Restart \/ \E l \in 0..MaxLun : Crash(l)
  BY <1>1 DEF vars, Restart, Crash, FilesCurrent, MediumStep
<1>2. ASSUME NEW l \in 0..MaxLun, Attend(l) PROVE FilesCurrent' /\ MediumStep
  <2>1. PICK a \in Other : Answer(l, a)
    BY <1>2 DEF Attend
  <2> QED  BY <1>2, <2>1, OtherFacts, LeaveImplements DEF Attend, Served
<1>3. ASSUME NEW l \in 0..MaxLun, sbc_read_capacity10(l) PROVE FilesCurrent' /\ MediumStep
  BY <1>3, LeaveImplements DEF sbc_read_capacity10, Served
<1>4. ASSUME NEW l \in 0..MaxLun, NEW n \in 0..MaxLen, spc_report_luns(l, n)
      PROVE  FilesCurrent' /\ MediumStep
  BY <1>4, LeaveImplements DEF spc_report_luns, Served
<1>5. ASSUME NEW l \in 0..MaxLun, NEW n \in 0..MaxLen, NEW lba \in 0..Size,
             sbc_read10(l, lba, n)
      PROVE  FilesCurrent' /\ MediumStep
  <2>1. n \in Nat
    BY EngineAssumption DEF EngineAssumption
  <2> QED  BY <1>5, <2>1, AddressFacts, ReadImplements
<1>6. ASSUME NEW l \in 0..MaxLun, NEW n \in 0..MaxLen, NEW lba \in 0..Size,
             NEW d \in [Blocks(lba, n) -> Val],
             sbc_write10(l, lba, n, d) \/ sbc_write6(l, lba, n, d)
      PROVE  FilesCurrent' /\ MediumStep
  <2>1. n \in Nat /\ lba \in Nat /\ lba < Lba6
    BY EngineAssumption, SizeFacts DEF EngineAssumption, Addressable
  <2>2. lba % Lba6 = lba
    BY <2>1, EngineAssumption DEF EngineAssumption
  <2>3. Write(l, lba, lba, n, d)
    BY <1>6, <2>2 DEF sbc_write10, sbc_write6
  <2> QED  BY <2>1, <2>3, WriteImplements
<1> QED  BY <1>1, <1>2, <1>3, <1>4, <1>5, <1>6 DEF Next

(* Each LUN is a disk of its own: reads return what was written to that     *)
(* LUN, and no other command or LUN changes a block (scsi_target.c:54). *)
THEOREM ImplementsDisks == ASSUME Addressable PROVE EngineSpec => DisksSpec
<1>1. Init => Medium!Init /\ FilesCurrent
  BY DEF Init, Medium!Init, Medium!NoAnswer, FilesCurrent
<1>2. DiskInv /\ FilesCurrent /\ [Next]_vars =>
        FilesCurrent' /\ [Medium!Next]_<<acked, answer>>
  BY MediumNext DEF MediumStep
<1> QED  BY <1>1, <1>2, EngineIsScsi, DiskInvariant, PTL DEF Spec, DisksSpec, Medium!Spec
-----------------------------------------------------------------------------
(* The drive *)

(* The blocks of a disc are the first so many. *)
Contiguous == IsFiniteSet(DOMAIN disc) /\ DOMAIN disc = 0..(Length(disc) - 1)

DriveInv == /\ luntype \in Drives \cup {"HD"}
            /\ Contiguous
            /\ \A b \in DOMAIN disc : disc[b] \in Val \cup {Zero}
            /\ pos \in Nat
            /\ state \in {"serving", "hung", "down"}
            /\ reply \in {"none", "good", "rejected"}
            /\ trackSize \in Nat
            /\ luntype = "DVD_ROM" => trackSize <= Length(disc) /\ pos <= Length(disc)

LEMMA LengthFacts ==
  ASSUME NEW d, NEW n \in Nat, DOMAIN d = 0..(n - 1)
  PROVE  IsFiniteSet(DOMAIN d) /\ Length(d) = n
BY FS_Interval DEF Length

LEMMA LengthNat ==
  ASSUME DriveInv PROVE Length(disc) \in Nat /\ DOMAIN disc = 0..(Length(disc) - 1)
BY FS_CardinalityType DEF DriveInv, Contiguous, Length

LEMMA DriveInvInit == EngineInit => DriveInv
<1> SUFFICES ASSUME EngineInit PROVE DriveInv
  OBVIOUS
<1>1. disc \in Discs
  BY DEF EngineInit
<1>2. PICK n \in Nat : disc \in [0..(n - 1) -> Val \cup {Zero}]
  <2>1. CASE luntype = "DVD_ROM"
    <3>1. PICK n \in 0..(Size + 1) : disc \in [0..(n - 1) -> Val]
      BY <1>1, <2>1 DEF Discs
    <3> QED  BY <3>1, SizeFacts
  <2>2. CASE luntype # "DVD_ROM"
    <3>1. disc = Empty /\ 0..(0 - 1) = {}
      BY <1>1, <2>2 DEF Discs
    <3> QED  BY <3>1 DEF Empty
  <2> QED  BY <2>1, <2>2
<1>3. DOMAIN disc = 0..(n - 1) /\ \A b \in DOMAIN disc : disc[b] \in Val \cup {Zero}
  BY <1>2
<1>4. IsFiniteSet(DOMAIN disc) /\ Length(disc) = n
  BY <1>3, LengthFacts
<1> QED  BY <1>3, <1>4 DEF EngineInit, DriveInv, Contiguous

(* A step that leaves the disc is judged by where it leaves the stream and  *)
(* by the track it reports.                                                 *)
LEMMA DiscStays ==
  ASSUME DriveInv, luntype' = luntype, disc' = disc,
         state' \in {"serving", "hung", "down"}, reply' \in {"none", "good", "rejected"},
         pos' \in Nat, trackSize' \in Nat,
         luntype = "DVD_ROM" => trackSize' <= Length(disc) /\ pos' <= Length(disc)
  PROVE  DriveInv'
BY DEF DriveInv, Contiguous, Length

(* A burner's disc may be replaced by another. *)
LEMMA DiscChanges ==
  ASSUME DriveInv, luntype' = luntype, luntype = "DVD_R",
         state' \in {"serving", "hung", "down"}, reply' \in {"none", "good", "rejected"},
         trackSize' = trackSize, pos' \in Nat,
         NEW n \in Nat, DOMAIN disc' = 0..(n - 1), \A b \in DOMAIN disc' : disc'[b] \in Val \cup {Zero}
  PROVE  DriveInv'
<1>1. Contiguous'
  <2>1. IsFiniteSet(DOMAIN disc') /\ Length(disc') = n
    BY LengthFacts
  <2> QED  BY <2>1 DEF Contiguous
<1> QED  BY <1>1 DEF DriveInv

LEMMA EmptyFacts == DOMAIN Empty = {} /\ 0..(0 - 1) = {}
BY DEF Empty

LEMMA OtherMmcFacts == OtherMmc \subseteq {"good", "rejected"}
BY DEF OtherMmc, mmc_read_toc, mmc_get_performance, mmc_report_key, mmc_read_buffer_capacity,
   mmc_read_disc_information, mmc_get_configuration, spc_mode_sense10,
   mmc_prevent_allow_media_removal, mmc_set_cd_speed, mmc_set_streaming,
   mmc_synchronize_cache, mmc_reserve_track

LEMMA MmcKeeps ==
  ASSUME DriveInv, Mmc, luntype' = luntype, state' = state
  PROVE  DriveInv'
<1>0. Length(disc) \in Nat /\ pos \in Nat /\ trackSize \in Nat
      /\ (luntype = "DVD_ROM" => trackSize <= Length(disc) /\ pos <= Length(disc))
      /\ state' \in {"serving", "hung", "down"}
  BY LengthNat DEF DriveInv
<1>1. CASE Inform
  BY <1>0, <1>1, OtherMmcFacts, DiscStays DEF Inform, Reply, discVars
<1>2. CASE mmc_read_capacity
  BY <1>0, <1>2, DiscStays DEF mmc_read_capacity, Reply
<1>3. ASSUME NEW address \in {0, 1}, NEW lba \in {0, 1}, mmc_read_track_information(address, lba)
      PROVE  DriveInv'
  <2>1. reply' \in {"good", "rejected"} /\ disc' = disc /\ pos' = pos
    BY <1>3 DEF mmc_read_track_information, Reply, discVars
  <2>2. trackSize' \in Nat /\ (luntype = "DVD_ROM" => trackSize' <= Length(disc))
    BY <1>0, <1>3 DEF mmc_read_track_information
  <2> QED  BY <1>0, <2>1, <2>2, DiscStays
<1>4. ASSUME NEW format \in {0, 1, 13, 14, 17}, mmc_read_dvd_structure(format) PROVE DriveInv'
  <2>1. reply' \in {"good", "rejected"} /\ disc' = disc /\ trackSize' = trackSize
    BY <1>4 DEF mmc_read_dvd_structure, Reply
  <2>2. pos' \in Nat /\ (luntype = "DVD_ROM" => pos' <= Length(disc))
    BY <1>0, <1>4 DEF mmc_read_dvd_structure
  <2> QED  BY <1>0, <2>1, <2>2, DiscStays
<1> QED  BY <1>1, <1>2, <1>3, <1>4 DEF Mmc

(* START STOP UNIT, exit(10) included: a burner is left with its disc or    *)
(* with an empty one.                                                       *)
LEMMA StartStopKeeps ==
  ASSUME DriveInv, mmc_start_stop_unit, luntype' = luntype
  PROVE  DriveInv'
<1>0. Length(disc) \in Nat /\ pos \in Nat /\ trackSize \in Nat
      /\ (luntype = "DVD_ROM" => trackSize <= Length(disc) /\ pos <= Length(disc))
      /\ state \in {"serving", "hung", "down"} /\ reply \in {"none", "good", "rejected"}
  BY LengthNat DEF DriveInv
<1>1. CASE luntype # "DVD_R"
  BY <1>0, <1>1, DiscStays DEF mmc_start_stop_unit, Reply, discVars
<1>2. CASE luntype = "DVD_R"
  <2>1. /\ disc' \in {disc, Empty} /\ pos' = 0 /\ trackSize' = trackSize
        /\ state' \in {"serving", "hung", "down"} /\ reply' \in {"none", "good", "rejected"}
    BY <1>0, <1>2 DEF mmc_start_stop_unit, insert_new_dvd_r, insert_fails, Reply, toldVars
  <2>2. CASE disc' = Empty
    BY <1>2, <2>1, <2>2, EmptyFacts, DiscChanges
  <2>3. CASE disc' = disc
    BY <1>0, <1>2, <2>1, <2>3, DiscStays
  <2> QED  BY <2>1, <2>2, <2>3
<1> QED  BY <1>1, <1>2

(* The last block of a disc that is burnt at blocks lba..e. *)
LEMMA BurnFacts ==
  ASSUME DriveInv, NEW lba \in Nat, NEW n \in Nat \ {0}, NEW d \in [Blocks(lba, n) -> Val]
  PROVE  /\ \E m \in Nat \ {0} : DOMAIN Burn(d) = 0..(m - 1)
         /\ \A b \in DOMAIN Burn(d) : Burn(d)[b] \in Val \cup {Zero}
<1> DEFINE S == {Length(disc) - 1} \cup DOMAIN d
<1>1. PICK e : e = lba + n - 1
  OBVIOUS
<1>2. Length(disc) \in Nat /\ e \in Nat /\ S = {Length(disc) - 1} \cup lba..e
  BY <1>1, LengthNat DEF Blocks
<1>3. \E x \in S : \A y \in S : x >= y
  <2>1. CASE Length(disc) - 1 >= e
    BY <1>2, <2>1
  <2>2. CASE Length(disc) - 1 < e
    <3>1. e \in S /\ \A y \in S : e >= y
      BY <1>1, <1>2, <2>2
    <3> QED  BY <3>1
  <2> QED  BY <1>2, <2>1, <2>2
<1>4. Max(S) \in S /\ \A y \in S : Max(S) >= y
  BY <1>3 DEF Max
<1>5. Max(S) \in Nat
  <2>1. lba \in S /\ \A y \in S : y \in Int
    BY <1>1, <1>2
  <2> HIDE DEF S
  <2>2. Max(S) \in Int /\ Max(S) >= lba
    BY <1>4, <2>1
  <2> QED  BY <2>2
<1>6. DOMAIN Burn(d) = 0..Max(S)
  BY DEF Burn
<1>7. DOMAIN Burn(d) = 0..((Max(S) + 1) - 1) /\ Max(S) + 1 \in Nat \ {0}
  BY <1>5, <1>6
<1>8. \A b \in DOMAIN Burn(d) : Burn(d)[b] \in Val \cup {Zero}
  BY DEF Burn, DriveInv
<1> QED  BY <1>7, <1>8

LEMMA ReadKeeps ==
  ASSUME DriveInv, luntype' = luntype, NEW lba \in 0..Size, NEW n \in 0..MaxLen,
         mmc_read(lba, n)
  PROVE  DriveInv'
<1>0. Length(disc) \in Nat /\ pos \in Nat /\ trackSize \in Nat
      /\ (luntype = "DVD_ROM" => trackSize <= Length(disc) /\ pos <= Length(disc))
      /\ reply \in {"none", "good", "rejected"}
      /\ state \in {"serving", "hung", "down"} /\ DOMAIN disc = 0..(Length(disc) - 1)
  BY LengthNat DEF DriveInv
<1>1. lba \in Nat /\ n \in Nat
  BY AddressFacts, EngineAssumption DEF EngineAssumption
<1>2. CASE /\ InBounds(lba, n) => Blocks(lba, n) \subseteq DOMAIN disc
           /\ Reply(IF InBounds(lba, n) THEN "good" ELSE "rejected")
           /\ Seek(lba, n)
           /\ UNCHANGED <<disc, trackSize, state>>
  <2>1. pos' \in Nat /\ (luntype = "DVD_ROM" => pos' <= Length(disc))
    <3>1. CASE n > 0 /\ InBounds(lba, n)
      <4>1. lba + n - 1 \in Blocks(lba, n)
        BY <1>1, <3>1 DEF Blocks
      <4>2. lba + n - 1 \in 0..(Length(disc) - 1)
        BY <1>0, <1>2, <3>1, <4>1
      <4> QED  BY <1>0, <1>1, <1>2, <3>1, <4>2 DEF Seek
    <3>2. CASE ~(n > 0 /\ InBounds(lba, n))
      BY <1>0, <1>2, <3>2 DEF Seek
    <3> QED  BY <3>1, <3>2
  <2> QED  BY <1>0, <1>2, <2>1, DiscStays DEF Reply
<1>3. CASE Hang
  BY <1>0, <1>3, DiscStays DEF Hang, discVars, toldVars
<1> QED  BY <1>2, <1>3 DEF mmc_read

LEMMA WriteKeepsDrive ==
  ASSUME DriveInv, luntype' = luntype,
         NEW lba \in 0..Size, NEW n \in 0..MaxLen, NEW d \in [Blocks(lba, n) -> Val],
         mmc_write(lba, n, d)
  PROVE  DriveInv'
<1>0. Length(disc) \in Nat /\ pos \in Nat /\ trackSize \in Nat
      /\ (luntype = "DVD_ROM" => trackSize <= Length(disc) /\ pos <= Length(disc))
      /\ reply \in {"none", "good", "rejected"}
      /\ state \in {"serving", "hung", "down"}
  BY LengthNat DEF DriveInv
<1>1. lba \in Nat /\ n \in Nat
  BY AddressFacts, EngineAssumption DEF EngineAssumption
<1>2. CASE state' = "hung" /\ Hang
  BY <1>0, <1>2, DiscStays DEF Hang, discVars, toldVars
<1>3. CASE /\ InBounds(lba, n) /\ n > 0 => luntype = "DVD_R"
           /\ Reply(IF InBounds(lba, n) THEN "good" ELSE "rejected")
           /\ Seek(lba, n)
           /\ disc' = IF InBounds(lba, n) /\ n > 0 THEN Burn(d) ELSE disc
           /\ UNCHANGED <<trackSize, state>>
  <2>1. CASE InBounds(lba, n) /\ n > 0
    <3>1. PICK m \in Nat \ {0} : DOMAIN Burn(d) = 0..(m - 1)
      BY <1>1, <2>1, BurnFacts
    <3>2. \A b \in DOMAIN Burn(d) : Burn(d)[b] \in Val \cup {Zero}
      BY <1>1, <2>1, BurnFacts
    <3>3. /\ disc' = Burn(d) /\ luntype = "DVD_R" /\ pos' \in Nat /\ reply' = "good"
          /\ trackSize' = trackSize /\ state' = state
      BY <1>1, <1>3, <2>1 DEF Seek, Reply
    <3> HIDE DEF Burn
    <3>4. DOMAIN disc' = 0..(m - 1) /\ \A b \in DOMAIN disc' : disc'[b] \in Val \cup {Zero}
      BY <3>1, <3>2, <3>3
    <3> QED  BY <1>0, <3>3, <3>4, DiscChanges
  <2>2. CASE ~(InBounds(lba, n) /\ n > 0)
    BY <1>0, <1>3, <2>2, DiscStays DEF Seek, Reply
  <2> QED  BY <2>1, <2>2
<1> QED  BY <1>2, <1>3 DEF mmc_write, Hang

LEMMA DriveInvNext == DriveInv /\ [DisksNext \/ DriveNext]_engineVars => DriveInv'
<1> SUFFICES ASSUME DriveInv, [DisksNext \/ DriveNext]_engineVars PROVE DriveInv'
  OBVIOUS
<1>1. CASE UNCHANGED driveVars
  BY <1>1 DEF driveVars, discVars, toldVars, DriveInv, Contiguous, Length
<1>2. CASE DriveNext
  <2>0. luntype' = luntype
    BY <1>2 DEF DriveNext
  <2>1. CASE Mmc /\ UNCHANGED state
    BY <2>0, <2>1, MmcKeeps
  <2>2. CASE BlockTransfer
    BY <2>0, <2>2, ReadKeeps, WriteKeepsDrive DEF BlockTransfer
  <2>3. CASE mmc_start_stop_unit
    BY <2>0, <2>3, StartStopKeeps
  <2>4. CASE KillDrive
    BY <2>0, <2>4, DiscStays DEF KillDrive, discVars, toldVars, DriveInv
  <2>5. CASE RestartDrive
    <3>1. state' = "serving" /\ pos' = 0 /\ reply' = reply /\ trackSize' = trackSize
      BY <2>5 DEF RestartDrive, toldVars
    <3>2. CASE luntype = "DVD_R"
      <4>1. disc' = Empty
        BY <2>5, <3>2 DEF RestartDrive
      <4> QED  BY <2>0, <3>1, <3>2, <4>1, EmptyFacts, DiscChanges DEF DriveInv
    <3>3. CASE luntype # "DVD_R"
      <4>1. disc' = disc
        BY <2>5, <3>3 DEF RestartDrive
      <4> QED  BY <2>0, <3>1, <4>1, LengthNat, DiscStays DEF DriveInv
    <3> QED  BY <3>2, <3>3
  <2> QED  BY <1>2, <2>1, <2>2, <2>3, <2>4, <2>5 DEF DriveNext
<1> QED  BY <1>1, <1>2 DEF DisksNext, engineVars

(* The inductive invariant of the drive. *)
THEOREM DriveInvariant == EngineSpec => []DriveInv
BY DriveInvInit, DriveInvNext, PTL DEF EngineSpec

(* The disks' files and the drive keep their types: a disc is a file whose  *)
(* blocks are the first so many, holes included (scsi.c:1407). *)
THEOREM DriveTypeCorrect == EngineSpec => []DriveTypeOK
<1>1. DiskInv => TypeOK
  <2> SUFFICES ASSUME DiskInv PROVE TypeOK
    OBVIOUS
  <2>1. Size - 1 \in 0..(Size + MaxLen)
    BY SizeFacts, EngineAssumption DEF EngineAssumption
  <2>2. Medium0 \subseteq UNION {[0..k -> Val] : k \in 0..(Size + MaxLen)}
    BY <2>1 DEF Medium0
  <2>3. image \in [Luns -> UNION {[0..k -> Val] : k \in 0..(Size + MaxLen)}]
    BY <2>2 DEF DiskInv
  <2> QED  BY <2>3, SizeFacts DEF DiskInv, TypeOK
<1>2. DriveInv /\ DiskInv => DriveTypeOK
  <2> SUFFICES ASSUME DriveInv, TypeOK PROVE DriveTypeOK
    BY <1>1
  <2> QED  BY LengthNat DEF DriveInv, DriveTypeOK
<1> QED  BY <1>2, DiskInvariant, DriveInvariant, PTL

(* A DVD-ROM's track, reported from where the stream happens to be          *)
(* (scsi.c:363), is never reported longer than its disc. *)
THEOREM TrackAlwaysWithinDisc == EngineSpec => []TrackWithinDisc
<1>1. DriveInv => TrackWithinDisc
  BY DEF DriveInv, TrackWithinDisc
<1> QED  BY <1>1, DriveInvariant, PTL
=============================================================================
