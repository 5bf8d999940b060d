------------------------------ MODULE LunFile ------------------------------
(***************************************************************************)
(* One LUN file and the targets that serve it, each through a stdio stream *)
(* of its own (user/scsi.c, the stream opened by add_lun).  A read or a    *)
(* write command seeks, then transfers its blocks; the stream is never     *)
(* flushed explicitly, and the mid layer is answered at once.              *)
(*                                                                         *)
(* The stream is the C library's: a page of buffer that holds either data  *)
(* read ahead or the tail of the last write.  A seek writes that tail out, *)
(* and keeps the data read ahead when the new position lies in it.         *)
(***************************************************************************)
EXTENDS Integers

CONSTANTS Target,    \* the targets started on this file
          Blocks,    \* number of blocks of the LUN
          Page,      \* number of blocks in a stream's buffer
          Val        \* what a block may hold

ASSUME LunFileAssumption == /\ Blocks \in Nat \ {0}
                            /\ Page \in Nat \ {0}
                            /\ Val # {}

Block == 0..(Blocks - 1)

(* Partial contents: what a buffer or a transfer holds. *)
Data == UNION {[S -> Val] : S \in SUBSET Block}
Nothing == [b \in {} |-> CHOOSE v \in Val : TRUE]

VARIABLES
  file,     \* the blocks of the file, as any process reads them
  tail,     \* tail[t]: written by t, not yet written out by its stream
  ahead,    \* ahead[t]: read ahead by t's stream
  up,       \* the targets that run
  undo,     \* undo[t]: what the blocks of the last command that used t's
            \* stream held before it, if it was a write
  acked,    \* what the host has been told the LUN holds, less what was lost
  answer    \* the last answer the host got

vars == <<file, tail, ahead, up, undo, acked, answer>>

Overlay(d, old) == [b \in DOMAIN old |-> IF b \in DOMAIN d THEN d[b] ELSE old[b]]
Only(d, S) == [b \in S \cap DOMAIN d |-> d[b]]

TypeOK == /\ file \in [Block -> Val]
          /\ tail \in [Target -> Data]
          /\ ahead \in [Target -> Data]
          /\ up \in SUBSET Target
          /\ undo \in [Target -> Data]
          /\ acked \in [Block -> Val]
          /\ \A t \in Target \ up : tail[t] = Nothing /\ ahead[t] = Nothing

Init == /\ \E v \in Val : file = [b \in Block |-> v]
        /\ tail = [t \in Target |-> Nothing]
        /\ ahead = [t \in Target |-> Nothing]
        /\ up = {}
        /\ undo = [t \in Target |-> Nothing]
        /\ acked = file
        /\ answer = [kind |-> "none"]
-----------------------------------------------------------------------------
(* The stream *)

(* Mutation of Flushed: a seek leaves the unwritten tail where it is.       *)
Flushed_Not(t) == file

(* The file after t's stream has written out its tail, as every fseeko and *)
(* exit(1) make it do.                                                     *)
Flushed(t) == Overlay(tail[t], file)

PageOf(b) == {c \in Block : c \div Page = b \div Page}

(* What t's buffer still holds after a seek to block b. *)
Ahead(t, b) == IF b \in DOMAIN ahead[t] THEN Overlay(tail[t], ahead[t]) ELSE Nothing

(* What a fread from block b on returns: buffered blocks, the file's others. *)
Seen(t, b) == Overlay(Ahead(t, b), Flushed(t))
-----------------------------------------------------------------------------
(* A target opens the file (add_lun) and is registered. *)
Start(t) == /\ t \notin up
            /\ up' = up \cup {t}
            /\ UNCHANGED <<file, tail, ahead, undo, acked, answer>>

(* sbc_read10 of blocks b..e.  The stream ends up with the page of the last *)
(* block, with what it had, or with nothing.                                *)
Read(t, b, e) ==
  /\ t \in up
  /\ file' = Flushed(t)
  /\ tail' = [tail EXCEPT ![t] = Nothing]
  /\ \E kept \in {Nothing, Ahead(t, b), Only(Seen(t, b), PageOf(e))} :
        ahead' = [ahead EXCEPT ![t] = kept]
  /\ undo' = [undo EXCEPT ![t] = Nothing]
  /\ answer' = [kind |-> "read", data |-> Only(Seen(t, b), b..e)]
  /\ UNCHANGED <<up, acked>>

(* Mutation of Write: one that carries on where the last one ended does not *)
(* seek, and joins the unwritten tail.                                      *)
Write_NoSeek(t, b, e, d) ==
  /\ t \in up
  /\ tail' = [tail EXCEPT ![t] = [x \in (b..e) \cup IF b - 1 \in DOMAIN @ THEN DOMAIN @ ELSE {}
                                    |-> IF x \in b..e THEN d[x] ELSE @[x]]]
  /\ file' = IF b - 1 \in DOMAIN tail[t] THEN file ELSE Flushed(t)
  /\ ahead' = [ahead EXCEPT ![t] = Nothing]
  /\ undo' = [undo EXCEPT ![t] = Only(acked, b..e)]
  /\ acked' = Overlay(d, acked)
  /\ answer' = [kind |-> "written"]
  /\ UNCHANGED up

(* sbc_write6, sbc_write10, sbc_write12 of d to blocks b..e: the stream    *)
(* writes some of the blocks through and keeps less than a page of the     *)
(* last ones, depending on the alignment.                                  *)
Write(t, b, e, d) ==
  /\ t \in up
  /\ \E k \in b..(e + 1) :
        /\ e + 1 - k < Page
        /\ file' = Overlay(Only(d, b..(k - 1)), Flushed(t))
        /\ tail' = [tail EXCEPT ![t] = Only(d, k..e)]
        /\ \E kept \in {Nothing, Overlay(d, Ahead(t, b)), Only(d, k..e)} :
              ahead' = [ahead EXCEPT ![t] = kept]
  /\ undo' = [undo EXCEPT ![t] = Only(acked, b..e)]
  /\ acked' = Overlay(d, acked)
  /\ answer' = [kind |-> "written"]
  /\ UNCHANGED up

(* sbc_read_capacity10 seeks to the end of the file. *)
ReadCapacity(t) ==
  /\ t \in up
  /\ file' = Flushed(t)
  /\ tail' = [tail EXCEPT ![t] = Nothing]
  /\ ahead' = [ahead EXCEPT ![t] = Nothing]
  /\ undo' = [undo EXCEPT ![t] = Nothing]
  /\ UNCHANGED <<up, acked, answer>>

(* The commands that leave the stream alone, and with it the tail of an     *)
(* earlier write: TEST UNIT READY, INQUIRY, VERIFY, MODE SENSE, a transfer  *)
(* of no blocks, one that is rejected, and opcodes without a function, of   *)
(* which SYNCHRONIZE CACHE is one.                                          *)
LeaveStream(t) ==
  /\ t \in up
  /\ \E k \in {"good", "rejected"} : answer' = [kind |-> k]
  /\ UNCHANGED <<file, tail, ahead, up, undo, acked>>

(* The process ends, and its stream with it. *)
Gone(t) == /\ t \in up
           /\ up' = up \ {t}
           /\ tail' = [tail EXCEPT ![t] = Nothing]
           /\ ahead' = [ahead EXCEPT ![t] = Nothing]
           /\ undo' = [undo EXCEPT ![t] = Nothing]
           /\ UNCHANGED answer

(* Mutation of Exit: the process ends without the C library's exit.         *)
Exit_NoFlush(t) == Gone(t) /\ UNCHANGED <<file, acked>>

(* exit(1), on any failure in main: the C library flushes the stream. *)
Exit(t) == Gone(t) /\ file' = Flushed(t) /\ UNCHANGED acked

(* What the blocks in t's buffer held before: the loss if t is killed. *)
Lost(t) == Only(undo[t], DOMAIN tail[t])

(* A signal ends the target between two commands: its buffer is lost. *)
Kill(t) == Gone(t) /\ UNCHANGED file /\ acked' = Overlay(Lost(t), acked)
-----------------------------------------------------------------------------
Next == \E t \in Target :
          \/ Start(t) \/ ReadCapacity(t) \/ LeaveStream(t) \/ Exit(t) \/ Kill(t)
          \/ \E b, e \in Block :
               /\ b <= e
               /\ \/ Read(t, b, e)
                  \/ \E d \in [b..e -> Val] : Write(t, b, e, d)

Spec == Init /\ [][Next]_vars
-----------------------------------------------------------------------------
(* What the LUN promises *)

Host == INSTANCE CachedDisk WITH Lun <- Target, disk <- [t \in Target |-> acked],
                                 answer <- [t \in Target |-> answer]

(* With one target the LUN is a disk with a volatile cache: a read returns  *)
(* what was last acknowledged, exits and restarts lose nothing, and a kill  *)
(* undoes blocks of the last write only, until a command reads, writes or   *)
(* asks for the size.  This needs the flush hidden in every fseeko and a    *)
(* stream that never reads around its own unwritten tail (scsi.c:1321,      *)
(* 1407).                                                                   *)
DiskSpec == Host!CachedSpec

(* What a kill of the only target takes back is of its last write, and      *)
(* falls back to what the host was told before that write, never to older   *)
(* contents.  It is at risk until a command seeks, and a command that does  *)
(* not leaves it so, SYNCHRONIZE CACHE too, which disks reject (scsi.c:176, *)
(* 1321, 1407).                                                             *)
OnlyLastAtRisk == \A t \in Target : \A b \in DOMAIN tail[t] :
                    b \in DOMAIN undo[t] /\ file[b] = undo[t][b]

(* With one target the file differs from what the host was told in nothing  *)
(* but the tail the stream still has, also after a kill.                    *)
BehindByTail == TypeOK /\ \A t \in Target : Flushed(t) = acked

(* "It will attach this target as the second engine to the already          *)
(* installed HBA (load sharing/fault tolerance)" (README-BASE:85): whichever *)
(* target serves a read, it returns what was last acknowledged.             *)
ReadsCurrent == answer.kind = "read" =>
  \A b \in DOMAIN answer.data : answer.data[b] = acked[b]
=============================================================================
