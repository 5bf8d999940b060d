------------------------------ MODULE Transfer ------------------------------
(***************************************************************************)
(* The bytes of a command on their way between the host's buffer and a     *)
(* target's request_buffer: the copies of the control device               *)
(* (kernel/device.c), the sense data (kernel/hba.c) and the offsets at     *)
(* which user/vscsiapi.c and user/main.c look for header and data.         *)
(*                                                                         *)
(* A byte is known by where it comes from, so that one that lands in the   *)
(* wrong place, or in the wrong command, is recognised.  A command stands  *)
(* for one issue, known to the targets by its number.                      *)
(***************************************************************************)
EXTENDS Integers, Sequences

CONSTANTS Target,        \* the user targets, each with a request_buffer
          Cmds,          \* bound: how many commands are issued
          AnswerHeader,  \* 6: the header of an answer
          UHeader,       \* SCSITAP_UHEADER_SIZE
          SenseLen,      \* 14: the sense bytes that an answer may carry
          Room,          \* BUFFER_SIZE
          Scatter        \* bound: the scatter lists, as segment lengths

Cmd == 1..Cmds

(* at[j]: the bytes in the first j segments. *)
Ends(lens) == LET at[j \in 0..Len(lens)] == IF j = 0 THEN 0 ELSE at[j - 1] + lens[j]
              IN  at
Bytes(lens) == Ends(lens)[Len(lens)]

(* Transfers fit: SCSITAP_MAX_SECTORS bounds them to 128k. *)
ASSUME TransferAssumption ==
  /\ Cmds \in Nat
  /\ AnswerHeader \in Nat \ {0} /\ UHeader \in Nat /\ AnswerHeader < UHeader
  /\ SenseLen \in Nat /\ Room \in Nat /\ AnswerHeader + SenseLen <= Room
  /\ Scatter \subseteq Seq(Nat)
  /\ \A lens \in Scatter : UHeader + Bytes(lens) <= Room

VARIABLES
  life,      \* life[c]: new, the flags of its task in the queue, or how it ended
  dir,       \* dir[c]: sc_data_direction, O for DMA_TO_DEVICE
  segs,      \* segs[c]: the host's buffer, one sequence of bytes per segment
  sense,     \* sense[c]: the sense_buffer
  torn,      \* the commands whose answer failed to copy half-way
  pc,        \* pc[t]: where target t is in its loop
  held,      \* held[t]: the command whose header is in t's user_scsitap_task
  bufflen,   \* bufflen[t]: the request_bufflen in there
  rbuf,      \* rbuf[t]: t's request_buffer
  ran,       \* ran[t]: the status t's engine gave and the length of its reply
  took,      \* took[c]: the run whose answer completed c
  seen       \* seen[c]: the data that engines were given to write for c

hostVars   == <<life, dir, segs, sense, torn, took>>
targetVars == <<pc, held, bufflen, rbuf, ran>>
vars == <<hostVars, targetVars, seen>>

(* zero: memory that was cleared; host: a byte of the host's buffer as it   *)
(* was issued; reply, sense: a byte an engine put there; head: of a header; *)
(* fixed: sense data of the driver's own making.                            *)
Byte == {"zero", "host", "reply", "sense", "head", "fixed"} \X (0..Cmds) \X (0..Room)
Zero == <<"zero", 0, 0>>

(* The sense buffer: cleared, as set_sensedata_illegal leaves it, and as    *)
(* set_sensedata_commfailure does, which sets five bytes (here counted from *)
(* 1) and leaves the others as they are.                                    *)
set_sensedata         == [i \in 1..SenseLen |-> Zero]
set_sensedata_illegal == [i \in 1..SenseLen |-> <<"fixed", 0, 0>>]
set_sensedata_commfailure(old) ==
  [i \in 1..SenseLen |-> IF i \in {1, 3, 8, 13, 14} THEN <<"fixed", 0, 1>> ELSE old[i]]

(* A status byte: 0 for GOOD, 2 for CHECK CONDITION, and with the top bit   *)
(* set when sense data comes along.  The engine of this repository gives    *)
(* the first two.                                                           *)
Status == {0, 2, 130}
NoRun == [status |-> 0, len |-> 0]

Lens(m) == [j \in DOMAIN m |-> Len(m[j])]
Size(c) == Bytes(Lens(segs[c]))

(* The buffer of command c as the host issues it. *)
Issued(c, lens) == [j \in DOMAIN lens |->
                      [i \in 1..lens[j] |-> <<"host", c, Ends(lens)[j - 1] + i>>]]

Queued(c) == life[c] \in {"SUBMITTED", "RECEIVED"}
Ended == {"done", "aborted", "refused"}

TypeOK ==
  /\ life \in [Cmd -> {"new", "SUBMITTED", "RECEIVED"} \cup Ended]
  /\ dir \in [Cmd -> {"I", "O"}]
  /\ \A c \in Cmd : /\ Lens(segs[c]) \in Scatter \cup {<<>>}
                    /\ \A j \in DOMAIN segs[c] : segs[c][j] \in Seq(Byte)
  /\ sense \in [Cmd -> [1..SenseLen -> Byte]]
  /\ torn \in SUBSET Cmd
  /\ pc \in [Target -> {"down", "get", "claim", "data", "serve", "reply"}]
  /\ held \in [Target -> 0..Cmds]
  /\ bufflen \in [Target -> 0..Room]
  /\ rbuf \in [Target -> [0..(Room - 1) -> Byte]]
  /\ \A t \in Target : ran[t] \in [status : Status, len : 0..Room]
  /\ \A c \in Cmd : took[c] \in [status : Status, len : 0..Room]

Init == /\ life = [c \in Cmd |-> "new"]
        /\ dir = [c \in Cmd |-> "I"]
        /\ segs = [c \in Cmd |-> <<>>]
        /\ sense = [c \in Cmd |-> set_sensedata]
        /\ torn = {}
        /\ took = [c \in Cmd |-> NoRun]
        /\ pc = [t \in Target |-> "down"]
        /\ held = [t \in Target |-> 0]
        /\ bufflen = [t \in Target |-> 0]
        /\ rbuf = [t \in Target |-> [p \in 0..(Room - 1) |-> Zero]]
        /\ ran = [t \in Target |-> NoRun]
        /\ seen = [c \in Cmd |-> {}]
-----------------------------------------------------------------------------
(* scsitap_queuecommand: the session is ready while a target has it open.   *)

Up == {t \in Target : pc[t] # "down"}

(* The mid layer issues a command with a cleared sense buffer, and gives    *)
(* one that carries no data no direction, which the targets read as I.      *)
Issue(c, d, lens, l) ==
  /\ life[c] = "new" /\ \A b \in 1..(c - 1) : life[b] # "new"
  /\ d = "O" => Bytes(lens) > 0
  /\ life' = [life EXCEPT ![c] = l]
  /\ dir' = [dir EXCEPT ![c] = d]
  /\ segs' = [segs EXCEPT ![c] = Issued(c, lens)]

QueueAppend(c, d, lens) ==
  /\ Up # {}
  /\ Issue(c, d, lens, "SUBMITTED")
  /\ UNCHANGED <<sense, torn, took, targetVars, seen>>

QueueRefuse(c, d, lens) ==
  /\ Up = {}
  /\ Issue(c, d, lens, "refused")
  /\ sense' = [sense EXCEPT ![c] = set_sensedata_commfailure(@)]
  /\ UNCHANGED <<torn, took, targetVars, seen>>

(* The session is taken down: its commands come back as unreachable. *)
Destroy == /\ Up = {} /\ \E c \in Cmd : Queued(c)
           /\ life' = [c \in Cmd |-> IF Queued(c) THEN "refused" ELSE life[c]]
           /\ sense' = [c \in Cmd |-> IF Queued(c) THEN set_sensedata_commfailure(sense[c])
                                                   ELSE sense[c]]
           /\ UNCHANGED <<dir, segs, torn, took, targetVars, seen>>

(* Error recovery takes a command back; its buffer is the host's again. *)
Abort(c) == /\ Queued(c)
            /\ life' = [life EXCEPT ![c] = "aborted"]
            /\ UNCHANGED <<dir, segs, sense, torn, took, targetVars, seen>>
-----------------------------------------------------------------------------
(* The target's loop *)

(* Mutation of task_of_cmd: a task that was completed is still found.       *)
task_of_cmd_Freed(c) == life[c] # "new"

(* Whether the number a target holds finds a task. *)
task_of_cmd(c) == Queued(c)

Goes(t, from, to) == pc[t] = from /\ pc' = [pc EXCEPT ![t] = to]

(* register_scsi_host, with a request_buffer of zeros. *)
Start(t) == /\ Goes(t, "down", "get")
            /\ UNCHANGED <<hostVars, held, bufflen, rbuf, ran, seen>>

(* The process ends, and its memory with it. *)
Gone(t) == /\ pc' = [pc EXCEPT ![t] = "down"]
           /\ held' = [held EXCEPT ![t] = 0]
           /\ bufflen' = [bufflen EXCEPT ![t] = 0]
           /\ rbuf' = [rbuf EXCEPT ![t] = [p \in 0..(Room - 1) |-> Zero]]
           /\ ran' = [ran EXCEPT ![t] = NoRun]

(* The process is killed, or gives up because a copy of a header or of data *)
(* failed, the data of a write is gone, or its answer was not accepted.     *)
Exit(t) == pc[t] # "down" /\ Gone(t) /\ UNCHANGED <<hostVars, seen>>

(* The header of the oldest unclaimed task, with its request_bufflen. *)
GetTask(t) ==
  /\ Goes(t, "get", "claim")
  /\ \E c \in Cmd : /\ life[c] = "SUBMITTED"
                    /\ \A b \in 1..(c - 1) : life[b] # "SUBMITTED"
                    /\ held' = [held EXCEPT ![t] = c]
                    /\ bufflen' = [bufflen EXCEPT ![t] = Size(c)]
  /\ UNCHANGED <<hostVars, rbuf, ran, seen>>

ReceiveTask(t) ==
  /\ Goes(t, "claim", IF dir[held[t]] = "O" THEN "data" ELSE "serve")
  /\ life' = [life EXCEPT ![held[t]] = IF task_of_cmd(held[t]) THEN "RECEIVED" ELSE @]
  /\ UNCHANGED <<dir, segs, sense, torn, took, held, bufflen, rbuf, ran, seen>>

(* A flat buffer with the segments of m from position at on. *)
copy_to_user_sg(buf, at, m) ==
  [p \in DOMAIN buf |->
     IF p \in at..(at + Bytes(Lens(m)) - 1)
     THEN LET j == CHOOSE k \in DOMAIN m : /\ p - at >= Ends(Lens(m))[k - 1]
                                           /\ p - at < Ends(Lens(m))[k]
          IN  m[j][p - at - Ends(Lens(m))[j - 1] + 1]
     ELSE buf[p]]

(* The header that precedes the data. *)
scsitap_task_to_user(buf, c) ==
  [p \in DOMAIN buf |-> IF p < UHeader THEN <<"head", c, p>> ELSE buf[p]]

(* receive_scsi_data: the read is granted for a claimed task and its size. *)
ReceiveData(t) ==
  /\ Goes(t, "data", "serve")
  /\ life[held[t]] = "RECEIVED" /\ bufflen[t] = Size(held[t])
  /\ rbuf' = [rbuf EXCEPT ![t] = copy_to_user_sg(scsitap_task_to_user(@, held[t]),
                                                 UHeader, segs[held[t]])]
  /\ UNCHANGED <<hostVars, held, bufflen, ran, seen>>
-----------------------------------------------------------------------------
(* run_scsi_command *)

(* A reply of n bytes from position at on. *)
Fill(buf, at, kind, c, n) ==
  [p \in DOMAIN buf |-> IF p \in at..(at + n - 1) THEN <<kind, c, p - at + 1>> ELSE buf[p]]

(* A reply may be shorter than the transfer or longer, and a command that   *)
(* is rejected may have left one too.  Sense data that the status announces *)
(* lies behind the answer's header.                                         *)
RunIn(t) ==
  /\ Goes(t, "serve", "reply") /\ dir[held[t]] = "I"
  /\ \E s \in Status, n \in 0..(Room - UHeader) :
        /\ ran' = [ran EXCEPT ![t] = [status |-> s, len |-> n]]
        /\ rbuf' = [rbuf EXCEPT ![t] =
                       IF s < 128 THEN Fill(@, AnswerHeader, "reply", held[t], n)
                                  ELSE Fill(@, AnswerHeader, "sense", held[t], SenseLen)]
  /\ UNCHANGED <<hostVars, held, bufflen, seen>>

(* The n bytes from position at on. *)
Given(buf, at, n) == [i \in 1..n |-> buf[at + i - 1]]

(* Mutation of RunOut: the engine is pointed at the header.                 *)
RunOut_AtAnswer(t) ==
  /\ Goes(t, "serve", "reply") /\ dir[held[t]] = "O"
  /\ \E n \in 0..(Room - UHeader) :
        seen' = [seen EXCEPT ![held[t]] = @ \cup {Given(rbuf[t], AnswerHeader, n)}]
  /\ bufflen' = [bufflen EXCEPT ![t] = 0]
  /\ \E s \in Status : ran' = [ran EXCEPT ![t] = [status |-> s, len |-> 0]]
  /\ UNCHANGED <<hostVars, held, rbuf>>

(* The data of a write begins where the task's header ends.  How much of it *)
(* is written is what the CDB says, n bytes, whatever the transfer brought: *)
(* its length is passed along and not looked at.  The answer carries none.  *)
RunOut(t) ==
  /\ Goes(t, "serve", "reply") /\ dir[held[t]] = "O"
  /\ \E n \in 0..(Room - UHeader) :
        seen' = [seen EXCEPT ![held[t]] = @ \cup {Given(rbuf[t], UHeader, n)}]
  /\ bufflen' = [bufflen EXCEPT ![t] = 0]
  /\ \E s \in Status :
        /\ ran' = [ran EXCEPT ![t] = [status |-> s, len |-> 0]]
        /\ rbuf' = [rbuf EXCEPT ![t] = IF s < 128 THEN @
                       ELSE Fill(@, AnswerHeader, "sense", held[t], SenseLen)]
  /\ UNCHANGED <<hostVars, held>>
-----------------------------------------------------------------------------
(* complete_scsi_task and scsitap_ctl_write *)

(* Mutation of copy_from_user_sg: every segment is filled from the start.   *)
copy_from_user_sg_NoAdvance(m, buf, at, n) ==
  [j \in DOMAIN m |-> [i \in DOMAIN m[j] |->
     IF Ends(Lens(m))[j - 1] + i <= n THEN buf[at + i - 1] ELSE m[j][i]]]

(* The segments of m once n bytes from position at on have been copied. *)
copy_from_user_sg(m, buf, at, n) ==
  [j \in DOMAIN m |-> [i \in DOMAIN m[j] |->
     LET k == Ends(Lens(m))[j - 1] + i
     IN  IF k <= n THEN buf[at + k - 1] ELSE m[j][i]]]

(* The first n sense bytes of an answer, over what the buffer held. *)
copy_sense(old, buf, at, n) ==
  [i \in 1..SenseLen |-> IF i <= n THEN buf[at + i - 1] ELSE old[i]]

(* Mutation of SenseFrom: a good answer leaves the sense buffer as it is.   *)
SenseFrom_Kept(t, old) ==
  LET s == ran[t].status
  IN  CASE s = 0   -> old
        [] s = 2   -> set_sensedata_illegal
        [] OTHER   -> copy_sense(old, rbuf[t], AnswerHeader, SenseLen)

(* The sense buffer after t's answer: a status without the top bit brings   *)
(* no sense data.                                                           *)
SenseFrom(t, old) ==
  LET s == ran[t].status
  IN  CASE s = 0              -> set_sensedata
        [] s # 0 /\ s < 128   -> set_sensedata_illegal
        [] s >= 128           -> copy_sense(old, rbuf[t], AnswerHeader, SenseLen)

(* The answer names a command that is not queued any more: it is dropped. *)
AnswerDropped(t) ==
  /\ Goes(t, "reply", "get")
  /\ ~task_of_cmd(held[t])
  /\ UNCHANGED <<hostVars, held, bufflen, rbuf, ran, seen>>

(* A good answer that is longer than its header brings data.                *)
Answer(t) ==
  LET c == held[t]
  IN  /\ Goes(t, "reply", "get")
      /\ task_of_cmd(c)
      /\ segs' = [segs EXCEPT ![c] =
           IF ran[t].status = 0 /\ bufflen[t] > 0
           THEN copy_from_user_sg(@, rbuf[t], AnswerHeader, Size(c)) ELSE @]
      /\ sense' = [sense EXCEPT ![c] = SenseFrom(t, @)]
      /\ took' = [took EXCEPT ![c] = ran[t]]
      /\ life' = [life EXCEPT ![c] = "done"]
      /\ UNCHANGED <<dir, torn, held, bufflen, rbuf, ran, seen>>

(* The copy of an answer fails half-way, on a page that is not there: the   *)
(* command stays queued and the target exits.                               *)
AnswerFault(t) ==
  LET c == held[t]
      s == ran[t].status
  IN  /\ pc[t] = "reply" /\ task_of_cmd(c) /\ Gone(t)
      /\ \/ /\ s = 0 /\ bufflen[t] > 0
            /\ \E n \in 0..(Size(c) - 1) :
                 segs' = [segs EXCEPT ![c] = copy_from_user_sg(@, rbuf[t], AnswerHeader, n)]
            /\ UNCHANGED sense
         \/ /\ s >= 128
            /\ \E n \in 0..(SenseLen - 1) :
                 sense' = [sense EXCEPT ![c] = copy_sense(@, rbuf[t], AnswerHeader, n)]
            /\ UNCHANGED segs
      /\ torn' = torn \cup {c}
      /\ UNCHANGED <<life, dir, took, seen>>
-----------------------------------------------------------------------------
Host == \/ \E c \in Cmd : \/ Abort(c)
                         \/ \E d \in {"I", "O"}, lens \in Scatter :
                              QueueAppend(c, d, lens) \/ QueueRefuse(c, d, lens)
        \/ Destroy

Loop(t) == \/ Start(t) \/ Exit(t) \/ GetTask(t) \/ ReceiveTask(t) \/ ReceiveData(t)
           \/ RunIn(t) \/ RunOut(t) \/ AnswerDropped(t) \/ Answer(t) \/ AnswerFault(t)

Next == Host \/ \E t \in Target : Loop(t)

Spec == Init /\ [][Next]_vars
-----------------------------------------------------------------------------
(* What must hold of the bytes *)

(* Whatever a target served, fetched or failed at before, what the engine   *)
(* writes to the medium for a command is the host's data of that command,   *)
(* each byte in its place through however many segments it came, as far as  *)
(* the transfer goes (device.c:144, main.c:188).  Beyond it, when the CDB   *)
(* asks for more, the engine writes what earlier commands left behind.      *)
WritesHostData == \A c \in Cmd : \A w \in seen[c] :
                    \A i \in DOMAIN w : i <= Size(c) => w[i] = <<"host", c, i>>

(* A good command that reads holds the engine's reply to that command, in   *)
(* order, as far as the reply goes; bytes beyond it are not the reply's.    *)
(* No other answer changes the host's buffer: not one to a write, not one   *)
(* that rejects, and not error recovery, unless a copy had failed half-way  *)
(* on it (vscsiapi.c:57, device.c:215-250).                                 *)
ReadsReply ==
  /\ TypeOK
  /\ \A c \in Cmd : life[c] = "done" /\ dir[c] = "I" /\ took[c].status = 0 =>
       \A j \in DOMAIN segs[c] : \A i \in DOMAIN segs[c][j] :
         LET k == Ends(Lens(segs[c]))[j - 1] + i
         IN  segs[c][j][i] = <<"reply", c, k>> <=> k <= took[c].len
  /\ \A c \in Cmd : segs[c] # Issued(c, Lens(segs[c])) =>
       dir[c] = "I" /\ (c \in torn \/ (life[c] = "done" /\ took[c].status = 0))

(* Data and sense data of a command are of one answer, also when an earlier *)
(* answer to it failed half-way: good has none, check condition has what    *)
(* its engine sent or the driver's own (device.c:236-249).  The sense data  *)
(* of a command the driver sends back as unreachable is mixed with an       *)
(* engine's only if an answer to it had failed so (hba.c:158-165).          *)
SenseOfAnswer ==
  /\ \A c \in Cmd : life[c] = "done" =>
       sense[c] = CASE took[c].status = 0   -> set_sensedata
                    [] took[c].status = 2   -> set_sensedata_illegal
                    [] took[c].status = 130 -> [i \in 1..SenseLen |-> <<"sense", c, i>>]
  /\ \A c \in Cmd : life[c] = "refused" /\ c \notin torn =>
       sense[c] = set_sensedata_commfailure(set_sensedata)

(* Nothing is copied into the memory of a command that the mid layer has    *)
(* back: a late answer finds no task (device.c:207).                        *)
NotAfterReturn == [][\A c \in Cmd : life[c] \in Ended =>
                        segs'[c] = segs[c] /\ sense'[c] = sense[c]]_vars
=============================================================================
