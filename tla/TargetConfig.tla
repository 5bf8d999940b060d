---------------------------- MODULE TargetConfig ----------------------------
(***************************************************************************)
(* How targets come to serve their LUN files: configure_scsi_target        *)
(* (user/main.c) over add_lun (user/scsi_target.c).  Every target of the   *)
(* session is started with the same -files option, as a second engine for  *)
(* the same disks is; LUN i is the i-th file.                              *)
(***************************************************************************)
EXTENDS Integers, Sequences

CONSTANTS Target,   \* the targets of the session
          File,     \* the files of the host that serves the LUNs
          PerMb,    \* the units of a size in a megabyte
          MaxSize,  \* bound: size of a file, in units
          MaxLuns   \* bound: how many files an option names

ASSUME ConfigAssumption == /\ PerMb \in Nat \ {0}
                           /\ MaxSize \in Nat /\ MaxLuns \in Nat

VARIABLES
  option,   \* the files of the -files option
  size,     \* size[f], in units
  pc,       \* where t is: off, looking at its files, adding LUNs, serving
  next,     \* next[t]: the file t is at
  fstat,    \* fstat[t]: the size t saw last
  luns,     \* luns[t]: lunsizeinmb of each LUN added
  uncut     \* history: the files whose last truncate() failed

vars == <<option, size, pc, next, fstat, luns, uncut>>

Options == UNION {[1..n -> File] : n \in 0..MaxLuns}

TypeOK == /\ option \in Options
          /\ size \in [File -> Nat]
          /\ pc \in [Target -> {"off", "stat", "add", "serve"}]
          /\ next \in [Target -> 1..(Len(option) + 1)]
          /\ fstat \in [Target -> Nat]
          /\ uncut \in SUBSET File
          /\ \A t \in Target : DOMAIN luns[t] \subseteq DOMAIN option
          /\ \A t \in Target : pc[t] \in {"off", "stat"} => luns[t] = <<>>

Init == /\ option \in Options
        /\ size \in [File -> 0..MaxSize]
        /\ pc = [t \in Target |-> "off"]
        /\ next = [t \in Target |-> 1]
        /\ fstat = [t \in Target |-> 0]
        /\ luns = [t \in Target |-> <<>>]
        /\ uncut = {}
-----------------------------------------------------------------------------
Start(t) == /\ pc[t] = "off"
            /\ pc' = [pc EXCEPT ![t] = "stat"]
            /\ UNCHANGED <<option, size, next, fstat, luns, uncut>>

(* The file is not named twice and has a whole number of megabytes. *)
Suits(t) == /\ \A k \in 1..(next[t] - 1) : option[k] # option[next[t]]
            /\ size[option[next[t]]] % PerMb = 0

(* One file is looked at; only the last size is remembered. *)
Stat(t) == /\ pc[t] = "stat" /\ next[t] \in DOMAIN option
           /\ Suits(t)
           /\ fstat' = [fstat EXCEPT ![t] = size[option[next[t]]]]
           /\ next' = [next EXCEPT ![t] = @ + 1]
           /\ UNCHANGED <<option, size, pc, luns, uncut>>

AllSeen(t) == /\ pc[t] = "stat" /\ next[t] \notin DOMAIN option
              /\ pc' = [pc EXCEPT ![t] = "add"]
              /\ next' = [next EXCEPT ![t] = 1]
              /\ UNCHANGED <<option, size, fstat, luns, uncut>>

(* lunsizeinmb *)
Mb(t) == fstat[t] \div PerMb

Added(t) == luns' = [luns EXCEPT ![t] =
              [i \in DOMAIN @ \cup {next[t]} |-> IF i = next[t] THEN Mb(t) ELSE @[i]]]

Step(t) == /\ pc[t] = "add" /\ next[t] \in DOMAIN option
           /\ next' = [next EXCEPT ![t] = @ + 1]
           /\ UNCHANGED <<option, pc, fstat>>

(* Mutation of add_lun: the file keeps its size.                            *)
add_lun_Keeps(t) == Step(t) /\ Added(t) /\ UNCHANGED <<size, uncut>>

(* add_lun opens the file and truncates it to the size the caller gives. *)
add_lun(t) == /\ Step(t) /\ Added(t)
              /\ size' = [size EXCEPT ![option[next[t]]] = Mb(t) * PerMb]
              /\ uncut' = uncut \ {option[next[t]]}

(* truncate() fails, which add_lun does not look at: the LUN is added. *)
add_lun_uncut(t) == /\ Step(t) /\ Added(t)
                    /\ uncut' = uncut \cup {option[next[t]]}
                    /\ UNCHANGED size

(* The file cannot be opened: add_lun returns NULL, which main ignores. *)
add_lun_fails(t) == Step(t) /\ UNCHANGED <<size, luns, uncut>>

(* register_scsi_host *)
Register(t) == /\ pc[t] = "add" /\ next[t] \notin DOMAIN option
               /\ pc' = [pc EXCEPT ![t] = "serve"]
               /\ UNCHANGED <<option, size, next, fstat, luns, uncut>>

(* exit(1) on a file that does not suit or cannot be looked at, any later   *)
(* failure, or a signal.                                                    *)
Exit(t) == /\ pc[t] # "off"
           /\ pc' = [pc EXCEPT ![t] = "off"]
           /\ next' = [next EXCEPT ![t] = 1]
           /\ fstat' = [fstat EXCEPT ![t] = 0]
           /\ luns' = [luns EXCEPT ![t] = <<>>]
           /\ UNCHANGED <<option, size, uncut>>

Next == \E t \in Target : \/ Start(t) \/ Stat(t) \/ AllSeen(t)
                          \/ add_lun(t) \/ add_lun_uncut(t) \/ add_lun_fails(t)
                          \/ Register(t) \/ Exit(t)

Spec == Init /\ [][Next]_vars
-----------------------------------------------------------------------------
(* The size a target checks commands against is the size of the file, for  *)
(* as long as it serves it and whatever other targets are started, killed  *)
(* or fail half way (main.c:134, scsi_target.c:173): READ CAPACITY and the *)
(* bounds of reads and writes rest on it.  Where truncate() fails the file *)
(* keeps another size, but the engines of one disk still agree with each   *)
(* other on what it is.                                                    *)
SizesAgree == /\ TypeOK
              /\ \A t \in Target : \A i \in DOMAIN luns[t] :
                   option[i] \notin uncut => size[option[i]] = luns[t][i] * PerMb
              /\ \A t, u \in Target : \A i \in DOMAIN luns[t] \cap DOMAIN luns[u] :
                   luns[t][i] = luns[u][i]
=============================================================================
