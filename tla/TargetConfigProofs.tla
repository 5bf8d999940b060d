------------------------- MODULE TargetConfigProofs -------------------------
(***************************************************************************)
(* Proofs about the configuration of targets, for any number of targets,   *)
(* files and LUNs.                                                         *)
(*                                                                         *)
(* Every target cuts all files to the size of the last one.  The argument  *)
(* is that the size of that last file never changes once some target has   *)
(* seen all of them (its own size is what it is cut to), so a target       *)
(* started later cuts the files to the size they already have, and gives   *)
(* its LUNs the same size even where truncate() fails.                     *)
(***************************************************************************)
EXTENDS TargetConfig, TLAPS

LastFile == option[Len(option)]

(* The first n files are different ones. *)
SeenDiffer(n) == \A i, j \in 1..n : option[i] = option[j] => i = j

(* Those t has looked at are; it starts at the first. *)
SeenSoFar(t) == /\ pc[t] = "off" => next[t] = 1
                /\ pc[t] = "stat" => SeenDiffer(next[t] - 1)

(* t has seen all files: it remembers the size of the last one, which is a  *)
(* whole number of megabytes.                                               *)
Remembers(t) == /\ SeenDiffer(Len(option))
                /\ Len(option) > 0 => fstat[t] = size[LastFile] /\ fstat[t] % PerMb = 0

SeenAll(t) == pc[t] \in {"add", "serve"} \/ (pc[t] = "stat" /\ next[t] = Len(option) + 1)

(* The LUNs of t all have the size of the last file, and so have the files  *)
(* that were cut.                                                           *)
LunsEven(t) == \A i \in DOMAIN luns[t] :
  /\ option[i] \notin uncut => size[option[i]] = size[LastFile]
  /\ luns[t][i] * PerMb = size[LastFile]
  /\ luns[t][i] = size[LastFile] \div PerMb

Typed == TypeOK /\ DOMAIN luns = Target

ConfigInv == /\ Typed
             /\ \A t \in Target : SeenSoFar(t) /\ (SeenAll(t) => Remembers(t)) /\ LunsEven(t)

LEMMA OptionIsSeq ==
  ASSUME option \in Options
  PROVE  /\ Len(option) \in Nat /\ DOMAIN option = 1..Len(option)
         /\ \A i \in 1..Len(option) : option[i] \in File
         /\ Len(option) > 0 => LastFile \in File /\ Len(option) \in DOMAIN option
<1>1. PICK n \in 0..MaxLuns : option \in [1..n -> File]
  BY DEF Options
<1>2. Len(option) = n /\ n \in Nat
  BY <1>1, ConfigAssumption DEF ConfigAssumption
<1> QED  BY <1>1, <1>2 DEF LastFile

LEMMA WholeMegabytes ==
  ASSUME NEW a \in Nat, a % PerMb = 0
  PROVE  (a \div PerMb) * PerMb = a /\ a \div PerMb \in Nat
BY ConfigAssumption DEF ConfigAssumption

LEMMA ConfigInvInit == Init => ConfigInv
<1> SUFFICES ASSUME Init PROVE ConfigInv
  OBVIOUS
<1>1. Typed
  BY OptionIsSeq, ConfigAssumption DEF ConfigAssumption, Init, Typed, TypeOK
<1> QED  BY <1>1, OptionIsSeq DEF Init, ConfigInv, SeenSoFar, SeenAll, LunsEven

(* A step that changes no size and nothing of the other targets is judged   *)
(* by what it does to its own target.                                       *)
LEMMA OwnStep ==
  ASSUME ConfigInv, NEW t \in Target, Typed', option' = option, size' = size,
         uncut' = uncut,
         \A u \in Target \ {t} : /\ pc'[u] = pc[u] /\ next'[u] = next[u]
                                 /\ fstat'[u] = fstat[u] /\ luns'[u] = luns[u],
         SeenSoFar(t)',
         SeenAll(t)' => Remembers(t)', LunsEven(t)'
  PROVE  ConfigInv'
<1> SUFFICES ASSUME NEW u \in Target \ {t}
             PROVE  SeenSoFar(u)' /\ (SeenAll(u)' => Remembers(u)') /\ LunsEven(u)'
  BY DEF ConfigInv
<1> QED  BY DEF ConfigInv, SeenDiffer, SeenSoFar, SeenAll, Remembers, LunsEven, LastFile

LEMMA StatKeeps == ASSUME ConfigInv, NEW t \in Target, Stat(t) PROVE ConfigInv'
<1> USE DEF ConfigInv, Typed, TypeOK
<1>1. /\ pc[t] = "stat" /\ next[t] \in 1..Len(option) /\ Suits(t)
      /\ fstat' = [fstat EXCEPT ![t] = size[option[next[t]]]]
      /\ next' = [next EXCEPT ![t] = @ + 1]
      /\ option' = option /\ size' = size /\ pc' = pc /\ luns' = luns /\ uncut' = uncut
  BY OptionIsSeq DEF Stat
<1>2. size[option[next[t]]] \in Nat /\ option[next[t]] \in File /\ Len(option) \in Nat
  BY <1>1, OptionIsSeq
<1>3. Typed'
  BY <1>1, <1>2
<1>4. next'[t] - 1 = next[t] /\ fstat'[t] = size[option[next[t]]]
  BY <1>1, <1>2
<1>5. SeenSoFar(t)'
  <2>1. \A i, j \in 1..next[t] : option[i] = option[j] => i = j
    BY <1>1, <1>2 DEF SeenSoFar, SeenDiffer, Suits
  <2> QED  BY <1>1, <1>4, <2>1 DEF SeenSoFar, SeenDiffer
<1>6. SeenAll(t)' => Remembers(t)'
  BY <1>1, <1>2, <1>4, <1>5 DEF SeenAll, Remembers, SeenSoFar, SeenDiffer, Suits, LastFile
<1>7. LunsEven(t)'
  BY <1>1 DEF LunsEven, LastFile
<1> QED  BY <1>1, <1>3, <1>5, <1>6, <1>7, OwnStep

LEMMA AddKeeps ==
  ASSUME ConfigInv, NEW t \in Target, add_lun(t) \/ add_lun_uncut(t)
  PROVE  ConfigInv'
<1> USE DEF ConfigInv, Typed, TypeOK
<1> DEFINE f == option[next[t]]
<1>1. /\ pc[t] = "add" /\ next[t] \in 1..Len(option) /\ next' = [next EXCEPT ![t] = @ + 1]
      /\ option' = option /\ pc' = pc /\ fstat' = fstat
      /\ Len(option) \in Nat /\ DOMAIN option = 1..Len(option)
  BY OptionIsSeq DEF add_lun, add_lun_uncut, Step
<1>2. LastFile \in File /\ f \in File /\ size[LastFile] \in Nat
  BY <1>1, OptionIsSeq
<1>3. fstat[t] = size[LastFile] /\ Mb(t) * PerMb = size[LastFile] /\ Mb(t) \in Nat
  BY <1>1, <1>2, WholeMegabytes DEF SeenAll, Remembers, Mb
<1>4. \/ size' = [size EXCEPT ![f] = size[LastFile]] /\ uncut' = uncut \ {f}
      \/ size' = size /\ uncut' = uncut \cup {f}
  BY <1>3 DEF add_lun, add_lun_uncut
<1> HIDE DEF f
<1>5. size'[LastFile] = size[LastFile] /\ LastFile' = LastFile /\ size' \in [File -> Nat]
  BY <1>1, <1>2, <1>4 DEF LastFile
<1>6. /\ \A g \in File : g \notin uncut' => g \notin uncut \/ g = f
      /\ \A g \in File \ {f} : size'[g] = size[g]
      /\ f \notin uncut' => size'[f] = size[LastFile]
      /\ uncut' \in SUBSET File
  BY <1>2, <1>4
<1>7. /\ DOMAIN luns' = Target
      /\ \A u \in Target \ {t} : luns'[u] = luns[u]
      /\ DOMAIN luns'[t] = DOMAIN luns[t] \cup {next[t]}
      /\ luns'[t][next[t]] = Mb(t)
      /\ \A i \in DOMAIN luns[t] : i # next[t] => luns'[t][i] = luns[t][i]
  BY DEF add_lun, add_lun_uncut, Added
<1>8. Typed'
  <2>1. next' \in [Target -> 1..(Len(option') + 1)]
    BY <1>1
  <2>2. \A u \in Target : DOMAIN luns'[u] \subseteq DOMAIN option'
    BY <1>1, <1>7
  <2>3. \A u \in Target : pc'[u] \in {"off", "stat"} => luns'[u] = <<>>
    BY <1>1, <1>7
  <2> QED  BY <1>1, <1>5, <1>6, <1>7, <2>1, <2>2, <2>3
<1>9. ASSUME NEW u \in Target
      PROVE  SeenSoFar(u)' /\ (SeenAll(u)' => Remembers(u)')
  <2>1. \A n : SeenDiffer(n)' = SeenDiffer(n)
    BY <1>1 DEF SeenDiffer
  <2>2. SeenSoFar(u)'
    BY <1>1, <2>1 DEF SeenSoFar
  <2>3. SeenAll(u)' => SeenAll(u)
    BY <1>1 DEF SeenAll
  <2>4. Remembers(u) => Remembers(u)'
    BY <1>1, <1>5, <2>1 DEF Remembers
  <2> QED  BY <2>2, <2>3, <2>4
<1>10. ASSUME NEW u \in Target, NEW i \in DOMAIN luns'[u]
       PROVE  /\ option'[i] \notin uncut' => size'[option'[i]] = size'[LastFile']
              /\ luns'[u][i] * PerMb = size'[LastFile']
              /\ luns'[u][i] = size'[LastFile'] \div PerMb
  <2>1. CASE i \in DOMAIN luns[u] /\ (u = t => i # next[t])
    <3>1. luns'[u][i] = luns[u][i] /\ option[i] \in File /\ option' = option
      BY <1>1, <1>7, <2>1, OptionIsSeq
    <3>2. /\ luns[u][i] * PerMb = size[LastFile] /\ luns[u][i] = size[LastFile] \div PerMb
          /\ option[i] \notin uncut => size[option[i]] = size[LastFile]
      BY <2>1 DEF LunsEven
    <3> QED  BY <1>5, <1>6, <3>1, <3>2
  <2>2. CASE u = t /\ i = next[t]
    <3>1. option'[i] = f /\ luns'[u][i] = Mb(t)
      BY <1>1, <1>7, <2>2 DEF f
    <3> QED  BY <1>3, <1>5, <1>6, <3>1 DEF Mb
  <2> QED  BY <1>7, <1>10, <2>1, <2>2
<1> QED  BY <1>8, <1>9, <1>10 DEF LunsEven

LEMMA ConfigInvNext == ConfigInv /\ [Next]_vars => ConfigInv'
<1> SUFFICES ASSUME ConfigInv, [Next]_vars PROVE ConfigInv'
  OBVIOUS
<1>1. CASE UNCHANGED vars
  <2>1. Typed'
    BY <1>1 DEF vars, ConfigInv, Typed, TypeOK
  <2>2. \A t \in Target : SeenSoFar(t)' /\ (SeenAll(t)' => Remembers(t)') /\ LunsEven(t)'
    BY <1>1 DEF vars, ConfigInv, SeenDiffer, SeenSoFar, SeenAll, Remembers, LunsEven, LastFile
  <2> QED  BY <2>1, <2>2 DEF ConfigInv
<1>2. ASSUME NEW t \in Target, Start(t) PROVE ConfigInv'
  <2>1. /\ pc' = [pc EXCEPT ![t] = "stat"] /\ option' = option /\ size' = size
        /\ next' = next /\ fstat' = fstat /\ luns' = luns /\ pc[t] = "off" /\ uncut' = uncut
    BY <1>2 DEF Start
  <2>2. Typed' /\ luns'[t] = <<>>
    BY <2>1 DEF ConfigInv, Typed, TypeOK
  <2>3. SeenSoFar(t)' /\ (SeenAll(t)' => Remembers(t)') /\ LunsEven(t)'
    BY <2>1, <2>2, OptionIsSeq DEF ConfigInv, Typed, TypeOK, SeenSoFar, SeenAll, Remembers,
       SeenDiffer, LunsEven
  <2> QED  BY <2>1, <2>2, <2>3, OwnStep DEF ConfigInv, Typed, TypeOK
<1>3. ASSUME NEW t \in Target, Stat(t) PROVE ConfigInv'
  BY <1>3, StatKeeps
<1>4. ASSUME NEW t \in Target, AllSeen(t) \/ Register(t) PROVE ConfigInv'
  <2>1. /\ option' = option /\ size' = size /\ fstat' = fstat /\ luns' = luns
        /\ SeenAll(t) /\ pc'[t] \in {"add", "serve"} /\ uncut' = uncut
        /\ \A u \in Target \ {t} : pc'[u] = pc[u] /\ next'[u] = next[u]
    BY <1>4, OptionIsSeq DEF AllSeen, Register, ConfigInv, Typed, TypeOK, SeenAll
  <2>2. Typed'
    <3>1. pc' \in [Target -> {"off", "stat", "add", "serve"}]
      BY <1>4 DEF AllSeen, Register, ConfigInv, Typed, TypeOK
    <3>2. next' \in [Target -> 1..(Len(option) + 1)]
      BY <1>4, OptionIsSeq DEF AllSeen, Register, ConfigInv, Typed, TypeOK
    <3> QED  BY <2>1, <3>1, <3>2 DEF ConfigInv, Typed, TypeOK
  <2>3. SeenSoFar(t)' /\ Remembers(t)' /\ LunsEven(t)'
    BY <2>1 DEF ConfigInv, SeenSoFar, SeenDiffer, Remembers, LunsEven, LastFile
  <2> QED  BY <2>1, <2>2, <2>3, OwnStep
<1>5. ASSUME NEW t \in Target, add_lun(t) \/ add_lun_uncut(t) PROVE ConfigInv'
  BY <1>5, AddKeeps
<1>6. ASSUME NEW t \in Target, add_lun_fails(t) PROVE ConfigInv'
  <2>1. /\ pc[t] = "add" /\ next[t] \in DOMAIN option /\ next' = [next EXCEPT ![t] = @ + 1]
        /\ option' = option /\ pc' = pc /\ fstat' = fstat /\ size' = size /\ luns' = luns
        /\ uncut' = uncut
    BY <1>6 DEF add_lun_fails, Step
  <2>2. Typed'
    BY <2>1, OptionIsSeq DEF ConfigInv, Typed, TypeOK
  <2>3. SeenSoFar(t)' /\ Remembers(t)' /\ LunsEven(t)'
    BY <2>1 DEF ConfigInv, SeenSoFar, SeenAll, SeenDiffer, Remembers, LunsEven, LastFile
  <2>4. \A u \in Target \ {t} : next'[u] = next[u]
    BY <2>1 DEF ConfigInv, Typed, TypeOK
  <2> QED  BY <2>1, <2>2, <2>3, <2>4, OwnStep
<1>7. ASSUME NEW t \in Target, Exit(t) PROVE ConfigInv'
  <2>1. /\ pc' = [pc EXCEPT ![t] = "off"] /\ next' = [next EXCEPT ![t] = 1]
        /\ fstat' = [fstat EXCEPT ![t] = 0] /\ luns' = [luns EXCEPT ![t] = <<>>]
        /\ option' = option /\ size' = size /\ uncut' = uncut
    BY <1>7 DEF Exit
  <2>2. Typed' /\ luns'[t] = <<>> /\ pc'[t] = "off" /\ next'[t] = 1
    BY <2>1, OptionIsSeq DEF ConfigInv, Typed, TypeOK
  <2>3. SeenSoFar(t)' /\ ~SeenAll(t)' /\ LunsEven(t)'
    BY <2>2 DEF SeenSoFar, SeenAll, LunsEven
  <2> QED  BY <2>1, <2>2, <2>3, OwnStep DEF ConfigInv, Typed, TypeOK
<1> QED  BY <1>1, <1>2, <1>3, <1>4, <1>5, <1>6, <1>7 DEF Next

(* The inductive invariant of the configuration. *)
THEOREM ConfigInvariant == Spec => []ConfigInv
BY ConfigInvInit, ConfigInvNext, PTL DEF Spec

(* A target serves each file with the size the file has, unless the file    *)
(* could not be cut to it, and the same size as every other target, however *)
(* many are started, killed or fail half way (main.c:134,                   *)
(* scsi_target.c:173).                                                      *)
THEOREM SizesAlwaysAgree == Spec => []SizesAgree
<1>1. ConfigInv => SizesAgree
  BY DEF ConfigInv, Typed, LunsEven, SizesAgree
<1> QED  BY <1>1, ConfigInvariant, PTL
=============================================================================
