------------------------- MODULE SessionTableProofs -------------------------
(***************************************************************************)
(* Proofs about the table of sessions, for any number of minors, files and *)
(* sessions.  The table and the scans keep their books whatever happens;   *)
(* that files are attached to live sessions needs a Device_Open that does  *)
(* not wrap (FewOpens), though it may be too high.                         *)
(***************************************************************************)
EXTENDS SessionTable, FiniteSetTheorems, TLAPS

(* Device_Open does not wrap: there are not 256 REGISTER ioctls at a time.  *)
FewOpens == MaxOpens < OpenMod
-----------------------------------------------------------------------------
(* First layer: the table and the work item *)

(* Sessions are numbered as they are created. *)
Numbered == \A s \in sessions : s <= created

(* The work item is run for a session. *)
WorkSet == queued > 0 \/ entered => work # NoSession

TableInv == TypeOK /\ Numbered /\ OnePerMinor /\ WorkSet /\ LastReadyScanned

LEMMA SidFinite == \A S \in SUBSET Sid : IsFiniteSet(S)
<1>1. IsFiniteSet(Sid)
  BY TableAssumption, FS_Interval DEF TableAssumption, Sid
<1> QED  BY <1>1, FS_Subset

LEMMA NoSessionIsNothing == NoSession \notin Sid
BY DEF NoSession, Sid

LEMMA TableInvInit == Init => TableInv
<1> SUFFICES ASSUME Init PROVE TableInv
  OBVIOUS
<1>1. TypeOK
  <2>1. 0 \in 0..(OpenMod - 1) /\ 0 \in 0..MaxSessions /\ 0 \in 0..MaxQueued
    BY TableAssumption DEF TableAssumption
  <2> QED  BY <2>1 DEF Init, TypeOK, NoSession
<1>2. OnePerMinor
  BY FS_EmptySet DEF Init, OnePerMinor
<1> QED  BY <1>1, <1>2 DEF Init, TableInv, Numbered, WorkSet, LastReadyScanned

(* A scan that is due again is due for the session that became ready. *)
LEMMA ScheduleScanKeeps ==
  ASSUME TableInv, NEW s \in Sid, ScheduleScan(s)
  PROVE  /\ work' \in Sid \cup {NoSession} /\ queued' \in 0..MaxQueued /\ entered' \in BOOLEAN
         /\ scanning' \in Sid \cup {NoSession} /\ scanned' \in SUBSET Sid
         /\ WorkSet' /\ LastReadyScanned'
BY TableAssumption, NoSessionIsNothing
   DEF TableAssumption, ScheduleScan, TableInv, TypeOK, WorkSet, LastReadyScanned

LEMMA AttachKeeps ==
  ASSUME TableInv, NEW f \in File, NEW s \in Sid, Attach(f, s)
  PROVE  /\ private_data' \in [File -> Sid \cup {NoSession}]
         /\ flags' \in [Sid -> {"READY", "NOT_READY"}]
         /\ opened' = opened /\ loaded' = loaded /\ repeated' \in SUBSET Sid
         /\ work' \in Sid \cup {NoSession} /\ queued' \in 0..MaxQueued /\ entered' \in BOOLEAN
         /\ scanning' \in Sid \cup {NoSession} /\ scanned' \in SUBSET Sid
         /\ WorkSet' /\ LastReadyScanned'
<1>1. CASE flags[s] = "NOT_READY"
  BY <1>1, ScheduleScanKeeps DEF Attach, TableInv, TypeOK
<1>2. CASE flags[s] # "NOT_READY"
  BY <1>2 DEF Attach, scanVars, TableInv, TypeOK, WorkSet, LastReadyScanned
<1> QED  BY <1>1, <1>2

LEMMA RegisterKeeps ==
  ASSUME TableInv, NEW f \in File, RegisterFound(f) \/ RegisterCreated(f)
  PROVE  TableInv'
<1> USE TableAssumption DEF TableAssumption, TableInv, TypeOK
<1>1. CASE RegisterFound(f)
  <2>1. PICK s \in sessions : /\ Device_Open' = [Device_Open EXCEPT ![s] = (@ + 1) % OpenMod]
                              /\ Attach(f, s)
    BY <1>1 DEF RegisterFound, scsitap_get_session
  <2>2. sessions' = sessions /\ last_id' = last_id /\ dev_id' = dev_id /\ created' = created
    BY <1>1 DEF RegisterFound
  <2>3. s \in Sid /\ Device_Open[s] \in Nat
    OBVIOUS
  <2>4. (Device_Open[s] + 1) % OpenMod \in 0..(OpenMod - 1)
    BY <2>3
  <2> QED  BY <2>1, <2>2, <2>3, <2>4, AttachKeeps DEF Numbered, OnePerMinor
<1>2. CASE RegisterCreated(f)
  <2> DEFINE s == created + 1
  <2>1. /\ opened[f] # NoMinor /\ scsitap_get_session(opened[f]) = {} /\ created < MaxSessions
        /\ created' = s /\ sessions' = sessions \cup {s} /\ last_id' = last_id + 1
        /\ dev_id' = [dev_id EXCEPT ![s] = opened[f]]
        /\ Device_Open' = [Device_Open EXCEPT ![s] = 1 % OpenMod]
        /\ Attach(f, s)
    BY <1>2 DEF RegisterCreated
  <2>2. s \in Sid /\ s \notin sessions
    BY <2>1 DEF Sid, Numbered
  <2>3. 1 % OpenMod \in 0..(OpenMod - 1)
    OBVIOUS
  <2>4. Cardinality(sessions') = Cardinality(sessions) + 1
    BY <2>1, <2>2, SidFinite, FS_AddElement
  <2>5. \A r \in sessions : dev_id'[r] = dev_id[r] /\ dev_id[r] # opened[f]
    BY <2>1, <2>2 DEF scsitap_get_session
  <2>6. dev_id'[s] = opened[f]
    BY <2>1, <2>2
  <2>7. OnePerMinor'
    BY <2>1, <2>4, <2>5, <2>6 DEF OnePerMinor
  <2>8. Numbered' /\ created' \in 0..MaxSessions
    BY <2>1 DEF Numbered, Sid
  <2> HIDE DEF s
  <2> QED  BY <2>1, <2>2, <2>3, <2>7, <2>8, AttachKeeps
<1> QED  BY <1>1, <1>2

LEMMA ReleaseKeeps ==
  ASSUME TableInv, NEW f \in File, scsitap_ctl_release(f)
  PROVE  TableInv'
<1> USE DEF TableInv, TypeOK
<1>1. /\ sessions' = sessions /\ last_id' = last_id /\ dev_id' = dev_id /\ created' = created
      /\ work' = work /\ queued' = queued /\ entered' = entered /\ scanning' = scanning
      /\ scanned' = scanned /\ loaded' = loaded /\ repeated' = repeated
      /\ opened' = [opened EXCEPT ![f] = NoMinor]
      /\ private_data' = [private_data EXCEPT ![f] = NoSession]
  BY DEF scsitap_ctl_release, scanVars
<1>2. /\ Device_Open' \in [Sid -> 0..(OpenMod - 1)]
      /\ flags' \in [Sid -> {"READY", "NOT_READY"}]
  <2>1. CASE private_data[f] = NoSession
    BY <2>1 DEF scsitap_ctl_release
  <2>2. CASE private_data[f] # NoSession
    <3> DEFINE s == private_data[f]
    <3>1. s \in Sid /\ Device_Open[s] \in Int
      BY <2>2
    <3>2. (Device_Open[s] - 1) % OpenMod \in 0..(OpenMod - 1)
      BY <3>1, TableAssumption DEF TableAssumption
    <3>3. /\ Device_Open' = [Device_Open EXCEPT ![s] = (@ - 1) % OpenMod]
          /\ flags' = [flags EXCEPT ![s] = IF Device_Open'[s] = 0 THEN "NOT_READY" ELSE @]
      BY <2>2 DEF scsitap_ctl_release
    <3> QED  BY <3>1, <3>2, <3>3
  <2> QED  BY <2>1, <2>2
<1> QED  BY <1>1, <1>2 DEF Numbered, OnePerMinor, WorkSet, LastReadyScanned

(* last_id follows the sessions, also when some of them are in use. *)
LEMMA DestroyKeeps ==
  ASSUME TableInv, NEW S \in SUBSET sessions, scsitap_destroy_session(S)
  PROVE  /\ sessions' \in SUBSET sessions /\ OnePerMinor' /\ last_id' \in Nat
         /\ dev_id' = dev_id /\ flags' = flags /\ Device_Open' = Device_Open /\ created' = created
<1> USE DEF TableInv, TypeOK
<1> DEFINE gone == {s \in S : Device_Open[s] = 0}
<1>1. /\ sessions' = sessions \ gone /\ last_id' = last_id - Cardinality(gone)
      /\ dev_id' = dev_id /\ flags' = flags /\ Device_Open' = Device_Open /\ created' = created
  BY DEF scsitap_destroy_session
<1>2. IsFiniteSet(sessions) /\ IsFiniteSet(sessions')
  BY <1>1, SidFinite
<1>3. Cardinality(sessions') = Cardinality(sessions) - Cardinality(gone)
  <2>1. sessions \cap gone = gone
    OBVIOUS
  <2> QED  BY <1>1, <1>2, <2>1, FS_Difference
<1>4. Cardinality(sessions') \in Nat /\ Cardinality(sessions) \in Nat
  BY <1>2, FS_CardinalityType
<1> HIDE DEF gone
<1> QED  BY <1>1, <1>3, <1>4 DEF OnePerMinor

LEMMA TableInvNext == TableInv /\ [Next]_vars => TableInv'
<1> SUFFICES ASSUME TableInv, [Next]_vars PROVE TableInv'
  OBVIOUS
<1>1. CASE \E f \in File, m \in Minor : scsitap_ctl_open(f, m)
  BY <1>1 DEF scsitap_ctl_open, sessionVars, scanVars, TableInv, TypeOK, Numbered, OnePerMinor,
     WorkSet, LastReadyScanned
<1>2. CASE \E f \in File : RegisterFound(f) \/ RegisterCreated(f)
  BY <1>2, RegisterKeeps
<1>3. CASE \E f \in File : scsitap_ctl_release(f)
  BY <1>3, ReleaseKeeps
<1>4. CASE \E f \in File : Unregister(f)
  <2>1. PICK f \in File : Unregister(f)
    BY <1>4
  <2>2. scsitap_get_session(opened[f]) \in SUBSET sessions
    BY DEF scsitap_get_session
  <2>3. scsitap_destroy_session(scsitap_get_session(opened[f]))
    BY <2>1 DEF Unregister
  <2> QED  BY <2>1, <2>2, <2>3, DestroyKeeps DEF Unregister, fileVars, scanVars, TableInv,
              TypeOK, Numbered, WorkSet, LastReadyScanned
<1>5. CASE scsitap_cleanup
  BY <1>5, DestroyKeeps DEF scsitap_cleanup, fileVars, scanVars, TableInv, TypeOK, Numbered,
     WorkSet, LastReadyScanned
<1>6. CASE ScanEnter \/ ScanBegin \/ ScanEnd
  <2> USE DEF sessionVars, fileVars, TableInv, TypeOK, Numbered, OnePerMinor, WorkSet,
              LastReadyScanned
  <2>1. CASE ScanEnter
    BY <2>1, TableAssumption DEF TableAssumption, ScanEnter
  <2>2. CASE ScanBegin
    BY <2>2, NoSessionIsNothing DEF ScanBegin
  <2>3. CASE ScanEnd
    BY <2>3 DEF ScanEnd
  <2> QED  BY <1>6, <2>1, <2>2, <2>3
<1>7. CASE UNCHANGED vars
  BY <1>7 DEF vars, sessionVars, fileVars, scanVars, TableInv, TypeOK, Numbered, OnePerMinor,
     WorkSet, LastReadyScanned
<1> QED  BY <1>1, <1>2, <1>3, <1>4, <1>5, <1>6, <1>7 DEF Next

(* The inductive invariant of the table and of the work item. *)
THEOREM TableInvariant == Spec => []TableInv
BY TableInvInit, TableInvNext, PTL DEF Spec

(* Every variable of the table keeps its type; last_id never goes below 0. *)
THEOREM TableTypeCorrect == Spec => []TypeOK
<1>1. TableInv => TypeOK
  BY DEF TableInv
<1> QED  BY <1>1, TableInvariant, PTL

(* However registrations, closes and destructions interleave, a minor has   *)
(* one session and last_id counts them (hba.c:307, 370, 406): even when     *)
(* Device_Open wraps. *)
THEOREM AlwaysOnePerMinor == Spec => []OnePerMinor
<1>1. TableInv => OnePerMinor
  BY DEF TableInv
<1> QED  BY <1>1, TableInvariant, PTL

(* The session that last became ready is scanned by the time no scan is     *)
(* due, though one work item serves all (device.c:384-389). *)
THEOREM LastReadyAlwaysScanned == Spec => []LastReadyScanned
<1>1. TableInv => LastReadyScanned
  BY DEF TableInv
<1> QED  BY <1>1, TableInvariant, PTL
-----------------------------------------------------------------------------
(* Second layer: files and the sessions they are attached to *)

Attached(s) == {f \in File : private_data[f] = s}

(* The count is exact, or too high where a file has registered again. *)
OpenCounted == \A s \in sessions :
                  /\ Cardinality(Attached(s)) <= Device_Open[s]
                  /\ s \notin repeated => Device_Open[s] = Cardinality(Attached(s))

(* A file that is not open is not attached, and once the module is gone no  *)
(* file is open. *)
FilesOpen == /\ \A f \in File : opened[f] = NoMinor => private_data[f] = NoSession
             /\ ~loaded => \A f \in File : opened[f] = NoMinor

FileInv == FilesLive /\ OpenCounted /\ FilesOpen /\ UnloadComplete

LEMMA AttachedFinite ==
  ASSUME NEW s
  PROVE  /\ IsFiniteSet(Attached(s)) /\ Cardinality(Attached(s)) \in Nat
         /\ Cardinality(Attached(s)) = 0 <=> \A f \in File : private_data[f] # s
<1>1. IsFiniteSet(Attached(s))
  <2>1. Attached(s) \in SUBSET File
    BY DEF Attached
  <2> QED  BY <2>1, TableAssumption, FS_Subset DEF TableAssumption
<1>2. Cardinality(Attached(s)) = 0 <=> Attached(s) = {}
  BY <1>1, FS_EmptySet
<1> QED  BY <1>1, <1>2, FS_CardinalityType DEF Attached

(* A file that registers is one more on its session, unless it was there    *)
(* already, and changes no other. *)
LEMMA AttachCounts ==
  ASSUME TableInv, NEW f \in File, NEW s \in Sid, private_data[f] \in {NoSession, s},
         private_data' = [private_data EXCEPT ![f] = s]
  PROVE  /\ Cardinality(Attached(s)') =
              IF private_data[f] = s THEN Cardinality(Attached(s)) ELSE Cardinality(Attached(s)) + 1
         /\ \A r \in Sid \ {s} : Attached(r)' = Attached(r)
<1> USE DEF TableInv, TypeOK
<1>1. Attached(s)' = Attached(s) \cup {f} /\ (f \in Attached(s) <=> private_data[f] = s)
  BY NoSessionIsNothing DEF Attached
<1>2. Cardinality(Attached(s) \cup {f}) =
        IF f \in Attached(s) THEN Cardinality(Attached(s)) ELSE Cardinality(Attached(s)) + 1
  BY AttachedFinite, FS_AddElement
<1>3. \A r \in Sid \ {s} : Attached(r)' = Attached(r)
  BY NoSessionIsNothing DEF Attached
<1> QED  BY <1>1, <1>2, <1>3

LEMMA FileInvInit == Init => FileInv
BY DEF Init, FileInv, FilesLive, OpenCounted, FilesOpen, UnloadComplete

(* A file registers again only with the session it is attached to. *)
LEMMA SameSession ==
  ASSUME TableInv, FileInv, NEW f \in File, private_data[f] # NoSession
  PROVE  scsitap_get_session(opened[f]) = {private_data[f]}
BY DEF TableInv, FileInv, FilesLive, OnePerMinor, scsitap_get_session

LEMMA RegisterFiles ==
  ASSUME TableInv, FileInv, FewOpens, NEW f \in File, RegisterFound(f) \/ RegisterCreated(f)
  PROVE  FileInv'
<1> USE DEF TableInv, TypeOK, FileInv
<1>0. opened[f] # NoMinor
  BY DEF RegisterFound, RegisterCreated
<1>1. CASE RegisterFound(f)
  <2>1. PICK s \in scsitap_get_session(opened[f]) :
              /\ Device_Open[s] < MaxOpens
              /\ Device_Open' = [Device_Open EXCEPT ![s] = (@ + 1) % OpenMod]
              /\ Attach(f, s)
    BY <1>1 DEF RegisterFound
  <2>2. /\ sessions' = sessions /\ dev_id' = dev_id /\ opened' = opened /\ loaded' = loaded
        /\ private_data' = [private_data EXCEPT ![f] = s]
        /\ flags' = [flags EXCEPT ![s] = "READY"]
        /\ repeated' = IF private_data[f] = NoSession THEN repeated ELSE repeated \cup {s}
    BY <1>1, <2>1 DEF RegisterFound, Attach
  <2>3. s \in sessions /\ s \in Sid /\ dev_id[s] = opened[f]
    BY <2>1 DEF scsitap_get_session
  <2>a. private_data[f] \in {NoSession, s}
    BY <2>1, SameSession
  <2>4. /\ Cardinality(Attached(s)') =
             IF private_data[f] = s THEN Cardinality(Attached(s)) ELSE Cardinality(Attached(s)) + 1
        /\ \A r \in Sid \ {s} : Attached(r)' = Attached(r)
    BY <2>2, <2>3, <2>a, AttachCounts
  <2>5. /\ Cardinality(Attached(s)') <= Device_Open'[s]
        /\ s \notin repeated' => Device_Open'[s] = Cardinality(Attached(s)')
    <3>1. /\ Device_Open[s] \in Nat /\ Cardinality(Attached(s)) \in Nat
          /\ Cardinality(Attached(s)) <= Device_Open[s]
          /\ s \notin repeated => Device_Open[s] = Cardinality(Attached(s))
      BY <2>3, AttachedFinite DEF OpenCounted
    <3>2. (Device_Open[s] + 1) % OpenMod = Device_Open[s] + 1
      BY <2>1, <3>1, TableAssumption DEF TableAssumption, FewOpens
    <3>3. Device_Open'[s] = Device_Open[s] + 1
      BY <2>1, <2>3, <3>2
    <3>4. s \notin repeated' => s \notin repeated /\ private_data[f] # s
      BY <2>2, <2>3, NoSessionIsNothing
    <3> QED  BY <2>4, <3>1, <3>3, <3>4
  <2>6. OpenCounted'
    BY <2>1, <2>2, <2>3, <2>4, <2>5 DEF OpenCounted
  <2>7. FilesLive'
    BY <2>2, <2>3 DEF FilesLive
  <2>8. repeated \subseteq repeated'
    BY <2>2
  <2> QED  BY <1>0, <2>2, <2>6, <2>7, <2>8 DEF FilesOpen, UnloadComplete
<1>2. CASE RegisterCreated(f)
  <2>0. PICK s : s = created + 1
    OBVIOUS
  <2>1. /\ created < MaxSessions /\ sessions' = sessions \cup {s}
        /\ scsitap_get_session(opened[f]) = {}
        /\ dev_id' = [dev_id EXCEPT ![s] = opened[f]]
        /\ Device_Open' = [Device_Open EXCEPT ![s] = 1 % OpenMod]
        /\ opened' = opened /\ loaded' = loaded
        /\ private_data' = [private_data EXCEPT ![f] = s]
        /\ flags' = [flags EXCEPT ![s] = "READY"]
        /\ repeated' = IF private_data[f] = NoSession THEN repeated ELSE repeated \cup {s}
    BY <1>2, <2>0 DEF RegisterCreated, Attach
  <2>2. s \in Sid /\ s \notin sessions
    BY <2>0, <2>1, TableAssumption DEF TableAssumption, Sid, Numbered
  <2>a. private_data[f] = NoSession /\ repeated' = repeated
    BY <2>1, SameSession
  <2>3. /\ Cardinality(Attached(s)') = Cardinality(Attached(s)) + 1
        /\ \A r \in Sid \ {s} : Attached(r)' = Attached(r)
    BY <2>1, <2>2, <2>a, AttachCounts, NoSessionIsNothing
  <2>4. Cardinality(Attached(s)) = 0
    BY <2>2, NoSessionIsNothing, AttachedFinite DEF FilesLive
  <2>5. 1 % OpenMod = 1
    BY TableAssumption DEF TableAssumption, FewOpens
  <2>6. Device_Open'[s] = Cardinality(Attached(s)') /\ Device_Open'[s] = 1
    BY <2>1, <2>2, <2>3, <2>4, <2>5
  <2>7. OpenCounted'
    BY <2>1, <2>2, <2>3, <2>a, <2>6 DEF OpenCounted
  <2>8. FilesLive'
    BY <2>1, <2>2 DEF FilesLive
  <2>9. loaded
    BY <1>0 DEF FilesOpen
  <2> QED  BY <1>0, <2>1, <2>7, <2>8, <2>9 DEF FilesOpen, UnloadComplete
<1> QED  BY <1>1, <1>2

LEMMA ReleaseFiles ==
  ASSUME TableInv, FileInv, FewOpens, NEW f \in File, scsitap_ctl_release(f)
  PROVE  FileInv'
<1> USE DEF TableInv, TypeOK, FileInv
<1>0. PICK s : s = private_data[f]
  OBVIOUS
<1>1. /\ sessions' = sessions /\ dev_id' = dev_id /\ loaded' = loaded /\ repeated' = repeated
      /\ opened' = [opened EXCEPT ![f] = NoMinor]
      /\ private_data' = [private_data EXCEPT ![f] = NoSession]
  BY DEF scsitap_ctl_release
<1>2. FilesOpen' /\ UnloadComplete'
  BY <1>1 DEF FilesOpen, UnloadComplete
<1>3. CASE s = NoSession
  <2>1. private_data' = private_data /\ flags' = flags /\ Device_Open' = Device_Open
    BY <1>0, <1>1, <1>3 DEF scsitap_ctl_release
  <2>2. \A r : Attached(r)' = Attached(r)
    BY <2>1 DEF Attached
  <2> QED  BY <1>1, <1>2, <1>3, <2>1, <2>2 DEF FilesLive, OpenCounted
<1>4. CASE s # NoSession
  <2>1. s \in sessions /\ s \in Sid
    BY <1>0, <1>4 DEF FilesLive
  <2>2. /\ Device_Open' = [Device_Open EXCEPT ![s] = (@ - 1) % OpenMod]
        /\ flags' = [flags EXCEPT ![s] = IF Device_Open'[s] = 0 THEN "NOT_READY" ELSE @]
    BY <1>0, <1>4 DEF scsitap_ctl_release
  <2>3. Attached(s)' = Attached(s) \ {f} /\ f \in Attached(s)
    BY <1>0, <1>1, <1>4 DEF Attached
  <2>4. \A r \in Sid \ {s} : Attached(r)' = Attached(r)
    BY <1>0, <1>1, NoSessionIsNothing DEF Attached
  <2>5. Cardinality(Attached(s)') = Cardinality(Attached(s)) - 1
    BY <2>3, AttachedFinite, FS_RemoveElement
  <2>6. Cardinality(Attached(s)) \in Nat /\ Cardinality(Attached(s)) # 0
    BY <1>0, AttachedFinite
  <2>7. /\ Cardinality(Attached(s)') <= Device_Open'[s]
        /\ s \notin repeated' => Device_Open'[s] = Cardinality(Attached(s)')
    <3>1. /\ Device_Open[s] \in 0..(OpenMod - 1)
          /\ Cardinality(Attached(s)) <= Device_Open[s]
          /\ s \notin repeated => Device_Open[s] = Cardinality(Attached(s))
      BY <2>1 DEF OpenCounted
    <3>2. (Device_Open[s] - 1) % OpenMod = Device_Open[s] - 1
      BY <2>6, <3>1, TableAssumption DEF TableAssumption
    <3>3. Device_Open'[s] = Device_Open[s] - 1
      BY <2>1, <2>2, <3>2
    <3> QED  BY <1>1, <2>5, <2>6, <3>1, <3>3
  <2>8. OpenCounted'
    BY <1>1, <2>2, <2>4, <2>7 DEF OpenCounted
  <2>9. FilesLive'
    <3> SUFFICES ASSUME NEW g \in File, private_data'[g] # NoSession
                 PROVE  /\ private_data'[g] \in sessions'
                        /\ dev_id'[private_data'[g]] = opened'[g]
                        /\ flags'[private_data'[g]] = "READY"
      BY DEF FilesLive
    <3>1. g # f /\ private_data'[g] = private_data[g] /\ opened'[g] = opened[g]
      BY <1>1
    <3>2. CASE private_data[g] = s
      <4>1. g \in Attached(s)'
        BY <1>1, <3>1, <3>2 DEF Attached
      <4>2. Cardinality(Attached(s)') # 0 /\ Cardinality(Attached(s)') \in Nat
        <5>1. IsFiniteSet(Attached(s)')
          BY <2>3, AttachedFinite, FS_RemoveElement
        <5> QED  BY <4>1, <5>1, FS_EmptySet, FS_CardinalityType
      <4>3. Device_Open'[s] # 0
        BY <2>7, <4>2
      <4>4. flags' = flags
        BY <2>1, <2>2, <4>3
      <4> QED  BY <1>1, <3>1, <4>4 DEF FilesLive
    <3>3. CASE private_data[g] # s
      BY <1>1, <2>1, <2>2, <3>1, <3>3 DEF FilesLive
    <3> QED  BY <3>2, <3>3
  <2> QED  BY <1>2, <2>8, <2>9
<1> QED  BY <1>3, <1>4

(* A session that scsitap_destroy_session frees has no file attached. *)
LEMMA DestroyFiles ==
  ASSUME TableInv, FileInv, NEW S \in SUBSET sessions, scsitap_destroy_session(S),
         private_data' = private_data, opened' = opened, repeated' = repeated
  PROVE  FilesLive' /\ OpenCounted'
<1> USE DEF TableInv, TypeOK, FileInv
<1>1. /\ sessions' = sessions \ {s \in S : Device_Open[s] = 0}
      /\ dev_id' = dev_id /\ flags' = flags /\ Device_Open' = Device_Open
  BY DEF scsitap_destroy_session
<1>2. \A s \in S : Device_Open[s] = 0 => \A f \in File : private_data[f] # s
  BY AttachedFinite DEF OpenCounted
<1>3. FilesLive'
  BY <1>1, <1>2 DEF FilesLive
<1>4. OpenCounted'
  BY <1>1 DEF OpenCounted, Attached
<1> QED  BY <1>3, <1>4

LEMMA FileInvNext == FewOpens /\ TableInv /\ FileInv /\ [Next]_vars => FileInv'
<1> SUFFICES ASSUME FewOpens, TableInv, FileInv, [Next]_vars PROVE FileInv'
  OBVIOUS
<1> USE DEF FileInv
<1>1. CASE \E f \in File, m \in Minor : scsitap_ctl_open(f, m)
  <2>1. PICK f \in File, m \in Minor : scsitap_ctl_open(f, m)
    BY <1>1
  <2>2. /\ loaded /\ loaded' = loaded /\ opened[f] = NoMinor
        /\ opened' = [opened EXCEPT ![f] = m] /\ private_data' = private_data
        /\ repeated' = repeated
        /\ sessions' = sessions /\ dev_id' = dev_id /\ flags' = flags /\ Device_Open' = Device_Open
    BY <2>1 DEF scsitap_ctl_open, sessionVars
  <2>3. FilesLive'
    BY <2>2 DEF FilesLive, FilesOpen, TableInv, TypeOK
  <2>4. OpenCounted'
    BY <2>2 DEF OpenCounted, Attached
  <2> QED  BY <2>2, <2>3, <2>4 DEF FilesOpen, UnloadComplete, TableInv, TypeOK
<1>2. CASE \E f \in File : RegisterFound(f) \/ RegisterCreated(f)
  BY <1>2, RegisterFiles
<1>3. CASE \E f \in File : scsitap_ctl_release(f)
  BY <1>3, ReleaseFiles
<1>4. CASE \E f \in File : Unregister(f)
  <2>1. PICK f \in File : Unregister(f)
    BY <1>4
  <2>2. /\ scsitap_get_session(opened[f]) \in SUBSET sessions
        /\ scsitap_destroy_session(scsitap_get_session(opened[f]))
        /\ private_data' = private_data /\ opened' = opened /\ loaded' = loaded
        /\ repeated' = repeated
    BY <2>1 DEF Unregister, scsitap_get_session, fileVars
  <2>3. FilesLive' /\ OpenCounted'
    BY <2>2, DestroyFiles
  <2>4. sessions' \subseteq sessions
    BY <2>2, DestroyKeeps
  <2> QED  BY <2>2, <2>3, <2>4 DEF FilesOpen, UnloadComplete
<1>5. CASE scsitap_cleanup
  <2>1. /\ \A f \in File : opened[f] = NoMinor
        /\ scsitap_destroy_session(sessions)
        /\ private_data' = private_data /\ opened' = opened /\ repeated' = repeated
    BY <1>5 DEF scsitap_cleanup, fileVars
  <2>2. FilesLive' /\ OpenCounted'
    BY <2>1, DestroyFiles
  <2>3. \A s \in sessions \ repeated : Device_Open[s] = 0
    <3>1. \A s \in sessions : \A f \in File : private_data[f] # s
      BY <2>1, NoSessionIsNothing DEF FilesOpen, TableInv, TypeOK
    <3> QED  BY <3>1, AttachedFinite DEF OpenCounted
  <2>4. sessions' \subseteq repeated'
    BY <2>1, <2>3 DEF scsitap_destroy_session
  <2> QED  BY <2>1, <2>2, <2>4 DEF FilesOpen, UnloadComplete
<1>6. CASE ScanEnter \/ ScanBegin \/ ScanEnd \/ UNCHANGED vars
  <2>1. UNCHANGED <<sessionVars, fileVars, loaded>>
    BY <1>6 DEF ScanEnter, ScanBegin, ScanEnd, vars
  <2> QED  BY <2>1 DEF sessionVars, fileVars, FilesLive, OpenCounted, Attached, FilesOpen,
              UnloadComplete
<1> QED  BY <1>1, <1>2, <1>3, <1>4, <1>5, <1>6 DEF Next

(* While Device_Open does not wrap it is at least the number of files of    *)
(* its session, and files and sessions stay together. *)
THEOREM FileInvariant == ASSUME FewOpens PROVE Spec => []FileInv
<1>1. TableInv /\ FileInv /\ [Next]_vars => FileInv'
  BY FileInvNext
<1> QED  BY <1>1, FileInvInit, TableInvariant, PTL DEF Spec

(* What read, write and ioctl follow through private_data, without a lock   *)
(* on the table (device.c:86, 183, 396), is never a freed session. *)
THEOREM FilesAlwaysLive == ASSUME FewOpens PROVE Spec => []FilesLive
<1>1. FileInv => FilesLive
  BY DEF FileInv
<1> QED  BY <1>1, FileInvariant, PTL

(* The unload of the module destroys every session (hba.c:391, 460), except *)
(* one on which a file has registered twice: for the others the count of    *)
(* opens is back at 0 when no file is open. *)
THEOREM AlwaysUnloadComplete == ASSUME FewOpens PROVE Spec => []UnloadComplete
<1>1. FileInv => UnloadComplete
  BY DEF FileInv
<1> QED  BY <1>1, FileInvariant, PTL
=============================================================================
