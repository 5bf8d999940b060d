---------------------------- MODULE SessionTable ----------------------------
(***************************************************************************)
(* All the sessions of the module, one per minor number of the control     *)
(* device (kernel/hba.c, kernel/device.c): how they are found, created,    *)
(* scanned and destroyed while files come and go, up to the unload of the  *)
(* module.  Every step but those of the scan holds session_lock.           *)
(*                                                                         *)
(* There is one work item, scsitap_work, for the scans of all sessions.    *)
(***************************************************************************)
EXTENDS Integers, FiniteSets

CONSTANTS Minor,        \* minor numbers of the control device in use
          File,         \* open files of the control device
          NoMinor,      \* the file is not open
          OpenMod,      \* Device_Open is an unsigned char: 256 values
          MaxOpens,     \* bound: no REGISTER ioctl once Device_Open is that high
          MaxSessions,  \* bound: how many sessions are created in a behaviour
          MaxQueued,    \* bound: deliveries of the work item outstanding
          MayUnregister \* whether the UNREGISTER_CLIENT ioctl is used

ASSUME TableAssumption == /\ NoMinor \notin Minor
                          /\ IsFiniteSet(Minor) /\ IsFiniteSet(File)
                          /\ OpenMod \in Nat \ {0}
                          /\ MaxOpens \in Nat \ {0}
                          /\ MaxSessions \in Nat
                          /\ MaxQueued \in Nat \ {0}
                          /\ MayUnregister \in BOOLEAN

Sid == 1..MaxSessions     \* every session ever created, in that order
NoSession == 0

VARIABLES
  sessions,      \* the sessions in session_queue
  last_id,
  dev_id,        \* dev_id[s]: minor of the session
  flags,         \* flags[s]
  Device_Open,   \* Device_Open[s]
  created,       \* how many sessions were created
  opened,        \* opened[f]: the minor f is open on, or NoMinor
  private_data,  \* private_data[f]: the session f is attached to
  repeated,      \* history: sessions on which an attached file registered again
  work,          \* the session in scsitap_work
  queued,        \* how often the kernel will still run scsitap_work
  entered,       \* scsitap_scan_hba is entered, has not yet read its session
  scanning,      \* the session scsi_scan_host works on, or NoSession
  scanned,       \* sessions whose scan began since they last became ready
  loaded         \* the module is loaded

sessionVars == <<sessions, last_id, dev_id, flags, Device_Open, created>>
fileVars    == <<opened, private_data, repeated>>
scanVars    == <<work, queued, entered, scanning, scanned>>
vars == <<sessionVars, fileVars, scanVars, loaded>>

TypeOK == /\ sessions \in SUBSET Sid
          /\ last_id \in Nat
          /\ dev_id \in [Sid -> Minor \cup {NoMinor}]
          /\ flags \in [Sid -> {"READY", "NOT_READY"}]
          /\ Device_Open \in [Sid -> 0..(OpenMod - 1)]
          /\ created \in 0..MaxSessions
          /\ opened \in [File -> Minor \cup {NoMinor}]
          /\ private_data \in [File -> Sid \cup {NoSession}]
          /\ repeated \in SUBSET Sid
          /\ work \in Sid \cup {NoSession}
          /\ queued \in 0..MaxQueued
          /\ entered \in BOOLEAN
          /\ scanning \in Sid \cup {NoSession}
          /\ scanned \in SUBSET Sid
          /\ loaded \in BOOLEAN

Init == /\ sessions = {}
        /\ last_id = 0
        /\ dev_id = [s \in Sid |-> NoMinor]
        /\ flags = [s \in Sid |-> "NOT_READY"]
        /\ Device_Open = [s \in Sid |-> 0]
        /\ created = 0
        /\ opened = [f \in File |-> NoMinor]
        /\ private_data = [f \in File |-> NoSession]
        /\ repeated = {}
        /\ work = NoSession
        /\ queued = 0
        /\ entered = FALSE
        /\ scanning = NoSession
        /\ scanned = {}
        /\ loaded = TRUE
-----------------------------------------------------------------------------
(* Mutation of scsitap_get_session: only the oldest session is looked at.   *)
scsitap_get_session_HeadOnly(m) ==
  {s \in sessions : dev_id[s] = m /\ \A r \in sessions : s <= r}

(* The session of minor m: at most one. *)
scsitap_get_session(m) == {s \in sessions : dev_id[s] = m}

scsitap_ctl_open(f, m) ==
  /\ loaded /\ opened[f] = NoMinor
  /\ opened' = [opened EXCEPT ![f] = m]
  /\ UNCHANGED <<sessionVars, private_data, repeated, scanVars, loaded>>

(* Mutation of ScheduleScan: no work is scheduled while a scan is running.  *)
ScheduleScan_OneAtATime(s) ==
  /\ work' = s
  /\ scanned' = scanned \ {s}
  /\ queued' = IF queued = 0 /\ scanning = NoSession THEN 1 ELSE queued
  /\ UNCHANGED <<entered, scanning>>

(* schedule_work after SCSITAP_INIT_WORK.  When the item was still queued, *)
(* INIT_WORK unhooks its ends from the kernel's list: it runs once or more.*)
ScheduleScan(s) ==
  /\ work' = s
  /\ scanned' = scanned \ {s}
  /\ queued' \in IF queued = 0 THEN {1} ELSE 1..MaxQueued
  /\ UNCHANGED <<entered, scanning>>

(* Attaches file f to session s of the table; whether it was attached to    *)
(* one already is not looked at.                                            *)
Attach(f, s) ==
  /\ private_data' = [private_data EXCEPT ![f] = s]
  /\ repeated' = IF private_data[f] = NoSession THEN repeated ELSE repeated \cup {s}
  /\ flags' = [flags EXCEPT ![s] = "READY"]
  /\ IF flags[s] = "NOT_READY" THEN ScheduleScan(s) ELSE UNCHANGED scanVars
  /\ UNCHANGED <<opened, loaded>>

(* SCSITAP_IOCTL_REGISTER_CLIENT of a minor that has a session ... *)
RegisterFound(f) ==
  /\ opened[f] # NoMinor
  /\ \E s \in scsitap_get_session(opened[f]) :
        /\ Device_Open[s] < MaxOpens
        /\ Device_Open' = [Device_Open EXCEPT ![s] = (@ + 1) % OpenMod]
        /\ Attach(f, s)
  /\ UNCHANGED <<sessions, last_id, dev_id, created>>

(* ... and of one that has none: scsitap_create_session comes first. *)
RegisterCreated(f) ==
  LET s == created + 1
  IN /\ opened[f] # NoMinor
     /\ scsitap_get_session(opened[f]) = {} /\ created < MaxSessions
     /\ created' = s
     /\ sessions' = sessions \cup {s}
     /\ last_id' = last_id + 1
     /\ dev_id' = [dev_id EXCEPT ![s] = opened[f]]
     /\ Device_Open' = [Device_Open EXCEPT ![s] = 1 % OpenMod]
     /\ Attach(f, s)

(* Mutation of scsitap_ctl_release: the open is not taken from the count.   *)
scsitap_ctl_release_Forgets(f) ==
  /\ opened[f] # NoMinor
  /\ opened' = [opened EXCEPT ![f] = NoMinor]
  /\ private_data' = [private_data EXCEPT ![f] = NoSession]
  /\ UNCHANGED <<sessionVars, repeated, scanVars, loaded>>

(* One open is taken back, however often the file has registered. *)
scsitap_ctl_release(f) ==
  LET s == private_data[f]
  IN /\ opened[f] # NoMinor
     /\ opened' = [opened EXCEPT ![f] = NoMinor]
     /\ private_data' = [private_data EXCEPT ![f] = NoSession]
     /\ IF s = NoSession
        THEN UNCHANGED <<flags, Device_Open>>
        ELSE /\ Device_Open' = [Device_Open EXCEPT ![s] = (@ - 1) % OpenMod]
             /\ flags' = [flags EXCEPT ![s] =
                            IF Device_Open'[s] = 0 THEN "NOT_READY" ELSE @]
     /\ UNCHANGED <<sessions, last_id, dev_id, created, repeated, scanVars, loaded>>
-----------------------------------------------------------------------------
(* Mutations of scsitap_destroy_session: open devices are not looked at;    *)
(* last_id is decremented before they are.                                  *)
scsitap_destroy_session_Anyway(S) ==
  /\ sessions' = sessions \ S
  /\ last_id' = last_id - Cardinality(S)
  /\ UNCHANGED <<dev_id, flags, Device_Open, created>>

scsitap_destroy_session_CountsBusy(S) ==
  /\ sessions' = sessions \ {s \in S : Device_Open[s] = 0}
  /\ last_id' = last_id - Cardinality(S)
  /\ UNCHANGED <<dev_id, flags, Device_Open, created>>

(* Each session of S is destroyed, unless it has its device open. *)
scsitap_destroy_session(S) ==
  LET gone == {s \in S : Device_Open[s] = 0}
  IN /\ sessions' = sessions \ gone
     /\ last_id' = last_id - Cardinality(gone)
     /\ UNCHANGED <<dev_id, flags, Device_Open, created>>

(* SCSITAP_IOCTL_UNREGISTER_CLIENT, on any file open on the minor.  Nothing *)
(* is done about a scan of the session.                                     *)
Unregister(f) ==
  /\ MayUnregister /\ opened[f] # NoMinor
  /\ scsitap_get_session(opened[f]) # {}
  /\ scsitap_destroy_session(scsitap_get_session(opened[f]))
  /\ UNCHANGED <<fileVars, scanVars, loaded>>

(* The kernel unloads the module only when no file is open. *)
scsitap_cleanup ==
  /\ loaded /\ \A f \in File : opened[f] = NoMinor
  /\ loaded' = FALSE
  /\ scsitap_destroy_session(sessions)
  /\ UNCHANGED <<fileVars, scanVars>>
-----------------------------------------------------------------------------
(* The work queue of the kernel; no lock is held. *)

ScanEnter == /\ queued > 0 /\ ~entered /\ scanning = NoSession
             /\ queued' = queued - 1
             /\ entered' = TRUE
             /\ UNCHANGED <<sessionVars, fileVars, work, scanning, scanned, loaded>>

(* scsitap_scan_hba reads sw->session. *)
ScanBegin == /\ entered
             /\ entered' = FALSE
             /\ scanning' = work
             /\ scanned' = scanned \cup {work}
             /\ UNCHANGED <<sessionVars, fileVars, work, queued, loaded>>

ScanEnd == /\ scanning # NoSession
           /\ scanning' = NoSession
           /\ UNCHANGED <<sessionVars, fileVars, work, queued, entered, scanned, loaded>>
-----------------------------------------------------------------------------
Next == \/ \E f \in File : \/ \E m \in Minor : scsitap_ctl_open(f, m)
                           \/ RegisterFound(f) \/ RegisterCreated(f)
                           \/ scsitap_ctl_release(f) \/ Unregister(f)
        \/ scsitap_cleanup
        \/ ScanEnter \/ ScanBegin \/ ScanEnd

Spec == Init /\ [][Next]_vars
-----------------------------------------------------------------------------
(* What must hold of the table *)

(* A file is attached to a session that exists, that of its minor, and that *)
(* accepts commands: what read, write and ioctl follow without a lock on    *)
(* the table (device.c:86, 183, 396) is never a freed session.              *)
FilesLive == \A f \in File : private_data[f] # NoSession =>
                /\ private_data[f] \in sessions
                /\ dev_id[private_data[f]] = opened[f]
                /\ flags[private_data[f]] = "READY"

(* A minor has one session, however registrations, closes and destructions  *)
(* interleave, and last_id counts them (hba.c:307, 370, 406).               *)
OnePerMinor == /\ \A r, s \in sessions : dev_id[r] = dev_id[s] => r = s
               /\ last_id = Cardinality(sessions)

(* The unload skips a session whose device counts as open (hba.c:391, 460). *)
(* No file is open by then, and yet a session is skipped; but only one on   *)
(* which a file has registered twice, however opens, closes, destructions   *)
(* and re-creations of the minor went before.                               *)
UnloadComplete == loaded \/ sessions \subseteq repeated

(* When no scan is due or beginning, the session that last became ready has *)
(* had its scan since, even if earlier scans of it were pending, beginning  *)
(* or running at that time (device.c:384-389).                              *)
LastReadyScanned == queued = 0 /\ ~entered => work = NoSession \/ work \in scanned

(* "Scan the HBA and let the upper layer know about the devices on this     *)
(* scsi_host" (device.c:382): when no scan is due or beginning, every       *)
(* session that accepts commands has had its scan since it became ready.    *)
EveryReadyScanned == queued = 0 /\ ~entered =>
  \A s \in sessions : flags[s] = "READY" => s \in scanned
=============================================================================
