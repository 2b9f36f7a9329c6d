--------------------------- MODULE NetworkRevert ---------------------------
(***************************************************************************)
(* routes/settings.py: the safety net under a network change.  A change is *)
(* recorded on disk, then applied; unless an examiner confirms it within   *)
(* the window, a timer thread puts the previous settings back.  A restart  *)
(* inside the window resumes the revert from the record on disk.           *)
(*                                                                         *)
(* The record and the pending state change under network_config_lock; the  *)
(* snapshot of a new change and the nmcli calls happen outside it.         *)
(***************************************************************************)
EXTENDS Naturals

CONSTANTS
    Devices,         \* network devices, each with one connection profile
    Changes,         \* requests for a change; each one's settings bear its name
    NoChange,        \* no change; also the settings a device came with
    Overlaps,        \* what may be under way when a change is asked for, and
                     \* "unlogged": a revert's outcome when the service stops
    RemovalMayFail,  \* whether removing the record from disk may fail
    MaxRestarts      \* how often the service restarts

Situations == {"request", "pending", "applying", "reverting", "starting", "unlogged"}

ASSUME NetworkAssumption ==
    /\ NoChange \notin Changes /\ {"none", "start"} \cap (Changes \cup {NoChange}) = {}
    /\ Overlaps \subseteq Situations
    /\ Devices # {}
    /\ RemovalMayFail \in BOOLEAN /\ MaxRestarts \in Nat

VARIABLES
    conf,       \* the settings in each device's profile
    pending,    \* pending_network_revert, its token ...
    accepted,   \* ... and its "confirmed"
    record,     \* the change in NETWORK_PENDING_REVERT_FILE
    req,        \* where each request is
    dev,        \* the device each change is for
    snap,       \* the settings each change would go back to
    applier,    \* the thread that applies each change
    timer,      \* the thread that reverts it
    resume,     \* the startup thread: not running, started, or what it read
    confirmed,  \* changes an examiner was told are confirmed
    broke,      \* reverts whose nmcli reported a failure
    failed,     \* changes with a network_config_revert_failed custody entry
    restarts    \* how often the service has restarted

mem    == <<pending, accepted>>
asked  == <<req, dev, snap>>
told   == <<confirmed, failed>>
vars   == <<conf, mem, record, asked, applier, timer, resume, broke, told, restarts>>

Settings == Changes \cup {NoChange}

TypeOK ==
    /\ conf \in [Devices -> Settings]
    /\ pending \in Settings /\ accepted \in BOOLEAN /\ record \in Settings
    /\ req \in [Changes -> {"idle", "asked", "done", "refused", "cut"}]
    /\ dev \in [Changes -> Devices] /\ snap \in [Changes -> Settings]
    /\ applier \in [Changes -> {"none", "armed"}]
    /\ timer \in [Changes -> {"none", "armed", "reverting", "cleanup", "logging"}]
    /\ resume \in {"none", "start"} \cup Changes
    /\ confirmed \cup broke \cup failed \subseteq Changes
    /\ restarts \in 0 .. MaxRestarts

Init ==
    /\ conf = [d \in Devices |-> NoChange]
    /\ pending = NoChange /\ accepted = FALSE /\ record = NoChange
    /\ req = [c \in Changes |-> "idle"]
    /\ dev = [c \in Changes |-> CHOOSE d \in Devices : TRUE]
    /\ snap = [c \in Changes |-> NoChange]
    /\ applier = [c \in Changes |-> "none"]
    /\ timer = [c \in Changes |-> "none"]
    /\ resume = "none"
    /\ confirmed = {} /\ broke = {} /\ failed = {}
    /\ restarts = 0

Waiting == pending # NoChange /\ ~accepted

(* What is under way besides request c. *)
UnderWay(c) ==
    {s \in Situations :
        \/ s = "request"   /\ \E x \in Changes \ {c} : req[x] = "asked"
        \/ s = "pending"   /\ Waiting
        \/ s = "applying"  /\ \E x \in Changes : applier[x] = "armed"
        \/ s = "reverting" /\ \E x \in Changes : timer[x] \in {"reverting", "cleanup", "logging"}
        \/ s = "starting"  /\ resume # "none"}

Calm(c) == UnderWay(c) \subseteq Overlaps

Removed ==
    \/ record' = NoChange
    \/ RemovalMayFail /\ UNCHANGED record

-----------------------------------------------------------------------------
(* apply_network_config()                                                  *)

(* The current settings are read, before the lock is taken. *)
Ask(c) ==
    /\ req[c] = "idle" /\ Calm(c)
    /\ req' = [req EXCEPT ![c] = "asked"]
    /\ \E d \in Devices : /\ dev' = [dev EXCEPT ![c] = d]
                          /\ snap' = [snap EXCEPT ![c] = conf[d]]
    /\ UNCHANGED <<conf, mem, record, applier, timer, resume, broke, told, restarts>>

\* Mutant: only memory knows of the revert, as it used to be.
Submit_Unrecorded(c) ==
    /\ req[c] = "asked" /\ Calm(c) /\ ~Waiting
    /\ req' = [req EXCEPT ![c] = "done"]
    /\ pending' = c /\ accepted' = FALSE
    /\ applier' = [applier EXCEPT ![c] = "armed"]
    /\ timer' = [timer EXCEPT ![c] = "armed"]
    /\ UNCHANGED <<conf, record, dev, snap, resume, broke, told, restarts>>

\* Mutant: a second change replaces the pending one, as it used to.
Submit_Replaces(c) ==
    /\ req[c] = "asked" /\ Calm(c)
    /\ req' = [req EXCEPT ![c] = "done"]
    /\ record' = c /\ pending' = c /\ accepted' = FALSE
    /\ applier' = [applier EXCEPT ![c] = "armed"]
    /\ timer' = [timer EXCEPT ![c] = "armed"]
    /\ UNCHANGED <<conf, dev, snap, resume, broke, told, restarts>>

(* Recorded on disk and in memory, then the two threads start. *)
Submit(c) ==
    /\ req[c] = "asked" /\ Calm(c) /\ ~Waiting
    /\ req' = [req EXCEPT ![c] = "done"]
    /\ record' = c /\ pending' = c /\ accepted' = FALSE
    /\ applier' = [applier EXCEPT ![c] = "armed"]
    /\ timer' = [timer EXCEPT ![c] = "armed"]
    /\ UNCHANGED <<conf, dev, snap, resume, broke, told, restarts>>

(* 409 while another change waits for its confirmation, 500 when the       *)
(* record cannot be written: nothing is changed.                           *)
Refuse(c) ==
    /\ req[c] = "asked" /\ Calm(c)
    /\ req' = [req EXCEPT ![c] = "refused"]
    /\ UNCHANGED <<conf, mem, record, dev, snap, applier, timer, resume, broke, told, restarts>>

(* delayed_apply(): nmcli changes the profile or fails. *)
Apply(c) ==
    /\ applier[c] = "armed"
    /\ applier' = [applier EXCEPT ![c] = "none"]
    /\ \/ conf' = [conf EXCEPT ![dev[c]] = c]
       \/ UNCHANGED conf
    /\ UNCHANGED <<mem, record, asked, timer, resume, broke, told, restarts>>

\* Mutant: the record outlives the confirmation.
Confirm_RecordStays(c) ==
    /\ pending = c
    /\ accepted' = TRUE
    /\ confirmed' = confirmed \cup {c}
    /\ UNCHANGED <<conf, pending, record, asked, applier, timer, resume, broke, failed, restarts>>

(* confirm_network_config(): the removal of the record may fail unseen. *)
Confirm(c) ==
    /\ pending = c
    /\ accepted' = TRUE
    /\ confirmed' = confirmed \cup {c}
    /\ Removed
    /\ UNCHANGED <<conf, pending, asked, applier, timer, resume, broke, failed, restarts>>

-----------------------------------------------------------------------------
(* _run_network_revert(c)                                                  *)

(* The window ends.  Its 60 seconds outlast the applier, whose sleep and   *)
(* two nmcli timeouts come to 51.                                          *)
Expire(c) ==
    /\ timer[c] = "armed" /\ applier[c] = "none"
    /\ \/ /\ pending # c
          /\ timer' = [timer EXCEPT ![c] = "none"]
          /\ UNCHANGED <<pending, record>>
       \/ /\ pending = c /\ accepted
          /\ timer' = [timer EXCEPT ![c] = "none"]
          /\ pending' = NoChange
          /\ Removed
       \/ /\ pending = c /\ ~accepted
          /\ timer' = [timer EXCEPT ![c] = "reverting"]
          /\ pending' = NoChange
          /\ UNCHANGED record
    /\ UNCHANGED <<conf, accepted, asked, applier, resume, broke, told, restarts>>

(* nmcli restores the snapshot; it may still fail to bring the connection  *)
(* up, or fail to restore it.                                              *)
Revert(c) ==
    /\ timer[c] = "reverting"
    /\ timer' = [timer EXCEPT ![c] = "cleanup"]
    /\ \/ /\ conf' = [conf EXCEPT ![dev[c]] = snap[c]]
          /\ broke' \in {broke \ {c}, broke \cup {c}}
       \/ /\ broke' = broke \cup {c}
          /\ UNCHANGED conf
    /\ UNCHANGED <<mem, record, asked, applier, resume, told, restarts>>

(* The record is removed, whichever change it is of. *)
Cleanup(c) ==
    /\ timer[c] = "cleanup"
    /\ timer' = [timer EXCEPT ![c] = "logging"]
    /\ Removed
    /\ UNCHANGED <<conf, mem, asked, applier, resume, broke, told, restarts>>


(* The custody log is told what really happened. *)
Log(c) ==
    /\ timer[c] = "logging"
    /\ timer' = [timer EXCEPT ![c] = "none"]
    /\ failed' = failed \cup ({c} \cap broke)
    /\ UNCHANGED <<conf, mem, record, asked, applier, resume, broke, confirmed, restarts>>

-----------------------------------------------------------------------------
(* The service restarts, or the station reboots: every thread and the      *)
(* pending state are gone.                                                 *)
Restart ==
    /\ restarts < MaxRestarts
    /\ (\E c \in Changes : timer[c] = "logging") => "unlogged" \in Overlaps
    /\ restarts' = restarts + 1
    /\ pending' = NoChange /\ accepted' = FALSE
    /\ applier' = [c \in Changes |-> "none"]
    /\ timer' = [c \in Changes |-> "none"]
    /\ req' = [c \in Changes |-> IF req[c] = "asked" THEN "cut" ELSE req[c]]
    /\ resume' = "start"
    /\ UNCHANGED <<conf, record, dev, snap, broke, told>>


(* resume_pending_network_revert(): the record is read ... *)
ResumeRead ==
    /\ resume = "start"
    /\ resume' = IF record = NoChange THEN "none" ELSE record
    /\ UNCHANGED <<conf, mem, record, asked, applier, timer, broke, told, restarts>>

(* ... and its revert pending and armed again. *)
ResumeArm(c) ==
    /\ resume = c
    /\ resume' = "none"
    /\ pending' = c /\ accepted' = FALSE
    /\ timer' = [timer EXCEPT ![c] = "armed"]
    /\ UNCHANGED <<conf, record, asked, applier, broke, told, restarts>>

Net(c) == Apply(c) \/ Expire(c) \/ Revert(c) \/ Cleanup(c) \/ Log(c) \/ ResumeArm(c)

Next ==
    \/ \E c \in Changes : Ask(c) \/ Submit(c) \/ Refuse(c) \/ Confirm(c) \/ Net(c)
    \/ ResumeRead
    \/ Restart

Spec == Init /\ [][Next]_vars

(* The service's threads run on; nobody has to confirm. *)
FairSpec == /\ Spec
            /\ \A c \in Changes : WF_vars(Net(c))
            /\ WF_vars(ResumeRead)

-----------------------------------------------------------------------------
(* Properties.                                                             *)

(* A change that waits for its confirmation has its revert on disk, so     *)
(* that no restart makes it permanent (the comment on                      *)
(* NETWORK_PENDING_REVERT_FILE).                                           *)
PendingIsOnDisk == Waiting => record = pending

(* A revert goes back to settings the device came with or that somebody    *)
(* confirmed, never to another untested change (the comment "one           *)
(* unconfirmed change at a time"); a revert that failed is on the custody  *)
(* log.                                                                    *)
SnapshotIsTested ==
    \A c \in Changes : c = pending \/ timer[c] = "reverting"
                       => snap[c] \in {NoChange} \cup confirmed \cup failed

(* "Confirmed means never revert, even after a restart": no revert takes   *)
(* confirmed settings off a device.                                        *)
ConfirmedIsKept ==
    [][\A c \in Changes : Revert(c) /\ conf'[dev[c]] # conf[dev[c]]
                          => conf[dev[c]] \notin confirmed]_vars

(* Every change is confirmed or its revert attempted, whatever else is     *)
(* asked for meanwhile and whatever restarts.                              *)
EveryChangeIsSettled ==
    \A c \in Changes : applier[c] = "armed" ~> c \in confirmed \/ timer[c] = "cleanup"

(* Untested settings never stay: they are confirmed, replaced, or their    *)
(* failed revert is on the custody log.                                    *)
UntestedNeverStays ==
    \A c \in Changes, d \in Devices :
        conf[d] = c ~> conf[d] # c \/ c \in confirmed \/ c \in failed

=============================================================================
