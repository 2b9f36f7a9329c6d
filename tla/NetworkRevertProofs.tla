-------------------------- MODULE NetworkRevertProofs --------------------------
(***************************************************************************)
(* The network safety net, for any number of devices, changes and          *)
(* restarts, whether or not the record's removal may fail:                 *)
(*   - as long as nobody asks for a change while a revert runs or the      *)
(*     service starts, the revert of a waiting change is on disk;          *)
(*   - as long as changes overlap in their requests at most, every         *)
(*     snapshot holds tested settings;                                     *)
(*   - as long as changes do not overlap and removals succeed, what was    *)
(*     confirmed stays.                                                    *)
(*                                                                         *)
(* The argument for the first: a revert that runs has cleared the pending  *)
(* state (Alone), so the record its end removes is nobody's who waits, and *)
(* what the startup thread has read is still the record (Starting).        *)
(***************************************************************************)
EXTENDS NetworkRevert, TLAPS

Reverting == \E x \in Changes : timer[x] \in {"reverting", "cleanup", "logging"}

Alone    == Reverting => ~Waiting
Starting == resume # "none" =>
               /\ pending = NoChange /\ ~Reverting
               /\ resume \in Changes => record = resume

IInv == TypeOK /\ PendingIsOnDisk /\ Alone /\ Starting

(* A service that starts for the first time has nothing to revert.         *)
LEMMA InitIInv == ASSUME Init PROVE IInv
<1>1. dev \in [Changes -> Devices]
  <2>1. \E d \in Devices : TRUE
        BY NetworkAssumption
  <2>2. (CHOOSE d \in Devices : TRUE) \in Devices
        BY <2>1
  <2> QED BY <2>2 DEF Init
<1>2. restarts \in 0 .. MaxRestarts
      BY NetworkAssumption DEF Init
<1>3. TypeOK
      BY <1>1, <1>2 DEF Init, TypeOK, Settings
<1> QED BY <1>3, NetworkAssumption
        DEF Init, IInv, PendingIsOnDisk, Alone, Starting, Waiting, Reverting

(* Each step keeps the types.                                              *)
LEMMA StepTypes == ASSUME TypeOK, [Next]_vars PROVE TypeOK'
<1> USE NetworkAssumption DEF TypeOK, Settings, mem, asked, told
<1>1. ASSUME NEW c \in Changes, Ask(c) PROVE TypeOK'
  <2>1. PICK d \in Devices : /\ dev' = [dev EXCEPT ![c] = d]
                             /\ snap' = [snap EXCEPT ![c] = conf[d]]
        BY <1>1 DEF Ask
  <2> QED BY <1>1, <2>1 DEF Ask
<1>2. ASSUME NEW c \in Changes, Submit(c) PROVE TypeOK'
      BY <1>2 DEF Submit
<1>3. ASSUME NEW c \in Changes, Refuse(c) PROVE TypeOK'
      BY <1>3 DEF Refuse
<1>4. ASSUME NEW c \in Changes, Confirm(c) PROVE TypeOK'
      BY <1>4 DEF Confirm, Removed
<1>5. ASSUME NEW c \in Changes, Apply(c) PROVE TypeOK'
      BY <1>5 DEF Apply
<1>6. ASSUME NEW c \in Changes, Expire(c) PROVE TypeOK'
      BY <1>6 DEF Expire, Removed
<1>7. ASSUME NEW c \in Changes, Revert(c) PROVE TypeOK'
      BY <1>7 DEF Revert
<1>8. ASSUME NEW c \in Changes, Cleanup(c) PROVE TypeOK'
      BY <1>8 DEF Cleanup, Removed
<1>9. ASSUME NEW c \in Changes, Log(c) PROVE TypeOK'
      BY <1>9 DEF Log
<1>10. ASSUME NEW c \in Changes, ResumeArm(c) PROVE TypeOK'
      BY <1>10 DEF ResumeArm
<1>11. CASE ResumeRead
      BY <1>11 DEF ResumeRead
<1>12. CASE Restart
  <2>1. restarts' \in 0 .. MaxRestarts
        BY <1>12 DEF Restart
  <2>2. req' \in [Changes -> {"idle", "asked", "done", "refused", "cut"}]
        BY <1>12 DEF Restart
  <2> QED BY <1>12, <2>1, <2>2 DEF Restart
<1>13. CASE UNCHANGED vars
      BY <1>13 DEF vars
<1> QED BY <1>1, <1>2, <1>3, <1>4, <1>5, <1>6, <1>7, <1>8, <1>9, <1>10, <1>11, <1>12, <1>13
        DEF Next, Net

(* While nothing runs to remove it, a record stays with the change that    *)
(* waits.                                                                  *)
LEMMA StepKeeps ==
    ASSUME {"reverting", "starting"} \cap Overlaps = {}, IInv, [Next]_vars
    PROVE  PendingIsOnDisk' /\ Alone' /\ Starting'
<1> USE NetworkAssumption DEF IInv, TypeOK, Settings, mem, asked, told,
                              PendingIsOnDisk, Alone, Starting, Waiting, Reverting
<1> DEFINE Goal == PendingIsOnDisk' /\ Alone' /\ Starting'
<1>1. ASSUME NEW c \in Changes, Ask(c) \/ Refuse(c) \/ Apply(c) PROVE Goal
      BY <1>1 DEF Ask, Refuse, Apply
<1>2. ASSUME NEW c \in Changes, Submit(c) PROVE Goal
  <2>1. "reverting" \notin UnderWay(c) /\ "starting" \notin UnderWay(c)
        BY <1>2 DEF Submit, Calm
  <2>2. ~Reverting /\ resume = "none"
        BY <2>1 DEF UnderWay, Situations
  <2> QED BY <1>2, <2>2 DEF Submit
<1>3. ASSUME NEW c \in Changes, Confirm(c) PROVE Goal
      BY <1>3 DEF Confirm, Removed
<1>4. ASSUME NEW c \in Changes, Expire(c) PROVE Goal
      BY <1>4 DEF Expire, Removed
<1>5. ASSUME NEW c \in Changes, Revert(c) PROVE Goal
      BY <1>5 DEF Revert
<1>6. ASSUME NEW c \in Changes, Cleanup(c) \/ Log(c) PROVE Goal
      BY <1>6 DEF Cleanup, Removed, Log
<1>7. ASSUME NEW c \in Changes, ResumeArm(c) PROVE Goal
      BY <1>7 DEF ResumeArm
<1>8. CASE ResumeRead
      BY <1>8 DEF ResumeRead
<1>9. CASE Restart
      BY <1>9 DEF Restart
<1>10. CASE UNCHANGED vars
      BY <1>10 DEF vars
<1> QED BY <1>1, <1>2, <1>3, <1>4, <1>5, <1>6, <1>7, <1>8, <1>9, <1>10 DEF Next, Net

(* The revert of a change that waits for its confirmation is on disk.      *)
THEOREM WaitingIsRecorded ==
    ASSUME {"reverting", "starting"} \cap Overlaps = {}
    PROVE  Spec => []PendingIsOnDisk
<1>1. Init => IInv
      BY InitIInv
<1>2. IInv /\ [Next]_vars => IInv'
      BY StepKeeps, StepTypes DEF IInv
<1>3. IInv => PendingIsOnDisk
      BY DEF IInv
<1> QED BY <1>1, <1>2, <1>3, PTL DEF Spec

(* The safety net's variables keep their types, whatever overlaps.         *)
THEOREM NetworkTypeCorrect == Spec => []TypeOK
<1>1. Init => TypeOK
      BY InitIInv DEF IInv
<1> QED BY <1>1, StepTypes, PTL DEF Spec

(***************************************************************************)
(* No change overlaps another: the snapshot a change would go back to is   *)
(* tested.  The argument: what is not tested on a device is owed a revert  *)
(* by somebody (Owing), the pending state, a revert that runs, or, after a *)
(* restart, the record on disk; so nothing is owed, and every device's     *)
(* settings are tested, when a snapshot is read.                           *)
(***************************************************************************)
Tested == {NoChange} \cup confirmed \cup failed

Owed(c) == \/ Waiting /\ pending = c
           \/ timer[c] = "reverting"
           \/ timer[c] \in {"cleanup", "logging"} /\ c \in broke
           \/ resume = "start" /\ record = c
           \/ resume = c

RevertsAlone ==
    \A x, y \in Changes :
        /\ timer[x] \in {"reverting", "cleanup", "logging"}
        /\ timer[y] \in {"reverting", "cleanup", "logging"}
        => x = y /\ pending = NoChange
RevertsRecorded == \A c \in Changes : timer[c] \in {"reverting", "cleanup"} => record = c
Accepted        == accepted /\ pending # NoChange => pending \in confirmed
Applying        == \A c \in Changes : applier[c] = "armed" => pending = c
SnapsTested     == \A c \in Changes : snap[c] \in Tested
Owing           == \A d \in Devices : conf[d] \notin Tested
                                      => Owed(conf[d]) /\ dev[conf[d]] = d

Ledger == /\ RevertsAlone /\ RevertsRecorded /\ Accepted
          /\ Applying /\ SnapsTested /\ Owing

(* The station's first settings are the ones it came with.                 *)
LEMMA InitLedger == ASSUME Init PROVE Ledger
      BY NetworkAssumption DEF Init, Ledger, RevertsAlone, RevertsRecorded, Accepted,
         Applying, SnapsTested, Owing, Tested

(* Each step keeps the bookkeeping of reverts.                             *)
LEMMA StepReverts ==
    ASSUME Overlaps \subseteq {"request"}, IInv, Ledger, [Next]_vars
    PROVE  RevertsAlone' /\ RevertsRecorded' /\ Accepted' /\ Applying'
<1> USE NetworkAssumption DEF IInv, TypeOK, Settings, mem, asked, told, Ledger, Starting,
        Reverting, RevertsAlone, RevertsRecorded, Accepted, Applying
<1> DEFINE Goal == RevertsAlone' /\ RevertsRecorded' /\ Accepted' /\ Applying'
<1>1. ASSUME NEW c \in Changes, Ask(c) \/ Refuse(c) \/ Apply(c) PROVE Goal
      BY <1>1 DEF Ask, Refuse, Apply
<1>2. ASSUME NEW c \in Changes, Submit(c) PROVE Goal
  <2>1. UnderWay(c) \cap {"applying", "reverting"} = {}
        BY <1>2 DEF Submit, Calm
  <2>2. ~Reverting
    <3>1. "reverting" \notin UnderWay(c)
          BY <2>1
    <3> QED BY <3>1 DEF UnderWay, Situations
  <2>3. \A x \in Changes : applier[x] # "armed"
    <3>1. "applying" \notin UnderWay(c)
          BY <2>1
    <3> QED BY <3>1 DEF UnderWay, Situations
  <2> QED BY <1>2, <2>2, <2>3 DEF Submit
<1>3. ASSUME NEW c \in Changes, Confirm(c) PROVE Goal
      BY <1>3 DEF Confirm, Removed
<1>4. ASSUME NEW c \in Changes, Expire(c) PROVE Goal
      BY <1>4 DEF Expire, Removed, PendingIsOnDisk, Waiting
<1>5. ASSUME NEW c \in Changes, Revert(c) PROVE Goal
      BY <1>5 DEF Revert
<1>6. ASSUME NEW c \in Changes, Cleanup(c) \/ Log(c) PROVE Goal
      BY <1>6 DEF Cleanup, Removed, Log
<1>7. ASSUME NEW c \in Changes, ResumeArm(c) PROVE Goal
      BY <1>7 DEF ResumeArm
<1>8. CASE ResumeRead
      BY <1>8 DEF ResumeRead
<1>9. CASE Restart
      BY <1>9 DEF Restart
<1>10. CASE UNCHANGED vars
      BY <1>10 DEF vars
<1> QED BY <1>1, <1>2, <1>3, <1>4, <1>5, <1>6, <1>7, <1>8, <1>9, <1>10 DEF Next, Net

(* Each step leaves nothing untested that nobody owes a revert.            *)
LEMMA StepOwing ==
    ASSUME Overlaps \subseteq {"request"}, IInv, Ledger, [Next]_vars
    PROVE  SnapsTested' /\ Owing'
<1> USE NetworkAssumption DEF IInv, TypeOK, Settings, mem, asked, told, Ledger,
        SnapsTested, Owing, Tested
<1> DEFINE Goal == SnapsTested' /\ Owing'
<1>1. ASSUME NEW c \in Changes, Ask(c) PROVE Goal
  <2>1. UnderWay(c) \cap {"pending", "reverting", "starting"} = {}
        BY <1>1 DEF Ask, Calm
  <2>2. \A x \in Changes : ~Owed(x)
        BY <2>1 DEF UnderWay, Situations, Owed
  <2>3. \A d \in Devices : conf[d] \in Tested
        BY <2>2
  <2> QED BY <1>1, <2>3 DEF Ask
<1>2. ASSUME NEW c \in Changes, Submit(c) PROVE Goal
  <2>1. UnderWay(c) \cap {"pending", "reverting", "starting"} = {}
        BY <1>2 DEF Submit, Calm
  <2>2. \A x \in Changes : ~Owed(x)
        BY <2>1 DEF UnderWay, Situations, Owed
  <2>3. \A d \in Devices : conf[d] \in Tested
        BY <2>2
  <2> QED BY <1>2, <2>3 DEF Submit
<1>3. ASSUME NEW c \in Changes, Refuse(c) PROVE Goal
      BY <1>3 DEF Refuse, Owed, Waiting
<1>4. ASSUME NEW c \in Changes, Apply(c) PROVE Goal
      BY <1>4 DEF Apply, Owed, Waiting, Applying, Accepted
<1>5. ASSUME NEW c \in Changes, Confirm(c) PROVE Goal
      BY <1>5 DEF Confirm, Removed, Owed, Waiting, Starting
<1>6. ASSUME NEW c \in Changes, Expire(c) PROVE Goal
      BY <1>6 DEF Expire, Removed, Owed, Waiting, Starting, Accepted
<1>7. ASSUME NEW c \in Changes, Revert(c) PROVE Goal
      BY <1>7 DEF Revert, Owed, Waiting, RevertsAlone
<1>8. ASSUME NEW c \in Changes, Cleanup(c) \/ Log(c) PROVE Goal
      BY <1>8 DEF Cleanup, Log, Removed, Owed, Waiting, Starting, Reverting
<1>9. ASSUME NEW c \in Changes, ResumeArm(c) PROVE Goal
      BY <1>9 DEF ResumeArm, Owed, Waiting, Starting
<1>10. CASE ResumeRead
      BY <1>10 DEF ResumeRead, Owed, Waiting
<1>11. CASE Restart
      BY <1>11 DEF Restart, Owed, Waiting, PendingIsOnDisk, Starting, RevertsRecorded
<1>12. CASE UNCHANGED vars
      BY <1>12 DEF vars, Owed, Waiting
<1> QED BY <1>1, <1>2, <1>3, <1>4, <1>5, <1>6, <1>7, <1>8, <1>9, <1>10, <1>11, <1>12
        DEF Next, Net

(* A revert goes back to settings somebody tested, or whose failed revert  *)
(* is on the custody log, when no change overlaps another.                 *)
THEOREM RevertsToTested ==
    ASSUME Overlaps \subseteq {"request"}
    PROVE  Spec => []SnapshotIsTested
<1>1. Init => IInv /\ Ledger
      BY InitIInv, InitLedger
<1>2. IInv /\ Ledger /\ [Next]_vars => IInv' /\ Ledger'
  <2> SUFFICES ASSUME IInv, Ledger, [Next]_vars PROVE IInv' /\ Ledger'
      OBVIOUS
  <2>1. {"reverting", "starting"} \cap Overlaps = {}
        OBVIOUS
  <2>2. IInv'
        BY <2>1, StepKeeps, StepTypes DEF IInv
  <2>3. Ledger'
        BY StepReverts, StepOwing DEF Ledger
  <2> QED BY <2>2, <2>3
<1>3. Ledger => SnapshotIsTested
      BY DEF Ledger, SnapsTested, SnapshotIsTested, Tested
<1> QED BY <1>1, <1>2, <1>3, PTL DEF Spec

(***************************************************************************)
(* No change overlaps another, and a record that is to go does go: what an *)
(* examiner confirmed is never reverted.  The argument: a revert that may  *)
(* still come is on record; what is on record is not confirmed, and its    *)
(* device has the new settings or still the snapshot (OnRecord).  For that *)
(* nothing may change the device between the snapshot and the submission   *)
(* of a change (Calmly).                                                   *)
(***************************************************************************)
RecordOwed == \A c \in Changes : record = c => \/ Waiting /\ pending = c
                                               \/ timer[c] \in {"reverting", "cleanup"}
                                               \/ resume \in {"start", c}
OnRecord   == \A c \in Changes : record = c => /\ c \notin confirmed /\ req[c] = "done"
                                               /\ conf[dev[c]] \in {c, snap[c]}
Answered   == \A c \in confirmed : req[c] = "done"
Submitted  == \A c \in Changes : pending = c => req[c] = "done"
Calmly     == \A c \in Changes : req[c] = "asked" =>
                  /\ snap[c] = conf[dev[c]] /\ resume = "none" /\ record = NoChange
                  /\ ~Waiting /\ ~Reverting
                  /\ \A x \in Changes : applier[x] # "armed" /\ (req[x] = "asked" => x = c)

Settled == RecordOwed /\ OnRecord /\ Answered /\ Submitted /\ Calmly

LEMMA InitSettled == ASSUME Init PROVE Settled
      BY NetworkAssumption DEF Init, Settled, RecordOwed, OnRecord, Answered, Submitted,
         Calmly

(* Each step keeps what is on record, and what nobody disturbs. *)
LEMMA StepSettled ==
    ASSUME Overlaps = {}, RemovalMayFail = FALSE, IInv, Ledger, Settled, [Next]_vars
    PROVE  Settled'
<1> USE NetworkAssumption DEF IInv, TypeOK, Settings, mem, asked, told, Ledger, Settled
<1> DEFINE Owed2   == RecordOwed' /\ OnRecord'
           Calmer  == Answered' /\ Submitted' /\ Calmly'
<1>1. ASSUME NEW c \in Changes, Ask(c) PROVE Settled'
  <2>1. UnderWay(c) = {}
        BY <1>1 DEF Ask, Calm
  <2>2. /\ \A x \in Changes \ {c} : req[x] # "asked"
        /\ \A x \in Changes : applier[x] # "armed"
        /\ ~Waiting /\ ~Reverting /\ resume = "none"
        BY <2>1 DEF UnderWay, Situations, Reverting
  <2>3. record = NoChange
        BY <2>2 DEF RecordOwed, Reverting
  <2>4. Owed2
        BY <1>1, <2>3 DEF Ask, RecordOwed, OnRecord, Waiting
  <2>5. Calmer
        BY <1>1, <2>2, <2>3 DEF Ask, Answered, Submitted, Calmly, Waiting, Reverting
  <2> QED BY <2>4, <2>5
<1>2. ASSUME NEW c \in Changes, Submit(c) PROVE Settled'
  <2>1. /\ conf[dev[c]] = snap[c] /\ c \notin confirmed
        /\ \A x \in Changes : req[x] = "asked" => x = c
        BY <1>2 DEF Submit, Calmly, Answered
  <2>2. Owed2
        BY <1>2, <2>1 DEF Submit, RecordOwed, OnRecord, Waiting
  <2>3. Calmer
        BY <1>2, <2>1 DEF Submit, Answered, Submitted, Calmly
  <2> QED BY <2>2, <2>3
<1>3. ASSUME NEW c \in Changes, Refuse(c) PROVE Settled'
      BY <1>3 DEF Refuse, RecordOwed, OnRecord, Answered, Submitted, Calmly, Waiting, Reverting
<1>4. ASSUME NEW c \in Changes, Apply(c) PROVE Settled'
  <2>1. pending = c /\ \A x \in Changes : req[x] # "asked"
        BY <1>4 DEF Apply, Applying, Calmly
  <2>2. \A x \in Changes : record = x => x = c
        BY <2>1 DEF RecordOwed, RevertsAlone, RevertsRecorded, Starting, PendingIsOnDisk
  <2> QED BY <1>4, <2>1, <2>2 DEF Apply, RecordOwed, OnRecord, Answered, Submitted, Calmly, Waiting
<1>5. ASSUME NEW c \in Changes, Confirm(c) PROVE Settled'
      BY <1>5 DEF Confirm, Removed, RecordOwed, OnRecord, Answered, Submitted, Calmly, Waiting,
         Reverting
<1>6. ASSUME NEW c \in Changes, Expire(c) PROVE Settled'
  <2>1. Owed2
        BY <1>6 DEF Expire, Removed, RecordOwed, OnRecord, Waiting
  <2>2. Calmer
        BY <1>6 DEF Expire, Removed, Answered, Submitted, Calmly, Waiting, Reverting
  <2> QED BY <2>1, <2>2
<1>7. ASSUME NEW c \in Changes, Revert(c) PROVE Settled'
  <2>1. record = c /\ \A x \in Changes : req[x] # "asked"
        BY <1>7 DEF Revert, RevertsRecorded, Calmly, Reverting
  <2> QED BY <1>7, <2>1 DEF Revert, RecordOwed, OnRecord, Answered, Submitted, Calmly
<1>8. ASSUME NEW c \in Changes, Cleanup(c) \/ Log(c) PROVE Settled'
      BY <1>8 DEF Cleanup, Log, Removed, RecordOwed, OnRecord, Answered, Submitted, Calmly,
         Waiting, Reverting
<1>9. ASSUME NEW c \in Changes, ResumeArm(c) PROVE Settled'
  <2>1. record = c
        BY <1>9 DEF ResumeArm, Starting
  <2> QED BY <1>9, <2>1 DEF ResumeArm, RecordOwed, OnRecord, Answered, Submitted, Calmly, Waiting
<1>10. CASE ResumeRead
      BY <1>10 DEF ResumeRead, RecordOwed, OnRecord, Answered, Submitted, Calmly, Waiting
<1>11. CASE Restart
      BY <1>11 DEF Restart, RecordOwed, OnRecord, Answered, Submitted, Calmly
<1>12. CASE UNCHANGED vars
      BY <1>12 DEF vars, RecordOwed, OnRecord, Answered, Submitted, Calmly, Waiting, Reverting
<1> QED BY <1>1, <1>2, <1>3, <1>4, <1>5, <1>6, <1>7, <1>8, <1>9, <1>10, <1>11, <1>12
        DEF Next, Net

(* "Confirmed means never revert, even after a restart": no revert takes   *)
(* confirmed settings off a device, when no change overlaps another and a  *)
(* record that is to be removed is.                                        *)
THEOREM ConfirmedStays ==
    ASSUME Overlaps = {}, RemovalMayFail = FALSE
    PROVE  Spec => ConfirmedIsKept
<1> DEFINE Kept == \A c \in Changes : Revert(c) /\ conf'[dev[c]] # conf[dev[c]]
                                      => conf[dev[c]] \notin confirmed
<1>1. Init => IInv /\ Ledger /\ Settled
      BY InitIInv, InitLedger, InitSettled
<1>2. IInv /\ Ledger /\ Settled /\ [Next]_vars => IInv' /\ Ledger' /\ Settled'
  <2> SUFFICES ASSUME IInv, Ledger, Settled, [Next]_vars PROVE IInv' /\ Ledger' /\ Settled'
      OBVIOUS
  <2>1. IInv'
        BY StepKeeps, StepTypes DEF IInv
  <2>2. Ledger'
        BY StepReverts, StepOwing DEF Ledger
  <2> QED BY <2>1, <2>2, StepSettled
<1>3. IInv /\ Ledger /\ Settled => [Kept]_vars
  <2> SUFFICES ASSUME IInv, Ledger, Settled, NEW c \in Changes, Revert(c),
                      conf'[dev[c]] # conf[dev[c]]
               PROVE  conf[dev[c]] \notin confirmed
      OBVIOUS
  <2>1. record = c
        BY DEF Revert, Ledger, RevertsRecorded
  <2>2. c \notin confirmed /\ conf[dev[c]] \in {c, snap[c]}
        BY <2>1 DEF Settled, OnRecord
  <2>3. conf'[dev[c]] = snap[c]
        BY DEF Revert, IInv, TypeOK
  <2> QED BY <2>2, <2>3
<1> QED BY <1>1, <1>2, <1>3, PTL DEF Spec, ConfirmedIsKept

=============================================================================
