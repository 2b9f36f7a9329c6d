-------------------------- MODULE CaseRecordProofs --------------------------
(***************************************************************************)
(* The write lock of a case keeps its record: for any number of jobs,      *)
(* requests, pages and restarts no update is lost, what was acknowledged   *)
(* stays, and a finished case is frozen.                                   *)
(*                                                                         *)
(* The argument: whoever is between its read and its rename holds the      *)
(* lock (Locked), so nobody else has written since it read and its copy is *)
(* the record (Current), and the status it was checked against still       *)
(* stands (Checked).                                                       *)
(***************************************************************************)
EXTENDS CaseRecord, TLAPS

Writing == {"inside", "starting", "finishing"}

Locked  == \A w \in Writers : pc[w] \in Writing \cup {"credit"} => lock = w
Current == \A w \in Writers : pc[w] \in Writing => seen[w] = disk
Checked == \A w \in Writers : pc[w] = "inside" /\ Guarded(w) => disk.status \notin ReadOnly
Phased  == \A w \in Writers :
              /\ pc[w] \in {"start", "starting", "running", "finish", "finishing", "lost"}
                 => w \in Jobs
              /\ pc[w] \in {"waiting", "inside"} => w \notin Jobs
              /\ pc[w] = "credit" => w \in Notes \cup Exhibits \cup Entries

IInv == TypeOK /\ Locked /\ Current /\ Checked /\ Phased /\ AcknowledgedStays

-----------------------------------------------------------------------------
(* What one update does to a record.                                       *)

(* The updates of a writer yield a record and keep every note, custody     *)
(* entry and event of another writer (_case_upsert_event,                  *)
(* _SERVER_OWNED_CASE_KEYS).                                               *)
LEMMA UpdateKeeps ==
    ASSUME TypeOK, NEW w \in Writers, NEW r \in Record, NEW s \in Updates(w, r)
    PROVE  /\ s \in Record
           /\ r.notes \subseteq s.notes
           /\ r.custody \subseteq s.custody
           /\ \A j \in Jobs \ {w} : s.events[j] = r.events[j]
<1> USE WritersAssumption DEF Writers
<1>1. CASE w \in Jobs
  <2>1. PICK e \in {"IN_PROGRESS", "FINAL"} : s = WithEvent(r, w, e)
        BY <1>1 DEF Updates, WithNote, WithEditedNote, WithExhibit, WithEntry
  <2>2. [r.events EXCEPT ![w] = e] \in [Jobs -> {"none", "IN_PROGRESS", "FINAL"}]
        BY <1>1, <2>1 DEF Record
  <2> QED BY <1>1, <2>1, <2>2 DEF WithEvent, Record
<1>2. CASE w \in Notes
      BY <1>2 DEF Updates, WithNote, WithEditedNote, WithExhibit, WithEntry, Record
<1>3. CASE w \in Exhibits
      BY <1>3 DEF Updates, WithNote, WithEditedNote, WithExhibit, WithEntry, Record
<1>4. CASE w \in Entries
      BY <1>4 DEF Updates, WithNote, WithEditedNote, WithExhibit, WithEntry, Record
<1>5. CASE w \in Clerks
  <2>1. PICK c \in Status : s = WithStatus(r, c)
        BY <1>5 DEF Updates, WithNote, WithEditedNote, WithExhibit, WithEntry
  <2> QED BY <2>1 DEF WithStatus, Record
<1>6. CASE w \in Pages
  <2>1. s = WithSave(r, base[w], mine[w])
        BY <1>6 DEF Updates, WithNote, WithEditedNote, WithExhibit, WithEntry
  <2>2. base[w] \in Editable /\ mine[w] \in Editable
        BY <1>6 DEF TypeOK
  <2>3. EditableOf(r) \in Editable
        BY DEF EditableOf, Editable, Record
  <2>4. Merged(base[w], EditableOf(r), mine[w]) \in Editable
        BY <2>2, <2>3 DEF Merged, Editable
  <2> QED BY <2>1, <2>4 DEF WithSave, Record, Editable
<1> QED BY <1>1, <1>2, <1>3, <1>4, <1>5, <1>6

(* A note, a custody entry and a job's outcome are in the record their own *)
(* update leaves.                                                          *)
LEMMA UpdateAdds ==
    ASSUME TypeOK, NEW w \in Writers, NEW r \in Record, NEW s \in Updates(w, r)
    PROVE  /\ w \in Notes => w \in s.notes
           /\ w \in Entries => w \in s.custody
           /\ w \in Jobs /\ pc[w] = "finishing" => s.events[w] = "FINAL"
<1> USE WritersAssumption DEF Writers
<1>1. CASE w \in Jobs
      BY <1>1 DEF Updates, WithNote, WithEditedNote, WithExhibit, WithEntry, WithEvent, Record
<1>2. CASE w \in Notes
      BY <1>2 DEF Updates, WithNote, WithEditedNote, WithExhibit, WithEntry, Record
<1>3. CASE w \in Entries
      BY <1>3 DEF Updates, WithNote, WithEditedNote, WithExhibit, WithEntry, Record
<1> QED BY <1>1, <1>2, <1>3

(* Only the guarded writers change what was handed over.                   *)
LEMMA UpdateOfUnguarded ==
    ASSUME TypeOK, NEW w \in Writers, ~Guarded(w), NEW r \in Record, NEW s \in Updates(w, r)
    PROVE  HandedOver(s) = HandedOver(r)
<1> USE WritersAssumption DEF Writers
<1>1. CASE w \in Jobs
      BY <1>1 DEF Updates, WithNote, WithEditedNote, WithExhibit, WithEntry, WithEvent, Record, HandedOver
<1>2. CASE w \in Entries
      BY <1>2 DEF Updates, WithNote, WithEditedNote, WithExhibit, WithEntry, Record, HandedOver
<1>3. CASE w \in Clerks
  <2>1. PICK c \in Status : s = WithStatus(r, c)
        BY <1>3 DEF Updates, WithNote, WithEditedNote, WithExhibit, WithEntry
  <2> QED BY <2>1 DEF WithStatus, Record, HandedOver
<1> QED BY <1>1, <1>2, <1>3 DEF Guarded

(* Only a clerk changes the status, and only a page replaces the narrative *)
(* or takes an exhibit away.                                               *)
LEMMA UpdateOfOthers ==
    ASSUME TypeOK, NEW w \in Writers, NEW r \in Record, NEW s \in Updates(w, r)
    PROVE  /\ w \notin Clerks => s.status = r.status /\ s.before = r.before
           /\ w \notin Pages => s.narrative = r.narrative /\ r.files \subseteq s.files
<1> USE WritersAssumption DEF Writers
<1>1. CASE w \in Jobs
      BY <1>1 DEF Updates, WithNote, WithEditedNote, WithExhibit, WithEntry, WithEvent, Record
<1>2. CASE w \in Notes
      BY <1>2 DEF Updates, WithNote, WithEditedNote, WithExhibit, WithEntry, Record
<1>3. CASE w \in Exhibits
      BY <1>3 DEF Updates, WithNote, WithEditedNote, WithExhibit, WithEntry, Record
<1>4. CASE w \in Entries
      BY <1>4 DEF Updates, WithNote, WithEditedNote, WithExhibit, WithEntry, Record
<1>5. CASE w \in Clerks
  <2>1. PICK c \in Status : s = WithStatus(r, c)
        BY <1>5 DEF Updates, WithNote, WithEditedNote, WithExhibit, WithEntry
  <2> QED BY <1>5, <2>1 DEF WithStatus, Record
<1>6. CASE w \in Pages
  <2>1. s = WithSave(r, base[w], mine[w])
        BY <1>6 DEF Updates, WithNote, WithEditedNote, WithExhibit, WithEntry
  <2> QED BY <1>6, <2>1 DEF WithSave, Record
<1> QED BY <1>1, <1>2, <1>3, <1>4, <1>5, <1>6

(* Crediting an author touches the examiner list only, and that of a       *)
(* finished case not at all (ensure_examiner_recorded).                    *)
LEMMA CreditKeeps ==
    ASSUME NEW w \in Writers, NEW r \in Record
    PROVE  /\ Credited(w, r) \in Record
           /\ Credited(w, r).notes = r.notes
           /\ Credited(w, r).custody = r.custody
           /\ Credited(w, r).events = r.events
           /\ r.status \in ReadOnly => Credited(w, r) = r
BY DEF Credited, Record

-----------------------------------------------------------------------------
(* The invariant holds initially and through every step.                   *)

(* What a new case's file holds is a record.                               *)
LEMMA StubIsRecord == Stub \in Record
BY DEF Stub, Record, Status

(* A new case satisfies the invariant.                                     *)
LEMMA InitIInv == ASSUME Init PROVE IInv
<1> USE WritersAssumption
<1>1. EditableOf(Stub) \in Editable
      BY DEF EditableOf, Editable, Stub
<1>2. TypeOK
      BY <1>1, StubIsRecord DEF Init, TypeOK
<1>3. AcknowledgedStays
      BY DEF Init, AcknowledgedStays, Writers
<1> QED BY <1>2, <1>3 DEF Init, IInv, Locked, Current, Checked, Phased, Writing

(* A step that leaves the record alone, and takes no writer into the       *)
(* critical section, keeps all but the types.                              *)
LEMMA Bystanders ==
    ASSUME IInv, disk' = disk, lock' = lock, seen' = seen,
           NEW w \in Writers, NEW to, pc' = [pc EXCEPT ![w] = to],
           to \notin Writing \cup {"credit", "done"},
           to \in {"start", "running", "finish", "lost"} => w \in Jobs,
           to = "waiting" => w \notin Jobs
    PROVE  Locked' /\ Current' /\ Checked' /\ Phased' /\ AcknowledgedStays'
<1> USE DEF IInv, TypeOK
<1>1. \A v \in Writers : pc'[v] = IF v = w THEN to ELSE pc[v]
      OBVIOUS
<1>2. Locked' /\ Current'
      BY <1>1 DEF Locked, Current, Writing
<1>3. Checked'
      BY <1>1 DEF Checked, Writing, Guarded
<1>4. Phased'
      BY <1>1 DEF Phased, Writing
<1>5. AcknowledgedStays'
      BY <1>1 DEF AcknowledgedStays, Writing, Writers
<1> QED BY <1>2, <1>3, <1>4, <1>5

(* Whoever is in the critical section is there alone.                      *)
LEMMA Alone ==
    ASSUME Locked, NEW w \in Writers, pc[w] \in Writing \cup {"credit"}
    PROVE  \A v \in Writers \ {w} : pc[v] \notin Writing \cup {"credit"}
BY DEF Locked

(* A write under the lock keeps what was acknowledged, and the one who     *)
(* leaves the critical section, or goes on to its credit, keeps the rest.  *)
LEMMA WriterLeaves ==
    ASSUME IInv, NEW w \in Writers, pc[w] \in Writing \cup {"credit"},
           NEW to, pc' = [pc EXCEPT ![w] = to],
           to \notin Writing, to # "waiting",
           to = "credit" => lock' = w /\ w \in Notes \cup Exhibits \cup Entries,
           to \in {"start", "running", "finish", "lost"} => w \in Jobs,
           disk.notes \subseteq disk'.notes,
           disk.custody \subseteq disk'.custody,
           \A j \in Jobs \ {w} : disk'.events[j] = disk.events[j],
           w \in Notes /\ to \in {"credit", "done"} => w \in disk'.notes,
           w \in Entries /\ to \in {"credit", "done"} => w \in disk'.custody,
           w \in Jobs /\ to = "done" => disk'.events[w] = "FINAL"
    PROVE  Locked' /\ Current' /\ Checked' /\ Phased' /\ AcknowledgedStays'
<1> USE DEF IInv, TypeOK
<1>1. \A v \in Writers : pc'[v] = IF v = w THEN to ELSE pc[v]
      OBVIOUS
<1>2. \A v \in Writers \ {w} : pc[v] \notin Writing \cup {"credit"}
      BY Alone
<1>3. Locked' /\ Current' /\ Checked'
      BY <1>1, <1>2 DEF Locked, Current, Checked, Writing
<1>4. Phased'
      BY <1>1 DEF Phased, Writing
<1>5. AcknowledgedStays'
      BY <1>1 DEF AcknowledgedStays, Writers
<1> QED BY <1>3, <1>4, <1>5

(* The lock is free, a writer takes it and reads.                          *)
LEMMA WriterEnters ==
    ASSUME IInv, NEW w \in Writers, Enter(w)
    PROVE  IInv'
<1> USE DEF IInv
<1>1. /\ \A v \in Writers : pc'[v] = IF v = w THEN Within(w) ELSE pc[v]
      /\ \A v \in Writers : seen'[v] = IF v = w THEN disk ELSE seen[v]
      /\ lock' = w /\ lock = NoWriter /\ disk' = disk
      BY DEF Enter, TypeOK
<1>2. Within(w) \in Writing
      BY DEF Within, Writing
<1>3. NoWriter \notin Writers
      BY WritersAssumption
<1>4. \A v \in Writers : pc[v] \notin Writing \cup {"credit"}
      BY <1>1, <1>3 DEF Locked
<1>5. TypeOK'
      BY <1>2 DEF Enter, TypeOK, Writing
<1>6. Locked' /\ Current'
      BY <1>1, <1>4 DEF Locked, Current
<1>7. Checked'
      BY <1>1, <1>4 DEF Checked, Writing, Enter
<1>8. Phased'
      BY <1>1 DEF Phased, Within, Enter, Waits
<1>9. AcknowledgedStays'
      BY <1>1, <1>2 DEF AcknowledgedStays, Writing, Writers
<1> QED BY <1>5, <1>6, <1>7, <1>8, <1>9

(* Under the lock the update is of the record as it is.                    *)
LEMMA CommitIsCurrent ==
    ASSUME IInv, NEW w \in Writers, Commit(w)
    PROVE  /\ disk' \in Updates(w, disk)
           /\ pc[w] \in Writing
           /\ disk \in Record
BY DEF IInv, Current, Commit, Writing, TypeOK

(* The rename that ends a write keeps the invariant.                       *)
LEMMA CommitKeeps ==
    ASSUME IInv, NEW w \in Writers, Commit(w)
    PROVE  IInv'
<1> USE WritersAssumption DEF IInv
<1>1. disk' \in Updates(w, disk) /\ pc[w] \in Writing /\ disk \in Record /\ lock = w
      BY CommitIsCurrent DEF Locked
<1>2. /\ disk' \in Record
      /\ disk.notes \subseteq disk'.notes
      /\ disk.custody \subseteq disk'.custody
      /\ \A j \in Jobs \ {w} : disk'.events[j] = disk.events[j]
      BY <1>1, UpdateKeeps
<1>3. /\ w \in Notes => w \in disk'.notes
      /\ w \in Entries => w \in disk'.custody
      /\ w \in Jobs /\ pc[w] = "finishing" => disk'.events[w] = "FINAL"
      BY <1>1, UpdateAdds
<1>4. CASE w \in Notes \cup Exhibits \cup Entries
  <2>1. pc' = [pc EXCEPT ![w] = "credit"] /\ UNCHANGED <<lock, seen, base, mine, restarts>>
        BY <1>4 DEF Commit, Writers
  <2>2. TypeOK'
        BY <2>1, <1>2 DEF TypeOK
  <2>3. Locked' /\ Current' /\ Checked' /\ Phased' /\ AcknowledgedStays'
        BY <1>1, <1>2, <1>3, <1>4, <2>1, WriterLeaves DEF Writers, Writing
  <2> QED BY <2>2, <2>3
<1>5. CASE w \in Jobs \cup Clerks
  <2> DEFINE to == IF pc[w] = "starting" THEN "running" ELSE "done"
  <2>1. pc' = [pc EXCEPT ![w] = to] /\ Leaves(w) /\ UNCHANGED <<base, mine, restarts>>
        BY <1>5 DEF Commit, Writers
  <2>2. TypeOK'
        BY <2>1, <1>2, StubIsRecord DEF TypeOK, Leaves
  <2>3. w \in Jobs => pc[w] \in {"starting", "finishing"}
        BY <1>1 DEF Phased, Writing
  <2>4. pc[w] = "starting" => w \in Jobs
        BY DEF Phased
  <2>5. to \in {"running", "done"} /\ (to = "running" => w \in Jobs)
        BY <2>4
  <2>6. w \in Jobs /\ to = "done" => disk'.events[w] = "FINAL"
        BY <1>3, <2>3
  <2>7. Locked' /\ Current' /\ Checked' /\ Phased' /\ AcknowledgedStays'
    <3> HIDE DEF to
    <3> QED BY <1>1, <1>2, <1>3, <2>1, <2>5, <2>6, WriterLeaves DEF Writing
  <2> QED BY <2>2, <2>7
<1>6. CASE w \in Pages
  <2>1. pc' = [pc EXCEPT ![w] = "idle"] /\ Leaves(w) /\ UNCHANGED <<mine, restarts>>
        /\ base' = [base EXCEPT ![w] = mine[w]]
        BY <1>6 DEF Commit, Writers
  <2>2. TypeOK'
        BY <2>1, <1>2, <1>6, StubIsRecord DEF TypeOK, Leaves
  <2>3. Locked' /\ Current' /\ Checked' /\ Phased' /\ AcknowledgedStays'
        BY <1>1, <1>2, <1>6, <2>1, WriterLeaves DEF Writers, Writing
  <2> QED BY <2>2, <2>3
<1> QED BY <1>4, <1>5, <1>6 DEF Writers

(* The credit that follows a note, an exhibit or a custody entry keeps the *)
(* invariant, written or not.                                              *)
LEMMA CreditStepKeeps ==
    ASSUME IInv, NEW w \in Writers, Credit(w)
    PROVE  IInv'
<1> USE DEF IInv
<1>1. /\ pc[w] = "credit" /\ pc' = [pc EXCEPT ![w] = "done"]
      /\ Leaves(w) /\ UNCHANGED <<base, mine, restarts>>
      /\ disk' = disk \/ disk' = Credited(w, disk)
      BY DEF Credit, Goes
<1>2. /\ disk' \in Record
      /\ disk'.notes = disk.notes /\ disk'.custody = disk.custody
      /\ disk'.events = disk.events
      BY <1>1, CreditKeeps DEF TypeOK
<1>3. TypeOK'
      BY <1>1, <1>2, StubIsRecord DEF TypeOK, Leaves
<1>4. /\ w \notin Jobs
      /\ w \in Notes => w \in disk'.notes
      /\ w \in Entries => w \in disk'.custody
      BY <1>1, <1>2, WritersAssumption DEF Phased, AcknowledgedStays
<1>5. Locked' /\ Current' /\ Checked' /\ Phased' /\ AcknowledgedStays'
      BY <1>1, <1>2, <1>4, WriterLeaves DEF Writing
<1> QED BY <1>3, <1>5

(* Where a caller goes that is turned away or could not write.             *)
LEMMA GivesUpGoes ==
    ASSUME IInv, NEW w \in Writers, NEW how \in {"refused", "failed", "busy"},
           GivesUp(w, how), Waits(w) \/ pc[w] \in Writing
    PROVE  \E to \in {"idle", "running", "lost", "refused", "failed", "busy"} :
              /\ pc' = [pc EXCEPT ![w] = to]
              /\ to \in {"running", "lost"} => w \in Jobs
<1> DEFINE to == CASE w \in Pages -> "idle"
                   [] pc[w] \in {"start", "starting"} -> "running"
                   [] pc[w] \in {"finish", "finishing"} -> "lost"
                   [] OTHER -> how
<1>1. /\ pc' = [pc EXCEPT ![w] = to]
      /\ to \in {"idle", "running", "lost", "refused", "failed", "busy"}
      BY DEF GivesUp
<1>2. pc[w] \in {"start", "starting", "finish", "finishing"} => w \in Jobs
      BY DEF IInv, Phased
<1>3. to \in {"running", "lost"} => w \in Jobs
      BY <1>2
<1> HIDE DEF to
<1> QED BY <1>1, <1>3

(* A request that is turned away changes nothing but its own place.        *)
LEMMA TurnedAwayKeeps ==
    ASSUME IInv, NEW w \in Writers, ReadOnlyRefusal(w) \/ Unreadable(w) \/ Busy(w)
    PROVE  IInv'
<1> USE DEF IInv
<1>1. PICK how \in {"refused", "failed", "busy"} :
         GivesUp(w, how) /\ Waits(w) /\ UNCHANGED <<disk, lock, seen, base, mine, restarts>>
      BY DEF ReadOnlyRefusal, Unreadable, Busy
<1>2. PICK to \in {"idle", "running", "lost", "refused", "failed", "busy"} :
              /\ pc' = [pc EXCEPT ![w] = to]
              /\ to \in {"running", "lost"} => w \in Jobs
      BY <1>1, GivesUpGoes
<1>3. TypeOK'
      BY <1>1, <1>2 DEF TypeOK
<1>4. Locked' /\ Current' /\ Checked' /\ Phased' /\ AcknowledgedStays'
      BY <1>1, <1>2, Bystanders DEF Writing
<1> QED BY <1>3, <1>4

(* A writer that leaves without having written gives the lock back.        *)
LEMMA LeavesUnwrittenKeeps ==
    ASSUME IInv, NEW w \in Writers, Conflict(w) \/ WriteFails(w)
    PROVE  IInv'
<1> USE DEF IInv
<1>1. pc[w] \in Writing /\ Leaves(w) /\ UNCHANGED <<disk, base, mine, restarts>>
      BY DEF Conflict, WriteFails, Writing
<1>2. PICK to \in {"idle", "running", "lost", "refused", "failed", "busy"} :
              /\ pc' = [pc EXCEPT ![w] = to]
              /\ to \in {"running", "lost"} => w \in Jobs
  <2>1. CASE Conflict(w)
        BY <2>1 DEF Conflict
  <2>2. CASE WriteFails(w)
        BY <1>1, <2>2, GivesUpGoes DEF WriteFails
  <2> QED BY <2>1, <2>2
<1>3. TypeOK'
      BY <1>1, <1>2, StubIsRecord DEF TypeOK, Leaves
<1>4. Locked' /\ Current' /\ Checked' /\ Phased' /\ AcknowledgedStays'
      BY <1>1, <1>2, WriterLeaves DEF Writing
<1> QED BY <1>3, <1>4

(* Arriving at the lock, being admitted as a job and ending one leave the  *)
(* record alone.                                                           *)
LEMMA OutsideKeeps ==
    ASSUME IInv, NEW w \in Writers,
           Arrive(w) \/ (w \in Pages /\ Save(w)) \/ (w \in Jobs /\ (Admit(w) \/ Ends(w)))
    PROVE  IInv'
<1> USE DEF IInv
<1>1. UNCHANGED <<disk, lock, seen, base, mine, restarts>>
      BY DEF Arrive, Save, Admit, Ends
<1>2. PICK to \in {"waiting", "refused", "start", "finish"} :
              /\ pc' = [pc EXCEPT ![w] = to]
              /\ to \in {"start", "finish"} => w \in Jobs
              /\ to = "waiting" => w \notin Jobs
      BY WritersAssumption DEF Arrive, Save, Admit, Ends, Goes
<1>3. TypeOK'
      BY <1>1, <1>2 DEF TypeOK
<1>4. Locked' /\ Current' /\ Checked' /\ Phased' /\ AcknowledgedStays'
      BY <1>1, <1>2, Bystanders DEF Writing
<1> QED BY <1>3, <1>4

(* What happens in the browser does not touch the record.                  *)
LEMMA BrowserKeeps ==
    ASSUME IInv, NEW p \in Pages, Load(p) \/ Edit(p)
    PROVE  IInv'
<1> USE DEF IInv
<1>1. UNCHANGED <<disk, lock, pc, seen, restarts>>
      BY DEF Load, Edit
<1>2. EditableOf(disk) \in Editable
      BY DEF TypeOK, EditableOf, Editable, Record
<1>3. base' \in [Pages -> Editable] /\ mine' \in [Pages -> Editable]
  <2>1. CASE Load(p)
        BY <1>2, <2>1 DEF Load, TypeOK
  <2>2. CASE Edit(p)
        BY <2>2 DEF Edit, TypeOK, Editable
  <2> QED BY <2>1, <2>2
<1>4. TypeOK'
      BY <1>1, <1>3 DEF TypeOK
<1>5. Locked' /\ Current' /\ Checked' /\ Phased' /\ AcknowledgedStays'
      BY <1>1 DEF Locked, Current, Checked, Phased, AcknowledgedStays
<1> QED BY <1>4, <1>5

(* A restart takes everyone out of the critical section and leaves the     *)
(* record as the last rename left it.                                      *)
LEMMA RestartKeeps ==
    ASSUME IInv, Restart
    PROVE  IInv'
<1> USE DEF IInv
<1>1. /\ disk' = disk /\ base' = base /\ mine' = mine
      /\ lock' = NoWriter /\ seen' = [w \in Writers |-> Stub]
      /\ restarts' \in 0 .. MaxRestarts
      BY WritersAssumption DEF Restart, TypeOK
<1>2. \A w \in Writers :
         /\ pc'[w] \in {"idle", "done", "refused", "failed", "busy", "lost", "cut"}
         /\ pc'[w] \in {"done", "lost"} => pc[w] = pc'[w]
      BY DEF Restart
<1>3. TypeOK'
      BY <1>1, <1>2, StubIsRecord DEF TypeOK, Restart
<1>4. Locked' /\ Current' /\ Checked'
      BY <1>2 DEF Locked, Current, Checked, Writing
<1>5. Phased'
      BY <1>2 DEF Phased
<1>6. AcknowledgedStays'
      BY <1>1, <1>2 DEF AcknowledgedStays, Writers
<1> QED BY <1>3, <1>4, <1>5, <1>6

(* The invariant is inductive.                                             *)
LEMMA StepKeeps ==
    ASSUME IInv, [Next]_vars
    PROVE  IInv'
<1>1. ASSUME NEW w \in Writers, Arrive(w) PROVE IInv'
      BY <1>1, OutsideKeeps
<1>2. ASSUME NEW w \in Writers, Answer(w) PROVE IInv'
      BY <1>2, WriterEnters, TurnedAwayKeeps DEF Answer
<1>3. ASSUME NEW w \in Writers, Unreadable(w) PROVE IInv'
      BY <1>3, TurnedAwayKeeps
<1>4. ASSUME NEW w \in Writers, Write(w) PROVE IInv'
      BY <1>4, LeavesUnwrittenKeeps, CommitKeeps, CreditStepKeeps DEF Write
<1>5. ASSUME NEW w \in Writers, WriteFails(w) PROVE IInv'
      BY <1>5, LeavesUnwrittenKeeps
<1>6. ASSUME NEW p \in Pages, Load(p) \/ Edit(p) \/ Save(p) PROVE IInv'
      BY <1>6, BrowserKeeps, OutsideKeeps DEF Writers
<1>7. ASSUME NEW j \in Jobs, Admit(j) \/ Ends(j) PROVE IInv'
      BY <1>7, OutsideKeeps DEF Writers
<1>8. CASE UNCHANGED vars
      BY <1>8 DEF vars, IInv, TypeOK, Locked, Current, Checked, Phased, AcknowledgedStays
<1> QED BY <1>1, <1>2, <1>3, <1>4, <1>5, <1>6, <1>7, <1>8, RestartKeeps DEF Next

-----------------------------------------------------------------------------
(* The theorems.                                                           *)

(* Locked, Current and Checked hold throughout: the copy a writer writes   *)
(* back changed is the record (serialize_case_writes, case_write_lock).    *)
THEOREM Invariance == Spec => []IInv
<1>1. Init => IInv
      BY InitIInv
<1>2. IInv /\ [Next]_vars => IInv'
      BY StepKeeps
<1> QED BY <1>1, <1>2, PTL DEF Spec

(* Every record on disk, and every copy of it, has the fields and ranges   *)
(* of TypeOK.                                                              *)
THEOREM RecordTypeCorrect == Spec => []TypeOK
<1>1. IInv => TypeOK
      BY DEF IInv
<1> QED BY <1>1, Invariance, PTL

(* Notes, custody entries and job outcomes that were acknowledged survive  *)
(* every later save, failed write and restart.                             *)
THEOREM AcknowledgedSurvives == Spec => []AcknowledgedStays
<1>1. IInv => AcknowledgedStays
      BY DEF IInv
<1> QED BY <1>1, Invariance, PTL

(* What a step may do to the record under the invariant.                   *)
LEMMA StepWrites ==
    ASSUME IInv, [Next]_vars
    PROVE  \/ disk' = disk
           \/ \E w \in Writers : \/ Commit(w) /\ disk' \in Updates(w, disk)
                                 \/ disk' = Credited(w, disk)
<1>1. ASSUME NEW w \in Writers, Write(w), disk' # disk
      PROVE  \/ Commit(w) /\ disk' \in Updates(w, disk)
             \/ disk' = Credited(w, disk)
      BY <1>1, CommitIsCurrent DEF Write, Conflict, Credit
<1>2. ASSUME NEW w \in Writers,
             Arrive(w) \/ Answer(w) \/ Unreadable(w) \/ WriteFails(w)
      PROVE  disk' = disk
      BY <1>2 DEF Arrive, Answer, Enter, ReadOnlyRefusal, Busy, Unreadable, WriteFails
<1>3. ASSUME NEW p \in Pages, Load(p) \/ Edit(p) \/ Save(p)
      PROVE  disk' = disk
      BY <1>3 DEF Load, Edit, Save
<1>4. ASSUME NEW j \in Jobs, Admit(j) \/ Ends(j)
      PROVE  disk' = disk
      BY <1>4 DEF Admit, Ends
<1>5. CASE Restart \/ UNCHANGED vars
      BY <1>5 DEF Restart, vars
<1> QED BY <1>1, <1>2, <1>3, <1>4, <1>5 DEF Next

(* No write erases what another wrote since.                               *)
THEOREM NothingIsLost == Spec => NoLostUpdate
<1>1. IInv /\ [Next]_vars
        => [disk' # disk => \E w \in Writers : \/ disk' \in Updates(w, disk)
                                             \/ disk' = Credited(w, disk)]_vars
      BY StepWrites
<1> QED BY <1>1, Invariance, PTL DEF Spec, NoLostUpdate

(* A Closed or Archived case keeps its narrative, notes, exhibits and      *)
(* examiners until it is re-opened: the status is checked under the lock   *)
(* the write is made under.                                                *)
THEOREM FinishedStaysFrozen == Spec => FinishedCaseIsFrozen
<1>1. ASSUME IInv, [Next]_vars, disk.status \in ReadOnly
      PROVE  HandedOver(disk') = HandedOver(disk)
  <2>1. disk \in Record
        BY <1>1 DEF IInv, TypeOK
  <2>2. ASSUME NEW w \in Writers, Commit(w), disk' \in Updates(w, disk)
        PROVE  HandedOver(disk') = HandedOver(disk)
    <3>1. ~Guarded(w)
          BY <1>1, <2>2, WritersAssumption DEF IInv, Checked, Phased, Commit, Guarded
    <3> QED BY <1>1, <2>1, <2>2, <3>1, UpdateOfUnguarded DEF IInv
  <2>3. ASSUME NEW w \in Writers, disk' = Credited(w, disk)
        PROVE  HandedOver(disk') = HandedOver(disk)
        BY <1>1, <2>1, <2>3, CreditKeeps DEF HandedOver
  <2> QED BY <1>1, <2>2, <2>3, StepWrites
<1>2. IInv /\ [Next]_vars
        => [disk.status \in ReadOnly => HandedOver(disk') = HandedOver(disk)]_vars
      BY <1>1
<1> QED BY <1>2, Invariance, PTL DEF Spec, FinishedCaseIsFrozen

(* Nobody but a page replaces the narrative or takes an exhibit away, and  *)
(* a page only what it had on display: its merge refuses a field that      *)
(* moved under it (_three_way_merge).                                      *)
THEOREM NothingOverwrittenBlindly == Spec => NoBlindOverwrite
<1> DEFINE Seen == /\ disk'.narrative # disk.narrative
                      => \E p \in Pages : base[p].narrative = disk.narrative
                   /\ \A f \in disk.files \ disk'.files : \E p \in Pages : f \in base[p].files
<1>1. ASSUME IInv, NEW w \in Writers, Commit(w), disk' \in Updates(w, disk)
      PROVE  Seen
  <2>1. disk \in Record /\ seen[w] = disk
        BY <1>1, CommitIsCurrent DEF IInv, Current
  <2>2. CASE w \in Pages
    <3>1. ~Clash(base[w], EditableOf(disk), mine[w])
          BY <1>1, <2>1, <2>2 DEF Commit
    <3>2. disk' = WithSave(disk, base[w], mine[w])
          BY <1>1, <2>2, WritersAssumption DEF Updates, WithNote, WithEditedNote, WithExhibit, WithEntry
    <3>3. /\ disk'.narrative = Merged(base[w], EditableOf(disk), mine[w]).narrative
          /\ disk'.files = Merged(base[w], EditableOf(disk), mine[w]).files
          BY <2>1, <3>2 DEF WithSave, Record
    <3>4. disk'.narrative # disk.narrative => base[w].narrative = disk.narrative
          BY <3>1, <3>3 DEF Clash, Merged, EditableOf
    <3>5. \A f \in disk.files \ disk'.files : f \in base[w].files
          BY <3>3 DEF Merged, EditableOf
    <3> QED BY <2>2, <3>4, <3>5
  <2>3. CASE w \notin Pages
    <3>1. disk'.narrative = disk.narrative /\ disk.files \subseteq disk'.files
          BY <1>1, <2>1, <2>3, UpdateOfOthers DEF IInv
    <3> QED BY <3>1
  <2> QED BY <2>2, <2>3
<1>2. ASSUME IInv, NEW w \in Writers, disk' = Credited(w, disk)
      PROVE  Seen
      BY <1>2 DEF IInv, TypeOK, Credited, Record
<1>3. IInv /\ [Next]_vars => Seen
      BY <1>1, <1>2, StepWrites
<1>4. IInv /\ [Next]_vars => [Seen]_vars
      BY <1>3
<1> QED BY <1>4, Invariance, PTL DEF Spec, NoBlindOverwrite

(* The status an archived case goes back to is the one it was archived     *)
(* from.                                                                   *)
THEOREM BeforeArchivingKept == Spec => []BeforeArchiving
<1>1. Init => BeforeArchiving
      BY DEF Init, BeforeArchiving, Stub
<1>2. ASSUME IInv, BeforeArchiving, NEW w \in Writers, disk' \in Updates(w, disk)
      PROVE  BeforeArchiving'
  <2>1. disk \in Record
        BY <1>2 DEF IInv, TypeOK
  <2>2. CASE w \in Clerks
    <3>1. PICK c \in Status : disk' = WithStatus(disk, c)
          BY <1>2, <2>2, WritersAssumption DEF Updates, WithNote, WithEditedNote, WithExhibit, WithEntry
    <3> QED BY <1>2, <2>1, <3>1 DEF WithStatus, Record, Status, BeforeArchiving
  <2>3. CASE w \notin Clerks
    <3>1. disk'.status = disk.status /\ disk'.before = disk.before
          BY <1>2, <2>1, <2>3, UpdateOfOthers DEF IInv
    <3> QED BY <1>2, <3>1 DEF BeforeArchiving
  <2> QED BY <2>2, <2>3
<1>3. ASSUME IInv, BeforeArchiving, NEW w \in Writers, disk' = Credited(w, disk)
      PROVE  BeforeArchiving'
      BY <1>3 DEF IInv, TypeOK, Credited, Record, BeforeArchiving
<1>4. IInv /\ BeforeArchiving /\ [Next]_vars => BeforeArchiving'
      BY <1>2, <1>3, StepWrites DEF BeforeArchiving
<1> QED BY <1>1, <1>4, Invariance, PTL DEF Spec

=============================================================================
