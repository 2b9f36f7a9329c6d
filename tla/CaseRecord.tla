----------------------------- MODULE CaseRecord -----------------------------
(***************************************************************************)
(* core/case_file.py and its callers: the one JSON record of a case        *)
(* ({slug}_case.json), which job workers, the note, exhibit, custody and   *)
(* status routes and the "Save Report Changes" button all read, change and *)
(* write back whole.                                                       *)
(*                                                                         *)
(* Each request thread takes the case's write lock (a route for at most 30 *)
(* seconds, a job worker for as long as it takes), reads the file, writes  *)
(* a sibling temporary file and renames it over the old one.  Requests,    *)
(* workers and a restart of the service interleave between those steps.    *)
(***************************************************************************)
EXTENDS Integers

CONSTANTS
    Jobs,        \* jobs, each with one event in the record
    Notes,       \* requests that add or edit a case note
    Exhibits,    \* requests that attach a file; each one's file bears its name
    Entries,     \* requests that add an entry to the physical custody log
    Clerks,      \* set_case_status requests
    Pages,       \* open Reporting pages
    NoEdit,      \* a narrative nobody has written
    NoWriter,    \* nobody
    MaxRestarts  \* how often the service restarts

Writers == Jobs \cup Notes \cup Exhibits \cup Entries \cup Clerks \cup Pages

ASSUME WritersAssumption ==
    /\ NoWriter \notin Writers /\ NoEdit \notin Pages /\ MaxRestarts \in Nat
    /\ Jobs \cap (Notes \cup Exhibits \cup Entries \cup Clerks \cup Pages) = {}
    /\ Notes \cap (Exhibits \cup Entries \cup Clerks \cup Pages) = {}
    /\ Exhibits \cap (Entries \cup Clerks \cup Pages) = {}
    /\ Entries \cap (Clerks \cup Pages) = {}
    /\ Clerks \cap Pages = {}

VARIABLES
    disk,      \* the record in {slug}_case.json
    lock,      \* who holds the case's write lock
    pc,        \* where each request or worker is
    seen,      \* the copy of the record it read, and will write back changed
    base,      \* base_fields: the editable values each page painted from disk
    mine,      \* the editable values the page shows
    restarts   \* how often the service has restarted

vars == <<disk, lock, pc, seen, base, mine, restarts>>

Status   == {"Open", "Closed", "Archived"}
ReadOnly == {"Closed", "Archived"}    \* CASE_STATUSES_READ_ONLY

Editable == [narrative : Pages \cup {NoEdit}, files : SUBSET Exhibits]

Record == [events : [Jobs -> {"none", "IN_PROGRESS", "FINAL"}],
           notes : SUBSET Notes,
           custody : SUBSET Entries,
           files : SUBSET Exhibits,
           narrative : Pages \cup {NoEdit},
           examiners : SUBSET Writers,
           status : Status,
           before : Status \cup {"none"}]

(* What create_case() writes, and what _read_case_file() makes of a file    *)
(* that is absent or empty.                                                *)
Stub == [events |-> [j \in Jobs |-> "none"], notes |-> {}, custody |-> {},
         files |-> {}, narrative |-> NoEdit, examiners |-> {},
         status |-> "Open", before |-> "none"]

EditableOf(r) == [narrative |-> r.narrative, files |-> r.files]

TypeOK ==
    /\ disk \in Record
    /\ lock \in Writers \cup {NoWriter}
    /\ pc \in [Writers -> {"idle", "waiting", "inside", "credit", "done", "refused",
                           "failed", "busy", "cut",
                           "start", "starting", "running", "finish", "finishing", "lost"}]
    /\ seen \in [Writers -> Record]
    /\ base \in [Pages -> Editable]
    /\ mine \in [Pages -> Editable]
    /\ restarts \in 0 .. MaxRestarts

Init ==
    /\ disk = Stub
    /\ lock = NoWriter
    /\ pc = [w \in Writers |-> "idle"]
    /\ seen = [w \in Writers |-> Stub]
    /\ base = [p \in Pages |-> EditableOf(Stub)]
    /\ mine = [p \in Pages |-> EditableOf(Stub)]
    /\ restarts = 0

Goes(w, from, to) == pc[w] = from /\ pc' = [pc EXCEPT ![w] = to]

-----------------------------------------------------------------------------
(* What each writer makes of the record it read.                           *)


(* _case_upsert_event(); _write_flat_report() likewise replaces what the    *)
(* job produces and keeps what people added.                               *)
WithEvent(r, j, e) == [r EXCEPT !.events = [r.events EXCEPT ![j] = e]]

\* Mutant: re-opening leaves the status of before the archiving behind.
WithStatus_Kept(r, s) ==
    [r EXCEPT !.status = s,
              !.before = IF s = "Archived" /\ r.status # "Archived" THEN r.status ELSE @]

(* set_case_status() *)
WithStatus(r, s) ==
    [r EXCEPT !.status = s,
              !.before = IF s = "Archived" THEN (IF r.status = "Archived" THEN @ ELSE r.status)
                         ELSE IF r.status = "Archived" THEN "none" ELSE @]

(* _three_way_merge() of a scalar both sides changed, and of a list of     *)
(* which both sides replaced an item.                                      *)
Clash(b, d, m) ==
    \/ m.narrative \notin {d.narrative, b.narrative} /\ d.narrative # b.narrative
    \/ /\ m.files \notin {d.files, b.files} /\ d.files # b.files
       /\ b.files \ (m.files \cup d.files) # {}
       /\ m.files \ (b.files \cup d.files) # {}
       /\ d.files \ (b.files \cup m.files) # {}

\* Mutant: the page's own values win.
Merged_Mine(b, d, m) == m

(* _three_way_merge(base, disk, mine) where they do not clash. *)
Merged(b, d, m) ==
    [narrative |-> IF m.narrative = b.narrative THEN d.narrative ELSE m.narrative,
     files |-> {f \in m.files : f \in d.files \/ f \notin b.files}
               \cup (d.files \ b.files)]

(* save_report_json(): the editable keys are merged; every key only the    *)
(* server writes is taken from disk.                                       *)
WithSave(r, b, m) ==
    LET e == Merged(b, EditableOf(r), m)
    IN  [r EXCEPT !.narrative = e.narrative, !.files = e.files]

(* add_case_note(): one more note. *)
WithNote(r, w) == [r EXCEPT !.notes = @ \cup {w}]

(* edit_case_note(): there has to be a note; as it was, it stays in its    *)
(* edit_history, so that an edit, too, only adds.                          *)
WithEditedNote(r, w) == IF r.notes = {} THEN {} ELSE {WithNote(r, w)}

(* attach_file_to_case(); a file attached already is left where it is.     *)
WithExhibit(r, w) == [r EXCEPT !.files = @ \cup {w}]

(* add_custody_entry() *)
WithEntry(r, w) == [r EXCEPT !.custody = @ \cup {w}]

(* The records a writer may leave behind when it writes from r. *)
Updates(w, r) ==
    CASE w \in Jobs     -> {WithEvent(r, w, IF pc[w] = "starting" THEN "IN_PROGRESS" ELSE "FINAL")}
      [] w \in Notes    -> {WithNote(r, w)} \cup WithEditedNote(r, w)
      [] w \in Exhibits -> {WithExhibit(r, w)}
      [] w \in Entries  -> {WithEntry(r, w)}
      [] w \in Clerks   -> {WithStatus(r, s) : s \in Status}
      [] OTHER          -> {WithSave(r, base[w], mine[w])}

(* ensure_examiner_recorded() *)
Credited(w, r) == IF r.status \in ReadOnly THEN r ELSE [r EXCEPT !.examiners = @ \cup {w}]

-----------------------------------------------------------------------------
(* Requests and workers.                                                   *)

(* A note, exhibit, custody or status request arrives. *)
Arrive(w) ==
    /\ w \in Notes \cup Exhibits \cup Entries \cup Clerks
    /\ Goes(w, "idle", "waiting")
    /\ UNCHANGED <<disk, lock, seen, base, mine, restarts>>

(* A page loads the report, or repaints it while it has no unsaved edits. *)
Load(p) ==
    /\ pc[p] = "idle" /\ mine[p] = base[p]
    /\ base' = [base EXCEPT ![p] = EditableOf(disk)]
    /\ mine' = [mine EXCEPT ![p] = EditableOf(disk)]
    /\ UNCHANGED <<disk, lock, pc, seen, restarts>>

(* An examiner rewrites the narrative or ticks and unticks exhibits. *)
Edit(p) ==
    /\ pc[p] = "idle"
    /\ \/ mine' = [mine EXCEPT ![p].narrative = p]
       \/ \E fs \in SUBSET Exhibits : mine' = [mine EXCEPT ![p].files = fs]
    /\ UNCHANGED <<disk, lock, pc, seen, base, restarts>>

Save(p) ==
    /\ mine[p] # base[p]
    /\ Goes(p, "idle", "waiting")
    /\ UNCHANGED <<disk, lock, seen, base, mine, restarts>>

(* A start route looks at the case's status, without the lock; a finished  *)
(* case gets no new work.                                                  *)
Admit(j) ==
    /\ Goes(j, "idle", IF disk.status \in ReadOnly THEN "refused" ELSE "start")
    /\ UNCHANGED <<disk, lock, seen, base, mine, restarts>>

(* The job ends and its worker has an outcome to record. *)
Ends(j) ==
    /\ Goes(j, "running", "finish")
    /\ UNCHANGED <<disk, lock, seen, base, mine, restarts>>

-----------------------------------------------------------------------------
(* Under the lock.                                                         *)

\* Mutant: custody entries are the only writes let into a finished case,
\* but exhibits were forgotten.
Guarded_NotExhibits(w) == w \in Notes \cup Pages

(* The routes that carry @refuses_read_only_case. *)
Guarded(w) == w \in Notes \cup Exhibits \cup Pages

Waits(w) == pc[w] \in {"waiting", "start", "finish"}

Within(w) == CASE pc[w] = "start"  -> "starting"
               [] pc[w] = "finish" -> "finishing"
               [] OTHER            -> "inside"

\* Mutant: no lock.
Enter_Unlocked(w) ==
    /\ Waits(w)
    /\ ~(Guarded(w) /\ disk.status \in ReadOnly)
    /\ lock' = w
    /\ pc' = [pc EXCEPT ![w] = Within(w)]
    /\ seen' = [seen EXCEPT ![w] = disk]
    /\ UNCHANGED <<disk, base, mine, restarts>>

(* The lock is taken, the status checked and the record read. *)
Enter(w) ==
    /\ Waits(w) /\ lock = NoWriter
    /\ ~(Guarded(w) /\ disk.status \in ReadOnly)
    /\ lock' = w
    /\ pc' = [pc EXCEPT ![w] = Within(w)]
    /\ seen' = [seen EXCEPT ![w] = disk]
    /\ UNCHANGED <<disk, base, mine, restarts>>

(* Where an operation that could not be done leaves its caller: a page     *)
(* keeps its edits, a job goes on without its event, a lost outcome is put *)
(* on the custody log, a route answers with an error.                      *)
GivesUp(w, how) ==
    pc' = [pc EXCEPT ![w] = CASE w \in Pages -> "idle"
                              [] pc[w] \in {"start", "starting"} -> "running"
                              [] pc[w] \in {"finish", "finishing"} -> "lost"
                              [] OTHER -> how]

ReadOnlyRefusal(w) ==
    /\ Waits(w) /\ lock = NoWriter
    /\ Guarded(w) /\ disk.status \in ReadOnly
    /\ GivesUp(w, "refused")
    /\ UNCHANGED <<disk, lock, seen, base, mine, restarts>>

\* Mutant: an unreadable file reads as an empty case, as it used to.
Unreadable_Stub(w) ==
    /\ Waits(w) /\ lock = NoWriter
    /\ lock' = w
    /\ pc' = [pc EXCEPT ![w] = Within(w)]
    /\ seen' = [seen EXCEPT ![w] = Stub]
    /\ UNCHANGED <<disk, base, mine, restarts>>

(* CaseFileUnreadable: nothing is written. *)
Unreadable(w) ==
    /\ Waits(w) /\ lock = NoWriter
    /\ GivesUp(w, "failed")
    /\ UNCHANGED <<disk, lock, seen, base, mine, restarts>>

\* Mutant: routes wait as job workers do.
Busy_Never(w) == FALSE

(* CaseWriteBusy: a route waits 30 seconds; a job worker has no timeout. *)
Busy(w) ==
    /\ w \notin Jobs
    /\ Waits(w) /\ lock # NoWriter
    /\ GivesUp(w, "busy")
    /\ UNCHANGED <<disk, lock, seen, base, mine, restarts>>

\* Mutant: the lock is not given back.
Leaves_Locked(w) == /\ lock' = lock
                    /\ seen' = [seen EXCEPT ![w] = Stub]

Leaves(w) == /\ lock' = NoWriter
             /\ seen' = [seen EXCEPT ![w] = Stub]

(* Both sides changed the same field: 409, nothing is written. *)
Conflict(p) ==
    /\ p \in Pages /\ pc[p] = "inside"
    /\ Clash(base[p], EditableOf(seen[p]), mine[p])
    /\ pc' = [pc EXCEPT ![p] = "idle"]
    /\ Leaves(p)
    /\ UNCHANGED <<disk, base, mine, restarts>>

(* _write_case_file(): the rename makes the whole new record visible.  A   *)
(* page takes what it just sent as its new base.                           *)
Commit(w) ==
    /\ pc[w] \in {"inside", "starting", "finishing"}
    /\ w \in Pages => ~Clash(base[w], EditableOf(seen[w]), mine[w])
    /\ disk' \in Updates(w, seen[w])
    /\ \/ /\ w \in Notes \cup Exhibits \cup Entries
          /\ pc' = [pc EXCEPT ![w] = "credit"]
          /\ UNCHANGED <<lock, seen, base>>
       \/ /\ w \in Jobs \cup Clerks
          /\ pc' = [pc EXCEPT ![w] = IF pc[w] = "starting" THEN "running" ELSE "done"]
          /\ Leaves(w)
          /\ UNCHANGED base
       \/ /\ w \in Pages
          /\ pc' = [pc EXCEPT ![w] = "idle"]
          /\ Leaves(w)
          /\ base' = [base EXCEPT ![w] = mine[w]]
    /\ UNCHANGED <<mine, restarts>>

(* A full disk or a dropped share: the old record stays. *)
WriteFails(w) ==
    /\ pc[w] \in {"inside", "starting", "finishing"}
    /\ GivesUp(w, "failed")
    /\ Leaves(w)
    /\ UNCHANGED <<disk, base, mine, restarts>>

(* The author is put on the case's examiner list by a second write of the  *)
(* same request; its failure is swallowed.                                 *)
Credit(w) ==
    /\ Goes(w, "credit", "done")
    /\ \/ disk' = Credited(w, disk)
       \/ UNCHANGED disk
    /\ Leaves(w)
    /\ UNCHANGED <<base, mine, restarts>>

(* The service restarts: every thread and the lock are gone, the browser   *)
(* pages and the record stay.                                              *)
Restart ==
    /\ restarts < MaxRestarts
    /\ restarts' = restarts + 1
    /\ lock' = NoWriter
    /\ seen' = [w \in Writers |-> Stub]
    /\ pc' = [w \in Writers |->
                 IF w \in Pages THEN "idle"
                 ELSE IF pc[w] \in {"idle", "done", "refused", "failed", "busy", "lost"}
                 THEN pc[w] ELSE "cut"]
    /\ UNCHANGED <<disk, base, mine>>

Answer(w) == Enter(w) \/ ReadOnlyRefusal(w) \/ Busy(w)

Write(w) == Conflict(w) \/ Commit(w) \/ Credit(w)

Next ==
    \/ \E w \in Writers : Arrive(w) \/ Answer(w) \/ Unreadable(w) \/ Write(w) \/ WriteFails(w)
    \/ \E p \in Pages : Load(p) \/ Edit(p) \/ Save(p)
    \/ \E j \in Jobs : Admit(j) \/ Ends(j)
    \/ Restart

Spec == Init /\ [][Next]_vars

(* A waiting request gets the lock or its timeout.  Nothing is assumed of  *)
(* the holder: its storage may stall for good.                             *)
WaitFairness == \A w \in Writers : WF_vars(Answer(w))

StallSpec == Spec /\ WaitFairness

(* Storage that answers: the holder finishes too and a job ends. *)
StorageAnswers == /\ \A w \in Writers : WF_vars(Write(w))
                  /\ \A j \in Jobs : WF_vars(Ends(j))

-----------------------------------------------------------------------------
(* Properties.                                                             *)

(* No write erases what another wrote since: each change of the record is  *)
(* one writer's own update of the record as it then was (the comment on    *)
(* the case write lock).                                                   *)
NoLostUpdate ==
    [][disk' # disk => \E w \in Writers : \/ disk' \in Updates(w, disk)
                                         \/ disk' = Credited(w, disk)]_vars

(* What was acknowledged stays in the record: notes, custody entries and   *)
(* job outcomes survive every later save, failed write and restart         *)
(* (_SERVER_OWNED_CASE_KEYS, CaseFileUnreadable).                          *)
AcknowledgedStays ==
    /\ \A n \in Notes : pc[n] \in {"credit", "done"} => n \in disk.notes
    /\ \A e \in Entries : pc[e] \in {"credit", "done"} => e \in disk.custody
    /\ \A j \in Jobs : pc[j] = "done" => disk.events[j] = "FINAL"

(* The narrative, notes, exhibits and examiners of a Closed or Archived    *)
(* case do not change until it is re-opened (CASE_STATUSES_READ_ONLY).     *)
HandedOver(r) == <<r.narrative, r.notes, r.files, r.examiners>>
FinishedCaseIsFrozen ==
    [][disk.status \in ReadOnly => HandedOver(disk') = HandedOver(disk)]_vars

(* A narrative or an exhibit is only ever replaced by a page that had it   *)
(* on display (_three_way_merge's docstring).                              *)
NoBlindOverwrite ==
    [][/\ disk'.narrative # disk.narrative
          => \E p \in Pages : base[p].narrative = disk.narrative
       /\ \A f \in disk.files \ disk'.files : \E p \in Pages : f \in base[p].files]_vars

(* The status a re-opened case returns to is the one it had before it was  *)
(* archived, and is kept only while it is archived (set_case_status).      *)
BeforeArchiving ==
    /\ disk.before # "none" <=> disk.status = "Archived"
    /\ disk.before # "Archived"

(* A stalled share never leaves a request waiting for ever (the comment on *)
(* CASE_WRITE_LOCK_TIMEOUT_SECONDS).                                       *)
EveryRequestIsAnswered ==
    \A w \in Writers \ Jobs : Waits(w) ~> ~Waits(w)

(* With storage that answers, a job's outcome reaches the record or its    *)
(* loss is put on the custody log ("their record must land").              *)
JobOutcomeIsSettled ==
    StorageAnswers => \A j \in Jobs : pc[j] = "running" ~> pc[j] \in {"done", "lost", "cut"}

(* A case that is Closed or Archived takes no new work: the first event of *)
(* a job is written while the case is open (the user manual).              *)
FinishedCaseTakesNoNewWork ==
    [][\A j \in Jobs : disk.events[j] = "none" /\ disk'.events[j] = "IN_PROGRESS"
                       => disk.status \notin ReadOnly]_vars

=============================================================================
