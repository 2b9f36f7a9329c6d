---------------------------- MODULE Verification ----------------------------
(***************************************************************************)
(* routes/reporting.py, "Verify All Evidence": the run re-hashes the file  *)
(* of every completed acquisition of a case, compares it with the hashes   *)
(* recorded at the acquisition and merges its verdicts into the case       *)
(* record, under the case's lock.  A stopped run keeps the verdicts of     *)
(* the runs before it for the items it did not reach.                      *)
(*                                                                         *)
(* A run learns that it was stopped from the shared job record's status,   *)
(* which is also the status of whatever job comes next.  JobSlot has the   *)
(* slot in detail; here a start request is one step, and so is a Stop.     *)
(***************************************************************************)
EXTENDS Naturals, FiniteSets

CONSTANTS
    NumItems,   \* the completed acquisitions, in the order of the record
    Folders,    \* the ones with no file whose hash was recorded: a folder, an
                \* E01 or AFF container
    Unhashed,   \* the ones with no hash this station can compute
    Contents,   \* what may become of a file besides "intact"
    Runs,       \* requests to verify the case
    NoRun,      \* no run
    Overlaps    \* "early": a Stop before the worker's first write;
                \* "next": a run asked for before a stopped one has ended

Items == 1 .. NumItems

ASSUME VerificationAssumption ==
    /\ NumItems \in Nat /\ Folders \cup Unhashed \subseteq Items
    /\ IsFiniteSet(Runs)
    /\ Contents \subseteq {"altered", "unreadable", "absent"}
    /\ NoRun \notin Runs
    /\ Overlaps \subseteq {"early", "next"}

VARIABLES
    active, status,  \* of current_job
    owner,           \* the run its generation belongs to, NoRun once stopped
    content,         \* what reading the file of each item would give
    verdict,         \* last_verification's results in the case record
    completed,       \* its "run_completed"
    pc, mine,        \* each run's worker: where it is, the owner it is bound to
    next,            \* the item it looks at next
    found,           \* the verdicts it holds
    rank,            \* how many runs had judged an item when it did, itself too
    verdictRank,     \* that of the verdicts in the case record
    by,              \* the run that wrote last_verification
    stopped,         \* the runs stopped by a Stop
    harmed           \* the items whose file was altered at some time

slot == <<active, status, owner>>
file == <<verdict, completed, verdictRank, by>>
run  == <<pc, mine, next, found, rank>>
vars == <<slot, content, file, run, stopped, harmed>>

Verdicts == {"none", "match", "mismatch", "read_error", "missing_file", "unverifiable"}

TypeOK ==
    /\ active \in BOOLEAN
    /\ status \in {"IDLE", "Initializing", "Verifying", "Stopped", "Completed", "Failed"}
    /\ owner \in Runs \cup {NoRun}
    /\ content \in [Items -> {"intact"} \cup Contents]
    /\ verdict \in [Items -> Verdicts] /\ completed \in BOOLEAN
    /\ verdictRank \in [Items -> 0 .. Cardinality(Runs)]
    /\ by \in Runs \cup {NoRun}
    /\ pc \in [Runs -> {"idle", "loading", "looking", "judging", "merging",
                        "ending", "freeing", "over"}]
    /\ mine \in [Runs -> Runs \cup {NoRun}]
    /\ next \in [Runs -> 1 .. NumItems + 1]
    /\ found \in [Runs -> [Items -> Verdicts]]
    /\ \A r \in Runs : \A e \in Folders : found[r][e] = "none"
    /\ rank \in [Runs -> [Items -> 0 .. Cardinality(Runs)]]
    /\ stopped \subseteq Runs /\ harmed \subseteq Items

Init ==
    /\ active = FALSE /\ status = "IDLE" /\ owner = NoRun
    /\ content = [e \in Items |-> "intact"]
    /\ verdict = [e \in Items |-> "none"] /\ completed = FALSE
    /\ verdictRank = [e \in Items |-> 0] /\ by = NoRun
    /\ pc = [r \in Runs |-> "idle"] /\ mine = [r \in Runs |-> NoRun]
    /\ next = [r \in Runs |-> 1]
    /\ found = [r \in Runs |-> [e \in Items |-> "none"]]
    /\ rank = [r \in Runs |-> [e \in Items |-> 0]]
    /\ stopped = {} /\ harmed = {}

At(r, from, to) == pc[r] = from /\ pc' = [pc EXCEPT ![r] = to]
Alive(r) == pc[r] \notin {"idle", "over"}

(* update_job(status=...) of a worker: nothing once its claim is superseded. *)
Says(r, s) == status' = IF mine[r] = owner THEN s ELSE status

-----------------------------------------------------------------------------
(* start_verify_all_evidence() *)
Start(r) ==
    /\ At(r, "idle", "loading")
    /\ ~active
    /\ "next" \notin Overlaps => \A x \in Runs : ~Alive(x)
    /\ active' = TRUE /\ status' = "Initializing" /\ owner' = r
    /\ UNCHANGED <<content, file, mine, next, found, rank, stopped, harmed>>

(* stop_imaging(), whose job it was superseded. *)
Stop ==
    /\ active
    /\ "early" \notin Overlaps => \A r \in Runs : pc[r] # "loading"
    /\ active' = FALSE /\ status' = "Stopped" /\ owner' = NoRun
    /\ stopped' = stopped \cup ({owner} \ {NoRun})
    /\ UNCHANGED <<content, file, run, harmed>>

(* Evidence is altered, lost, unreadable for a while, or put back (a file  *)
(* no run reads is left alone).                                            *)
Touch(e) ==
    /\ \E c \in Contents \cup {"intact"} :
           /\ c # content[e]
           /\ content' = [content EXCEPT ![e] = c]
           /\ harmed' = harmed \cup {x \in {e} : c = "altered"}
    /\ UNCHANGED <<slot, file, run, stopped>>

-----------------------------------------------------------------------------
(* execution_worker_verify_all_evidence() *)

(* The record is read and the run begins; its first write binds the thread. *)
Load(r) ==
    /\ At(r, "loading", "looking")
    /\ mine' = [mine EXCEPT ![r] = owner]
    /\ status' = "Verifying"
    /\ UNCHANGED <<active, owner, content, file, next, found, rank, stopped, harmed>>

LoadFails(r) ==
    /\ At(r, "loading", "freeing")
    /\ mine' = [mine EXCEPT ![r] = owner]
    /\ status' = "Failed"
    /\ UNCHANGED <<active, owner, content, file, next, found, rank, stopped, harmed>>


(* Before each item. *)
Look(r) ==
    /\ \/ (status = "Stopped" \/ next[r] > NumItems)   /\ At(r, "looking", "merging")
       \/ (status # "Stopped" /\ next[r] <= NumItems) /\ At(r, "looking", "judging")
    /\ UNCHANGED <<slot, content, file, mine, next, found, rank, stopped, harmed>>

\* Mutant: a file that cannot be read is a mismatch, as it used to be.
VerdictOn_Unread(e) ==
    IF e \in Unhashed THEN "unverifiable"
    ELSE [intact |-> "match", altered |-> "mismatch",
          unreadable |-> "mismatch", absent |-> "missing_file"][content[e]]

VerdictOn(e) ==
    IF e \in Unhashed THEN "unverifiable"
    ELSE [intact |-> "match", altered |-> "mismatch",
          unreadable |-> "read_error", absent |-> "missing_file"][content[e]]

JudgedBefore(e) == {x \in Runs : found[x][e] # "none"}


(* One item is skipped or judged. *)
Judge(r) ==
    LET e == next[r] IN
    /\ At(r, "judging", "looking")
    /\ next' = [next EXCEPT ![r] = e + 1]
    /\ \/ e \in Folders /\ UNCHANGED <<found, rank>>
       \/ /\ e \notin Folders
          /\ found' = [found EXCEPT ![r][e] = VerdictOn(e)]
          /\ rank'  = [rank EXCEPT ![r][e] = Cardinality(JudgedBefore(e)) + 1]
    /\ UNCHANGED <<slot, content, file, mine, stopped, harmed>>

\* Mutant: last_verification is replaced wholesale, as it used to be.
Merge_Wholesale(r) ==
    /\ At(r, "merging", "ending")
    /\ verdict' = found[r] /\ verdictRank' = rank[r]
    /\ completed' = (status # "Stopped") /\ by' = r
    /\ UNCHANGED <<slot, content, mine, next, found, rank, stopped, harmed>>

\* Mutant: a run that ends has completed.
Merge_Complete(r) ==
    LET checked == {e \in Items : found[r][e] # "none"} IN
    /\ At(r, "merging", "ending")
    /\ verdict'     = [e \in Items |-> IF e \in checked THEN found[r][e] ELSE verdict[e]]
    /\ verdictRank' = [e \in Items |-> IF e \in checked THEN rank[r][e] ELSE verdictRank[e]]
    /\ completed' = TRUE /\ by' = r
    /\ UNCHANGED <<slot, content, mine, next, found, rank, stopped, harmed>>

(* Under the case's lock: the record is read afresh, this run's verdicts   *)
(* replace the earlier ones, the others are carried forward.               *)
Merge(r) ==
    LET checked == {e \in Items : found[r][e] # "none"} IN
    /\ At(r, "merging", "ending")
    /\ verdict'     = [e \in Items |-> IF e \in checked THEN found[r][e] ELSE verdict[e]]
    /\ verdictRank' = [e \in Items |-> IF e \in checked THEN rank[r][e] ELSE verdictRank[e]]
    /\ completed' = (status # "Stopped") /\ by' = r
    /\ UNCHANGED <<slot, content, mine, next, found, rank, stopped, harmed>>

(* The record cannot be read, locked or written. *)
MergeFails(r) ==
    /\ At(r, "merging", "freeing")
    /\ Says(r, "Failed")
    /\ UNCHANGED <<active, owner, content, file, mine, next, found, rank, stopped, harmed>>

End(r) ==
    /\ At(r, "ending", "freeing")
    /\ \/ status = "Stopped" /\ UNCHANGED status
       \/ status # "Stopped" /\ Says(r, "Completed")
    /\ UNCHANGED <<active, owner, content, file, mine, next, found, rank, stopped, harmed>>

Free(r) ==
    /\ At(r, "freeing", "over")
    /\ active' = (active /\ mine[r] # owner)
    /\ UNCHANGED <<status, owner, content, file, mine, next, found, rank, stopped, harmed>>

Work(r) == Load(r) \/ LoadFails(r) \/ Look(r) \/ Judge(r) \/ Merge(r) \/ MergeFails(r)
           \/ End(r) \/ Free(r)

Next ==
    \/ \E r \in Runs : Start(r) \/ Work(r)
    \/ Stop
    \/ \E e \in Items \ (Folders \cup Unhashed) : Touch(e)

Spec == Init /\ [][Next]_vars

-----------------------------------------------------------------------------
(* Properties.                                                             *)

(* Only evidence that was altered is called a mismatch, never a file that  *)
(* is gone or could not be read ("unreadable and altered are completely    *)
(* different findings and must never be conflated").                       *)
OnlyAlteredIsMismatch == \A e \in Items : verdict[e] = "mismatch" => e \in harmed

(* A recorded mismatch gives way only to a verdict from a later look at    *)
(* the file (the comment on carrying verdicts forward).                    *)
MismatchStands ==
    [][\A e \in Items : verdict[e] = "mismatch"
                        => verdictRank'[e] >= verdictRank[e] /\ verdict'[e] # "none"]_vars

(* A run that was stopped looks at no further item ("results below reflect *)
(* only what finished before the stop").                                   *)
StoppedLooksNoFurther == [][\A r \in stopped : pc'[r] = "judging" => pc[r] = "judging"]_vars

(* A record that says the run completed holds its verdict on every item    *)
(* that has one file.                                                      *)
CompletedJudgedAll ==
    completed => \A e \in Items \ Folders : found[by][e] # "none"

=============================================================================
