------------------------------ MODULE CaseIndex ------------------------------
(***************************************************************************)
(* What examiners decide about a case: which files are tagged with what,   *)
(* which contacts are one person.  The decisions are three tables of the   *)
(* case's index, an SQLite file; a copy of them is kept beside it, written *)
(* after each tag action, and an index that has become unreadable is set   *)
(* aside, built anew and given its decisions back from the copy.           *)
(*                                                                         *)
(* The index's other tables are derived from evidence and left out; see    *)
(* Parsing for one of them.  A connection commits atomically.              *)
(***************************************************************************)
EXTENDS Naturals, Sequences, FiniteSets, SequencesExt

CONSTANTS
    Examiners,    \* those who tag, one request at a time each
    Files,        \* what examiners tag
    Reports,      \* outputs the system tags
    Names,        \* names of tags that examiners make
    Contacts,
    None,         \* no copy, no request, no snapshot
    Faults,       \* what the passing run leaves out: see FaultKinds
    MaxActions, MaxDamages, MaxRestarts

(* "overlap": requests, the system's own tags and repairs run at once.     *)
(* "rename": tags the software comes with are renamed.  "older": the index *)
(* was made by a version that came with fewer tags.  "interrupted": the    *)
(* service restarts in the middle of a repair.  "lost": the index's file   *)
(* vanishes.                                                               *)
FaultKinds == {"overlap", "rename", "older", "interrupted", "lost"}

ASSUME IndexAssumption ==
    /\ Faults \subseteq FaultKinds /\ {MaxActions, MaxDamages, MaxRestarts} \subseteq Nat
    /\ Contacts \cap (Names \cup {"Bookmark", "Report Export"}) = {}

(* Two of the eight: one for examiners, one for the system's own output.   *)
Defaults == <<"Bookmark", "Report Export">>
TagIds == 1 .. 4

Tagging   == [op : {"tag", "untag"}, file : Files, id : TagIds]
NewTag    == [op : {"new"}, file : Files, name : Names]
TagChange == [op : {"create"}, name : Names] \cup [op : {"delete"}, id : TagIds]
             \cup [op : {"rename"}, id : TagIds, name : Names]
Merging   == {w \in [op : {"merge"}, primary : Contacts, merged : Contacts] : w.primary # w.merged}
             \cup [op : {"unmerge"}, merged : Contacts]
Work == Tagging \cup NewTag \cup TagChange \cup Merging

VARIABLES
    file,       \* the index's file: "none", "good" or "damaged"
    db,         \* its three tables
    ready,      \* this process has run the schema on this file
    seeds,      \* how many tags this version of the software comes with
    backup,     \* the copy
    tmp,        \* its temporary file
    pc, work, snapshot, \* the requests, what they are to do, what they read to copy
    repair,     \* the repair under way
    aside,      \* damaged files that were set aside
    actions, damages, restarts,
    wanted,     \* history: the decisions in force
    given,      \* history: every decision there ever was
    missed      \* history: a decision was committed and the copy has not been written since

tables == <<file, db, ready>>
requests == <<pc, work, snapshot, tmp>>
histories == <<wanted, given, missed>>
counts == <<actions, damages, restarts>>
vars == <<tables, seeds, backup, requests, repair, aside, counts, histories>>

Empty == [tags |-> {}, items |-> {}, merges |-> {}]

(* Rowids are not AUTOINCREMENT: the one after the largest there is.       *)
LastId(S) == CHOOSE m \in {0} \cup {x.id : x \in S} : \A x \in S : x.id <= m
NextId(S) == 1 + LastId(S)

Named(tags, n) == {t \in tags : t.name = n}
WithTag(tags, n, dflt) ==
    IF Named(tags, n) # {} THEN tags ELSE tags \cup {[id |-> NextId(tags), name |-> n, dflt |-> dflt]}

(* The schema's INSERT OR IGNORE of the tags the software comes with.      *)
Seeded(d) ==
    LET first == WithTag(d.tags, Defaults[1], TRUE)
    IN  [d EXCEPT !.tags = IF seeds = 1 THEN first ELSE WithTag(first, Defaults[2], TRUE)]

(* What the tables say: the tag each file is shown under, the merges.      *)
Decisions(d) ==
    {<<p[1].file, p[2].name>> : p \in {q \in d.items \X d.tags : q[1].tag = q[2].id}}
    \cup {<<m.primary, m.merged>> : m \in d.merges}

Quiet == \A r \in Examiners : pc[r] = "idle"
Alone == "overlap" \in Faults \/ (Quiet /\ repair = "none")

TypeOK ==
    /\ file \in {"none", "good", "damaged"} /\ ready \in BOOLEAN /\ seeds \in 1 .. Len(Defaults)
    /\ \A t \in db.tags : t.id \in Nat \ {0} /\ \A u \in db.tags : u.id = t.id \/ u.name = t.name => u = t
    /\ \A i, j \in db.items : i.id = j.id => i = j
    /\ pc \in [Examiners -> {"idle", "open", "commit", "read", "write", "replace"}]
    /\ repair \in {"none", "aside", "rebuild", "restore"}
    /\ aside \in 0 .. MaxDamages /\ missed \in BOOLEAN

Init ==
    /\ seeds \in IF "older" \in Faults THEN {1, 2} ELSE {2}
    /\ file = "none" /\ db = Empty /\ ready = FALSE
    /\ backup = None /\ tmp = None
    /\ pc = [r \in Examiners |-> "idle"] /\ work = [r \in Examiners |-> None]
    /\ snapshot = [r \in Examiners |-> None]
    /\ repair = "none" /\ aside = 0
    /\ actions = 0 /\ damages = 0 /\ restarts = 0
    /\ wanted = {} /\ given = {} /\ missed = FALSE

----------------------------------------------------------------------------
(* Opening the index for a write makes it when it is not there; the schema *)
(* runs once per file and process.  A damaged one raises.                  *)
Opened == IF ready THEN db ELSE Seeded(db)

End(r) == pc' = [pc EXCEPT ![r] = "idle"] /\ work' = [work EXCEPT ![r] = None]
                                         /\ snapshot' = [snapshot EXCEPT ![r] = None]

Begin(r) ==
    /\ pc[r] = "idle" /\ Alone /\ actions < MaxActions
    /\ \E w \in Work : work' = [work EXCEPT ![r] = w]
    /\ pc' = [pc EXCEPT ![r] = "open"] /\ actions' = actions + 1
    /\ UNCHANGED <<tables, seeds, backup, tmp, snapshot, repair, aside, damages, restarts, histories>>

(* The row a request is about is looked up first; a new tag is committed   *)
(* before anything is tagged with it.                                      *)
Makes(w) == w.op \in {"tag", "new", "create", "merge"}
Tied(d, w) == \E m \in d.merges : m.merged \in {w.primary, w.merged} \/ m.primary = w.merged
\* Mutant: only the merged contact is looked up among the merged.
Allowed_OneSided(d, w) ==
    CASE w.op \in {"tag", "rename"} -> \E t \in d.tags : t.id = w.id
      [] w.op = "delete" -> \E t \in d.tags : t.id = w.id /\ ~t.dflt
      [] w.op = "merge" -> \A m \in d.merges : m.merged # w.merged
      [] w.op = "unmerge" -> \E m \in d.merges : m.merged = w.merged
      [] OTHER -> TRUE
Allowed(d, w) ==
    CASE w.op \in {"tag", "rename"} -> \E t \in d.tags : t.id = w.id
      [] w.op = "delete" -> \E t \in d.tags : t.id = w.id /\ ~t.dflt
      [] w.op = "merge" -> ~Tied(d, w)
      [] w.op = "unmerge" -> \E m \in d.merges : m.merged = w.merged
      [] OTHER -> TRUE

(* From here on the tag goes by its id.                                    *)
Found(d, w) ==
    IF w.op = "new" THEN [op |-> "tag", file |-> w.file, id |-> (CHOOSE t \in d.tags : t.name = w.name).id]
    ELSE w

Open(r) ==
    /\ pc[r] = "open"
    /\ LET w == work[r]
           d == IF w.op = "new" THEN [Opened EXCEPT !.tags = WithTag(@, w.name, FALSE)] ELSE Opened
       IN  IF file = "damaged" \/ (file = "none" /\ ~Makes(w))
           THEN End(r) /\ UNCHANGED tables
           ELSE /\ file' = "good" /\ db' = d /\ ready' = TRUE
                /\ IF Allowed(Opened, w)
                   THEN /\ pc' = [pc EXCEPT ![r] = "commit"] /\ UNCHANGED snapshot
                        /\ work' = [work EXCEPT ![r] = Found(d, w)]
                   ELSE End(r)
    /\ UNCHANGED <<seeds, backup, tmp, repair, aside, counts, histories>>

Tagged(d, f, tag) ==
    IF \E i \in d.items : i.tag = tag /\ i.file = f
    THEN d ELSE [d EXCEPT !.items = @ \cup {[id |-> NextId(d.items), tag |-> tag, file |-> f]}]

Untagged(d, f, id) == [d EXCEPT !.items = {i \in @ : i.tag # id \/ i.file # f}]
Renamed(d, id, n) == [d EXCEPT !.tags = {IF t.id = id THEN [t EXCEPT !.name = n] ELSE t : t \in @}]
Deleted(d, id) == [d EXCEPT !.tags = {t \in @ : t.id # id}, !.items = {i \in @ : i.tag # id}]

\* Mutant: deleting a tag leaves what was tagged with it.
Changed_Orphans(d, w) ==
    CASE w.op = "tag"     -> Tagged(d, w.file, w.id)
      [] w.op = "untag"   -> Untagged(d, w.file, w.id)
      [] w.op = "create"  -> [d EXCEPT !.tags = WithTag(@, w.name, FALSE)]
      [] w.op = "rename"  -> Renamed(d, w.id, w.name)
      [] w.op = "delete"  -> [d EXCEPT !.tags = {t \in @ : t.id # w.id}]
      [] w.op = "merge"   -> [d EXCEPT !.merges = @ \cup {[primary |-> w.primary, merged |-> w.merged]}]
      [] w.op = "unmerge" -> [d EXCEPT !.merges = {m \in @ : m.merged # w.merged}]
Changed(d, w) ==
    CASE w.op = "tag"     -> Tagged(d, w.file, w.id)
      [] w.op = "untag"   -> Untagged(d, w.file, w.id)
      [] w.op = "create"  -> [d EXCEPT !.tags = WithTag(@, w.name, FALSE)]
      [] w.op = "rename"  -> Renamed(d, w.id, w.name)
      [] w.op = "delete"  -> Deleted(d, w.id)
      [] w.op = "merge"   -> [d EXCEPT !.merges = @ \cup {[primary |-> w.primary, merged |-> w.merged]}]
      [] w.op = "unmerge" -> [d EXCEPT !.merges = {m \in @ : m.merged # w.merged}]

(* UNIQUE(name), UNIQUE(merged_key); default tags are renamed only with    *)
(* that fault.                                                             *)
Unique(d, w) ==
    /\ w.op = "create" => Named(d.tags, w.name) = {}
    /\ w.op = "merge" => \A m \in d.merges : m.merged # w.merged
    /\ w.op = "rename" => \A t \in d.tags : IF t.id = w.id THEN t.dflt => "rename" \in Faults
                                            ELSE t.name # w.name

NameOf(d, id) == {t.name : t \in {u \in d.tags : u.id = id}}
Wanted(d, w) ==
    CASE w.op = "tag"     -> wanted \cup ({w.file} \X NameOf(d, w.id))
      [] w.op = "untag"   -> wanted \ ({w.file} \X NameOf(d, w.id))
      [] w.op = "delete"  -> {x \in wanted : x[2] \notin NameOf(d, w.id)}
      [] w.op = "rename"  -> {IF x[2] \in NameOf(d, w.id) THEN <<x[1], w.name>> ELSE x : x \in wanted}
      [] w.op = "merge"   -> wanted \cup {<<w.primary, w.merged>>}
      [] w.op = "unmerge" -> {x \in wanted : x[2] # w.merged}
      [] OTHER -> wanted

Commit(r) ==
    /\ pc[r] = "commit"
    /\ IF file = "good" /\ Unique(db, work[r])
       THEN /\ db' = Changed(db, work[r])
            /\ wanted' = Wanted(db, work[r]) /\ given' = given \cup wanted' /\ missed' = TRUE
            /\ pc' = [pc EXCEPT ![r] = "read"] /\ work' = [work EXCEPT ![r] = None]
            /\ UNCHANGED snapshot
       ELSE End(r) /\ UNCHANGED <<db, histories>>
    /\ UNCHANGED <<file, ready, seeds, backup, tmp, repair, aside, counts>>

(* export_case_tag_state(), by the decorator, once the route has answered: *)
(* the tables are read, dumped to one temporary file that all requests     *)
(* share, and put in the copy's place.  Whatever fails is swallowed.  The  *)
(* dump counts as one write.                                               *)
Read(r) ==
    /\ pc[r] = "read"
    /\ IF file = "good"
       THEN snapshot' = [snapshot EXCEPT ![r] = db] /\ pc' = [pc EXCEPT ![r] = "write"] /\ UNCHANGED work
       ELSE End(r)
    /\ UNCHANGED <<tables, seeds, backup, tmp, repair, aside, counts, histories>>

Write(r) ==
    /\ pc[r] = "write"
    /\ \/ tmp' = snapshot[r] /\ pc' = [pc EXCEPT ![r] = "replace"] /\ UNCHANGED <<work, snapshot>>
       \/ tmp' = None /\ End(r)
    /\ UNCHANGED <<tables, seeds, backup, repair, aside, counts, histories>>

Replace(r) ==
    /\ pc[r] = "replace" /\ End(r)
    /\ tmp' = None
    /\ IF tmp = None THEN UNCHANGED <<backup, missed, wanted>>
       ELSE /\ backup' = tmp /\ missed' = FALSE
            /\ wanted' = IF file = "damaged" THEN Decisions(tmp) ELSE wanted
    /\ UNCHANGED <<tables, seeds, given, repair, aside, counts>>

RequestStep(r) == Begin(r) \/ Open(r) \/ Commit(r) \/ Read(r) \/ Write(r) \/ Replace(r)

----------------------------------------------------------------------------
(* The system tags an output of its own by name; no copy is written.       *)
AutoTag(f) ==
    /\ Alone /\ file # "damaged"
    /\ file' = "good" /\ ready' = TRUE
    /\ \E t \in IF Named(Opened.tags, "Report Export") = {} THEN {None} ELSE Named(Opened.tags, "Report Export") :
         /\ db' = IF t = None THEN Opened ELSE Tagged(Opened, f, t.id)
         /\ given' = IF t = None THEN given ELSE given \cup {<<f, "Report Export">>}
    /\ UNCHANGED <<seeds, backup, requests, repair, aside, counts, wanted, missed>>

(* A file extracted from an image takes over its tags there, in the order  *)
(* the index has them; no copy is written of these either.                 *)
TagsOf(d, f) == {i.tag : i \in {j \in d.items : j.file = f}}
NotYetOn(d, f, g) == {t \in TagsOf(d, f) : \A i \in d.items : i.tag # t \/ i.file # g}
Carried(d, f, g, n) ==
    [d EXCEPT !.items = @ \cup {[id |-> LastId(d.items) + n[t], tag |-> t, file |-> g] : t \in NotYetOn(d, f, g)}]

CarryOver(f, g) ==
    /\ Alone /\ file = "good" /\ f # g /\ actions < MaxActions
    /\ TagsOf(Opened, f) # {}
    /\ \E n \in [NotYetOn(Opened, f, g) -> 1 .. Cardinality(NotYetOn(Opened, f, g))] :
         /\ \A t, u \in DOMAIN n : n[t] = n[u] => t = u
         /\ db' = Carried(Opened, f, g, n)
    /\ wanted' = wanted \cup ({g} \X UNION {NameOf(Opened, t) : t \in TagsOf(Opened, f)})
    /\ ready' = TRUE /\ given' = given \cup wanted' /\ missed' = TRUE /\ actions' = actions + 1
    /\ UNCHANGED <<file, seeds, backup, requests, repair, aside, damages, restarts>>

(* The file becomes unreadable, and what the copy does not have is gone.   *)
Damage ==
    /\ file = "good" /\ damages < MaxDamages /\ damages' = damages + 1
    /\ file' \in {"damaged"} \cup {n \in {"none"} : "lost" \in Faults}
    /\ db' = Empty
    /\ wanted' = IF ~missed THEN wanted ELSE IF backup = None THEN {} ELSE Decisions(backup)
    /\ missed' = FALSE
    /\ UNCHANGED <<ready, seeds, backup, requests, repair, aside, actions, restarts, given>>

(* Every thread is gone; the software may have been updated.               *)
Restart ==
    /\ restarts < MaxRestarts /\ restarts' = restarts + 1
    /\ repair # "none" => "interrupted" \in Faults
    /\ pc' = [r \in Examiners |-> "idle"] /\ work' = [r \in Examiners |-> None]
    /\ snapshot' = [r \in Examiners |-> None]
    /\ ready' = FALSE /\ repair' = "none" /\ seeds' = 2
    /\ UNCHANGED <<file, db, backup, tmp, aside, actions, damages, histories>>

----------------------------------------------------------------------------
(* case_index_health(): what the page is told, from the file opened for    *)
(* reading only, the copy and the files beside it.                         *)
Health == [exists |-> file # "none", readable |-> file = "good",
           backup |-> backup # None, quarantined |-> aside]

(* repair_case_index(): the page offers it for an index that is there and  *)
(* cannot be read.                                                         *)
RepairBegins ==
    /\ repair = "none" /\ Alone /\ Health.exists /\ ~Health.readable
    /\ repair' = "aside"
    /\ UNCHANGED <<tables, seeds, backup, requests, aside, counts, histories>>

(* Renamed with a time stamp; if that fails, nothing has been changed.     *)
SetAside ==
    /\ repair = "aside"
    /\ \/ file' = "none" /\ ready' = FALSE /\ aside' = aside + 1 /\ repair' = "rebuild"
       \/ UNCHANGED <<file, ready, aside>> /\ repair' = "none"
    /\ UNCHANGED <<db, seeds, backup, requests, counts, histories>>

Rebuild ==
    /\ repair = "rebuild" /\ repair' = "restore"
    /\ IF file = "damaged" THEN UNCHANGED tables ELSE file' = "good" /\ db' = Opened /\ ready' = TRUE
    /\ UNCHANGED <<seeds, backup, requests, aside, counts, histories>>

Ids(S) == {x.id : x \in S}
\* Mutant: restored tags are numbered afresh.
Restored_Renumbered(d, b) ==
    [tags   |-> FoldLeft(LAMBDA ts, t : WithTag(ts, t.name, t.dflt), d.tags,
                         SetToSortSeq(b.tags, LAMBDA t, u : t.id < u.id)),
     items  |-> d.items \cup {i \in b.items : i.id \notin Ids(d.items)},
     merges |-> d.merges \cup {m \in b.merges : \A n \in d.merges : n.merged # m.merged}]
(* What is there is left alone, told by its id or merged contact.          *)
Restored(d, b) ==
    [tags   |-> d.tags \cup {t \in b.tags : t.id \notin Ids(d.tags)},
     items  |-> d.items \cup {i \in b.items : i.id \notin Ids(d.items)},
     merges |-> d.merges \cup {m \in b.merges : \A n \in d.merges : n.merged # m.merged}]

(* One transaction: a tag whose name is taken undoes all of it.            *)
Restore ==
    /\ repair = "restore" /\ repair' = "none"
    /\ db' = IF file # "good" \/ backup = None \/ \E t, u \in Restored(db, backup).tags : t # u /\ t.name = u.name
             THEN db ELSE Restored(db, backup)
    /\ UNCHANGED <<file, ready, seeds, backup, requests, aside, counts, histories>>

Next ==
    \/ \E r \in Examiners : RequestStep(r)
    \/ \E f \in Reports : AutoTag(f)
    \/ \E f, g \in Files : CarryOver(f, g)
    \/ Damage \/ Restart \/ RepairBegins \/ SetAside \/ Rebuild \/ Restore

Spec == Init /\ [][Next]_vars

----------------------------------------------------------------------------
(* Every decision in force is in the index, or in the copy when the index  *)
(* is damaged or being repaired: a tag or a merge that was acknowledged    *)
(* survives a damaged index, a repair and a restart, unless writing the    *)
(* copy had failed (_snapshots_tag_state(), repair_case_index()).          *)
DecisionsAreKept ==
    \/ wanted = {}
    \/ IF file = "good" /\ repair = "none" THEN wanted \subseteq Decisions(db)
       ELSE backup # None /\ wanted \subseteq Decisions(backup)

(* No file is shown under a tag nobody gave it, no two contacts as one     *)
(* that nobody merged, whatever was deleted, renumbered or restored        *)
(* (restore_case_tag_state(), case_index_delete_tag()).                    *)
NothingMadeUp == file = "good" => Decisions(db) \subseteq given

(* A reader of the index, in routes/case_index.py: refused with an error   *)
(* when the index cannot be read; there being none, an empty list.         *)
\* Mutant: an index that cannot be read is an index without rows.
Refused_Never == FALSE
Refused == file = "damaged"
Listing == IF file = "good" THEN Decisions(db) ELSE {}

(* A damaged index is never shown as one without decisions                 *)
(* (_case_index_open_readonly(), CaseIndexUnavailable).                    *)
NeverShownAsUntagged == repair = "none" /\ ~Refused => wanted \subseteq Listing

(* correlate_contacts(): the contact under which another's communications  *)
(* are found; the merges are followed one step.                            *)
ShownUnder(c) == IF \E m \in db.merges : m.merged = c
                 THEN (CHOOSE m \in db.merges : m.merged = c).primary ELSE c

(* What two contacts had to do with each other is listed under contacts    *)
(* that are on the page themselves: no merge leads to one that is merged   *)
(* away (case_index_merge_contacts(), correlate_contacts()).               *)
MergesAreFlat == \A c \in Contacts : ShownUnder(ShownUnder(c)) = ShownUnder(c)

=============================================================================
