------------------------------ MODULE Parsing -------------------------------
(***************************************************************************)
(* The analysis routes at work on one case: requests that parse evidence   *)
(* and record what they find in the case's index, write outputs into its   *)
(* folder and tag them, while a clerk closes and reopens the case and the  *)
(* service may restart.  What each route does, step by step, is in         *)
(* ExplorerRoutes and ImageRoutes; this module gives the steps their       *)
(* meaning.  A request is a thread; every connection to the index is its   *)
(* own, and a commit is atomic.                                            *)
(***************************************************************************)
EXTENDS Naturals, Sequences, FiniteSets

CONSTANTS
    Requests,     \* the requests
    Nobody,       \* an output that is not there
    Casts,        \* what the requests may be: a program and the evidence each is on
    MaxFlips,     \* how often the case's status changes
    MaxRestarts   \* how often the service restarts

ASSUME RequestsAssumption ==
    Nobody \notin Requests /\ MaxFlips \in Nat /\ MaxRestarts \in Nat

Candidates == {1, 2}

VARIABLES
    cast,      \* what each request does, and on which evidence
    status,    \* the case's status
    flips, restarts,
    pc,        \* the step a request is at; 0: it has not begun, or has ended
    answer,    \* what its examiner was told
    found,     \* what reading the candidate gave
    clear,     \* what the last look before a write saw: it may go on
    recorded,  \* some of its records reached parsed_artifacts
    copies,    \* temporary copies of evidence
    rows,      \* parsed_artifacts: each source's rows, in two halves
    results,   \* analysis_results
    hits,      \* triage_hits
    files,     \* outputs: who wrote the file that is there
    tagged,    \* who has tagged each output
    custody,   \* requests with an entry in the chain of custody
    saw,       \* history: the statuses the case had since the request came
    matched,   \* history: the candidates last read with records
    healthy    \* the index can be opened and written all along

vars == <<cast, status, flips, restarts, pc, answer, found, clear, recorded, copies,
          rows, results, hits, files, tagged, custody, saw, matched, healthy>>
index == <<rows, results, hits, tagged>>
world == <<cast, status, flips, restarts, saw, matched, healthy>>

Kinds == {cast[r].kind : r \in Requests}
Places == {cast[r].on : r \in Requests}
Keys == Places \X Kinds \X Candidates \X (Requests \cup {Nobody})

(* source_type, image_path and fs_offset; the path in it.                  *)
SourceOf(r, c) == [on |-> cast[r].on, path |-> <<cast[r].kind, c>>]

\* Mutant: earlier rows are told by their path alone.
Replaced_AnyImage(s) == {x \in rows : x.source.path = s.path}
\* Mutant: a parse of one file clears all that its kind of scan has left.
Replaced_WholeScan(s) == {x \in rows : x.source.on = s.on /\ x.source.path[1] = s.path[1]}
(* The rows a new parse of a source replaces.                              *)
Replaced(s) == {x \in rows : x.source = s}

RowsBy(r, c) == {[source |-> SourceOf(r, c), by |-> r, half |-> h] : h \in {1, 2}}

(* An output is named for its evidence and kind; a recovery makes a folder *)
(* of its own.                                                             *)
OutputOf(r, c) == <<cast[r].on, cast[r].kind, c, Nobody>>
OwnOutputOf(r, c) == <<cast[r].on, cast[r].kind, c, r>>

TypeOK ==
    /\ cast \in Casts
    /\ status \in {"Open", "Closed"} /\ flips \in 0 .. MaxFlips /\ restarts \in 0 .. MaxRestarts
    /\ \A r \in Requests : pc[r] \in 0 .. Len(cast[r].steps)
    /\ answer \in [Requests -> {"none", "running", "refused", "error", "done", "indexed", "cut"}]
    /\ found \in [Requests -> {"yes", "no", "raised"}]
    /\ clear \in [Requests -> BOOLEAN] /\ recorded \in [Requests -> BOOLEAN]
    /\ copies \subseteq Requests \X Candidates
    /\ \A x \in rows : x.by \in Requests /\ x \in RowsBy(x.by, 1) \cup RowsBy(x.by, 2)
    /\ results \subseteq Requests \X Candidates /\ hits \subseteq Requests \X Candidates
    /\ files \in [Keys -> Requests \cup {Nobody}]
    /\ tagged \in [Keys -> SUBSET Requests]
    /\ custody \subseteq Requests
    /\ saw \in [Requests -> SUBSET {"Open", "Closed"}] /\ matched \in [Requests -> SUBSET Candidates]
    /\ healthy \in BOOLEAN

Init ==
    /\ cast \in Casts
    /\ status \in {"Open", "Closed"} /\ flips = 0 /\ restarts = 0
    /\ pc = [r \in Requests |-> 0]
    /\ answer = [r \in Requests |-> "none"]
    /\ found = [r \in Requests |-> "no"]
    /\ clear = [r \in Requests |-> FALSE]
    /\ recorded = [r \in Requests |-> FALSE]
    /\ copies = {} /\ rows = {} /\ results = {} /\ hits = {} /\ custody = {}
    /\ files = [k \in Keys |-> Nobody]
    /\ tagged = [k \in Keys |-> {}]
    /\ saw = [r \in Requests |-> {}] /\ matched = [r \in Requests |-> {}] /\ healthy \in BOOLEAN

----------------------------------------------------------------------------
Running(r) == answer[r] = "running"
Step(r) == cast[r].steps[pc[r]]

Applies(r) ==
    CASE Step(r).when = "found"  -> found[r] = "yes"
      [] Step(r).when = "raised" -> found[r] = "raised"
      [] Step(r).when = "went"   -> found[r] # "raised"
      [] OTHER                   -> TRUE

(* Request r is at such a step and its condition holds.                    *)
At(r, op) == Running(r) /\ Step(r).op = op /\ Applies(r)

GoesOn(r) == pc' = [pc EXCEPT ![r] = @ + 1] /\ UNCHANGED answer
Ends(r, said) == pc' = [pc EXCEPT ![r] = 0] /\ answer' = [answer EXCEPT ![r] = said]

(* The steps of one request change only their own part of the state.       *)
Arrive(r) ==
    /\ answer[r] = "none" /\ cast[r].steps # <<>>
    /\ answer' = [answer EXCEPT ![r] = "running"]
    /\ pc' = [pc EXCEPT ![r] = 1]
    /\ saw' = [saw EXCEPT ![r] = {status}]
    /\ UNCHANGED <<cast, status, flips, restarts, matched, healthy, found, clear, recorded, copies, files, custody>>
    /\ UNCHANGED index

Skip(r) ==
    /\ Running(r) /\ Step(r).op # "answer" /\ ~Applies(r)
    /\ GoesOn(r)
    /\ UNCHANGED <<found, clear, recorded, copies, files, custody>> /\ UNCHANGED <<index, world>>

(* A path that is not there, or an image without a file system: 400, 500.  *)
Target(r) ==
    /\ At(r, "target")
    /\ GoesOn(r) \/ Ends(r, "error")
    /\ UNCHANGED <<found, clear, recorded, copies, files, custody>> /\ UNCHANGED <<index, world>>

Guard(r) ==
    /\ At(r, "guard")
    /\ IF status = "Closed" THEN Ends(r, "refused") ELSE GoesOn(r)
    /\ UNCHANGED <<found, clear, recorded, copies, files, custody>> /\ UNCHANGED <<index, world>>

Fresh(r) ==
    /\ At(r, "fresh")
    /\ IF files[OutputOf(r, Step(r).of)] = Nobody THEN GoesOn(r) ELSE Ends(r, "error")
    /\ UNCHANGED <<found, clear, recorded, copies, files, custody>> /\ UNCHANGED <<index, world>>

(* _tsk_extract_to_temp(): a read that fails takes its temporary file      *)
(* along.                                                                  *)
Copy(r) ==
    /\ At(r, "copy") /\ GoesOn(r)
    /\ \/ copies' = copies \cup {<<r, Step(r).of>>} /\ found' = [found EXCEPT ![r] = "no"]
       \/ copies' = copies /\ found' = [found EXCEPT ![r] = "raised"]
    /\ UNCHANGED <<clear, recorded, files, custody>> /\ UNCHANGED <<index, world>>

Found(r, f) ==
    /\ found' = [found EXCEPT ![r] = f]
    /\ matched' = [matched EXCEPT ![r] = (@ \ {Step(r).of}) \cup {c \in {Step(r).of} : f = "yes"}]

(* Within a copy's try clause, what raised stays raised.                   *)
Unread(r) == pc[r] > 1 /\ cast[r].steps[pc[r] - 1].op = "copy" /\ found[r] = "raised"

Read(r) ==
    /\ At(r, "read") /\ GoesOn(r)
    /\ \E f \in {"yes", "no", "raised"} :
         /\ Unread(r) => f = "raised"
         /\ Found(r, f)
    /\ UNCHANGED <<clear, recorded, copies, files, custody>> /\ UNCHANGED <<index, cast, status, flips, restarts, saw, healthy>>

Parse(r) ==
    /\ At(r, "parse") /\ GoesOn(r)
    /\ \E f \in {"yes", "no"} : Found(r, f)
    /\ UNCHANGED <<clear, recorded, copies, files, custody>> /\ UNCHANGED <<index, cast, status, flips, restarts, saw, healthy>>

(* An analysis that writes as it goes may fail with part of it written.    *)
Extract(r) ==
    /\ At(r, "extract") /\ GoesOn(r)
    /\ \E f \in {"yes", "no", "raised"}, written \in BOOLEAN :
         /\ Unread(r) => f = "raised" /\ ~written
         /\ f = "yes" => written
         /\ Found(r, f)
         /\ files' = IF written THEN [files EXCEPT ![OutputOf(r, Step(r).of)] = r] ELSE files
    /\ UNCHANGED <<clear, recorded, copies, custody>> /\ UNCHANGED <<index, cast, status, flips, restarts, saw, healthy>>

Recover(r) ==
    /\ At(r, "recover") /\ GoesOn(r)
    /\ \/ files' = [files EXCEPT ![OwnOutputOf(r, Step(r).of)] = r] /\ found' = [found EXCEPT ![r] = "yes"]
       \/ files' = files /\ found' = [found EXCEPT ![r] = "no"]
    /\ UNCHANGED <<clear, recorded, copies, custody>> /\ UNCHANGED <<index, world>>

(* O_EXCL: a name that is taken, or a read that fails and takes its file   *)
(* along.                                                                  *)
Create(r) ==
    /\ At(r, "create") /\ GoesOn(r)
    /\ \/ /\ files[OutputOf(r, Step(r).of)] = Nobody
          /\ files' = [files EXCEPT ![OutputOf(r, Step(r).of)] = r]
          /\ found' = [found EXCEPT ![r] = "yes"]
       \/ files' = files /\ found' = [found EXCEPT ![r] = "raised"]
    /\ UNCHANGED <<clear, recorded, copies, custody>> /\ UNCHANGED <<index, world>>

\* Mutant: only a file that was read is removed again.
Drop_Success(r) ==
    /\ At(r, "drop") /\ GoesOn(r)
    /\ copies' = IF found[r] = "raised" THEN copies ELSE copies \ {<<r, Step(r).of>>}
    /\ UNCHANGED <<found, clear, recorded, files, custody>> /\ UNCHANGED <<index, world>>
(* The finally clause: whatever happened, the copy goes.                   *)
Drop(r) ==
    /\ At(r, "drop") /\ GoesOn(r)
    /\ copies' = copies \ {<<r, Step(r).of>>}
    /\ UNCHANGED <<found, clear, recorded, files, custody>> /\ UNCHANGED <<index, world>>

Check(r) ==
    /\ At(r, "check")
    /\ IF found[r] = "raised" THEN Ends(r, "error") ELSE GoesOn(r)
    /\ UNCHANGED <<found, clear, recorded, copies, files, custody>> /\ UNCHANGED <<index, world>>

(* open(path, 'w') of a name that does not depend on the request.          *)
Write(r) ==
    /\ At(r, "write") /\ GoesOn(r)
    /\ \/ /\ files' = [files EXCEPT ![OutputOf(r, Step(r).of)] = r]
          /\ found' = IF found[r] = "raised" THEN [found EXCEPT ![r] = "no"] ELSE found
       \/ files' = files /\ found' = [found EXCEPT ![r] = "raised"]
    /\ UNCHANGED <<clear, recorded, copies, custody>> /\ UNCHANGED <<index, world>>

----------------------------------------------------------------------------
\* Mutant: whoever records relies on the route's own guard.
Look_Trusting(r) ==
    /\ At(r, "look") /\ GoesOn(r)
    /\ clear' = [clear EXCEPT ![r] = TRUE]
    /\ UNCHANGED <<found, recorded, copies, files, custody>> /\ UNCHANGED <<index, world>>
(* case_status_blocking_new_work() once more, just before the index is     *)
(* opened: a finished case gets no new records.                            *)
Look(r) ==
    /\ At(r, "look") /\ GoesOn(r)
    /\ clear' = [clear EXCEPT ![r] = status = "Open"]
    /\ UNCHANGED <<found, recorded, copies, files, custody>> /\ UNCHANGED <<index, world>>

\* Mutant: the rows of an earlier parse are not removed.
Index_Appends(r) ==
    /\ At(r, "index") /\ GoesOn(r)
    /\ \/ /\ clear[r]
          /\ rows' = rows \cup {x \in RowsBy(r, Step(r).of) : found[r] = "yes"}
          /\ recorded' = [recorded EXCEPT ![r] = @ \/ found[r] = "yes"]
       \/ (clear[r] => ~healthy) /\ UNCHANGED <<rows, recorded>>
    /\ UNCHANGED <<found, clear, copies, files, custody, results, hits, tagged>> /\ UNCHANGED world
(* DELETE and INSERT in one commit; a failure of any kind is swallowed.    *)
Index(r) ==
    /\ At(r, "index") /\ GoesOn(r)
    /\ \/ /\ clear[r]
          /\ rows' = (rows \ Replaced(SourceOf(r, Step(r).of)))
                     \cup {x \in RowsBy(r, Step(r).of) : found[r] = "yes"}
          /\ recorded' = [recorded EXCEPT ![r] = @ \/ found[r] = "yes"]
       \/ (clear[r] => ~healthy) /\ UNCHANGED <<rows, recorded>>
    /\ UNCHANGED <<found, clear, copies, files, custody, results, hits, tagged>> /\ UNCHANGED world

Result(r) ==
    /\ At(r, "result") /\ GoesOn(r)
    /\ \/ clear[r] /\ results' = results \cup {<<r, Step(r).of>>}
       \/ (clear[r] => ~healthy) /\ UNCHANGED results
    /\ UNCHANGED <<found, clear, recorded, copies, files, custody, rows, hits, tagged>> /\ UNCHANGED world

(* flask.g outside a request: the RuntimeError is swallowed with the row.  *)
Lose(r) ==
    /\ At(r, "lose") /\ GoesOn(r)
    /\ UNCHANGED <<found, clear, recorded, copies, files, custody>> /\ UNCHANGED <<index, world>>

Seek(r) ==
    /\ At(r, "seek") /\ GoesOn(r)
    /\ clear' = [clear EXCEPT ![r] = tagged[OutputOf(r, Step(r).of)] = {}]
    /\ UNCHANGED <<found, recorded, copies, files, custody>> /\ UNCHANGED <<index, world>>

Tag(r) ==
    /\ At(r, "tag") /\ GoesOn(r)
    /\ \/ clear[r] /\ tagged' = [tagged EXCEPT ![OutputOf(r, Step(r).of)] = @ \cup {r}]
       \/ (clear[r] => ~healthy) /\ UNCHANGED tagged
    /\ UNCHANGED <<found, clear, recorded, copies, files, custody, rows, results, hits>> /\ UNCHANGED world

(* The file's tags inside the image, if it has any and the index answers.  *)
Carry(r) ==
    /\ At(r, "carry") /\ GoesOn(r)
    /\ \/ tagged' = [tagged EXCEPT ![OutputOf(r, Step(r).of)] = @ \cup {r}]
       \/ UNCHANGED tagged
    /\ UNCHANGED <<found, clear, recorded, copies, files, custody, rows, results, hits>> /\ UNCHANGED world

(* The connection is opened outside any try: failing fails the step.       *)
Wipe(r) ==
    /\ At(r, "wipe")
    /\ \/ GoesOn(r) /\ hits' = {h \in hits : cast[h[1]].on # cast[r].on}
       \/ ~healthy /\ Ends(r, "error") /\ UNCHANGED hits
    /\ UNCHANGED <<found, clear, recorded, copies, files, custody, rows, results, tagged>> /\ UNCHANGED world

Hit(r) ==
    /\ At(r, "hits") /\ GoesOn(r)
    /\ hits' \in {hits \cup {<<r, Step(r).of>>}} \cup {h \in {hits} : ~healthy}
    /\ UNCHANGED <<found, clear, recorded, copies, files, custody, rows, results, tagged>> /\ UNCHANGED world

Custody(r) ==
    /\ At(r, "custody") /\ GoesOn(r)
    /\ custody' = custody \cup {r}
    /\ UNCHANGED <<found, clear, recorded, copies, files>> /\ UNCHANGED <<index, world>>

(* "indexed": whenever a case was named, when there were records, or when  *)
(* some were written.                                                      *)
SaysIndexed(r) ==
    CASE Step(r).when = "always"  -> TRUE
      [] Step(r).when = "found"   -> found[r] = "yes"
      [] Step(r).when = "counted" -> recorded[r]
      [] OTHER                    -> FALSE

Answer(r) ==
    /\ Running(r) /\ Step(r).op = "answer"
    /\ Ends(r, IF SaysIndexed(r) THEN "indexed" ELSE "done")
    /\ UNCHANGED <<found, clear, recorded, copies, files, custody>> /\ UNCHANGED <<index, world>>

----------------------------------------------------------------------------
(* set_case_status(): closed, or open again.                               *)
SetStatus ==
    /\ flips < MaxFlips /\ flips' = flips + 1
    /\ status' = IF status = "Open" THEN "Closed" ELSE "Open"
    /\ saw' = [r \in Requests |-> IF Running(r) THEN saw[r] \cup {status'} ELSE saw[r]]
    /\ UNCHANGED <<cast, restarts, matched, healthy, pc, answer, found, clear, recorded, copies, files, custody>>
    /\ UNCHANGED index

(* Every thread is gone; an uncommitted transaction is rolled back.        *)
Restart ==
    /\ restarts < MaxRestarts /\ restarts' = restarts + 1
    /\ \E r \in Requests : Running(r)
    /\ answer' = [r \in Requests |-> IF Running(r) THEN "cut" ELSE answer[r]]
    /\ pc' = [r \in Requests |-> 0]
    /\ UNCHANGED <<cast, status, flips, saw, matched, healthy, found, clear, recorded, copies, files, custody>>
    /\ UNCHANGED index

RequestStep(r) ==
    \/ Arrive(r) \/ Skip(r) \/ Target(r) \/ Guard(r) \/ Fresh(r) \/ Copy(r) \/ Read(r) \/ Parse(r)
    \/ Extract(r) \/ Recover(r) \/ Create(r) \/ Drop(r) \/ Check(r) \/ Write(r) \/ Look(r) \/ Index(r)
    \/ Result(r) \/ Lose(r) \/ Seek(r) \/ Tag(r) \/ Carry(r) \/ Wipe(r) \/ Hit(r) \/ Custody(r) \/ Answer(r)

Next == (\E r \in Requests : RequestStep(r)) \/ SetStatus \/ Restart

Spec == Init /\ [][Next]_vars

----------------------------------------------------------------------------
(* How a route is laid out, whatever it parses.                            *)
IsRoute(s) ==
    /\ s \in Seq([op : STRING, of : Candidates, when : STRING])
    /\ \A p \in DOMAIN s : s[p].op = "answer" <=> p = Len(s)

(* The temporary copies there may be before step p.                        *)
Copied(s, p) ==
    {c \in Candidates : \E i \in 1 .. p - 1 :
        /\ s[i].op = "copy" /\ s[i].of = c
        /\ \A j \in i + 1 .. p - 1 : s[j] # [op |-> "drop", of |-> c, when |-> "always"]}

(* None where a route may end.                                             *)
TakesCopiesBack(s) ==
    \A p \in DOMAIN s :
        s[p].op \in {"target", "guard", "fresh", "check", "wipe", "answer"} => Copied(s, p) = {}

(* Nothing is written but after the route's own guard, or after a look at  *)
(* the status that is skipped only with the write it is for.               *)
Guarded(s, p) == \E i \in 1 .. p - 1 : s[i].op = "guard" /\ s[i].when = "always"
AsksFirst(s) ==
    \A p \in DOMAIN s :
        /\ s[p].op \in {"extract", "recover", "create", "write", "tag", "carry", "hits"} => Guarded(s, p)
        /\ s[p].op \in {"index", "result"} =>
              Guarded(s, p) \/ (p > 1 /\ s[p - 1].op = "look" /\ s[p - 1].when = s[p].when)

(* What is read at step p is indexed at step q: right after a look at the  *)
(* status, with nothing else read on the way and no output written in vain *)
(* unless the route ends with it.                                          *)
Reading == {"read", "parse", "extract"}
Checked(s, p, q) == \E k \in p .. q - 1 : /\ s[k].op = "check" /\ s[k].when = "always"
                                         /\ \A i \in p .. k - 1 : s[i].op # "write"
Paired(s, p, q) ==
    /\ s[p].op \in Reading /\ s[p].when = "always"
    /\ s[q].op = "index" /\ s[q].of = s[p].of /\ s[q].when \in {"always", "found", "went"}
    /\ p < q - 1 /\ s[q - 1].op = "look" /\ s[q - 1].when = s[q].when
    /\ \A i \in p + 1 .. q - 1 : /\ s[i].op \notin Reading \cup {"copy", "recover", "create"}
                                 /\ s[i].op = "write" => Checked(s, i + 1, q)

(* A route that indexes, indexes what it reads, and nothing else.          *)
Indexing(s) == \E q \in DOMAIN s : s[q].op = "index"
IndexesAll(s) ==
    Indexing(s) => \A p \in DOMAIN s :
        /\ s[p].op \in Reading =>
              /\ s[p].when = "always"
              /\ \/ \E q \in DOMAIN s : Paired(s, p, q)
                 \/ \E q \in DOMAIN s : p < q /\ s[q].op \in Reading /\ s[q].of = s[p].of
        /\ s[p].op = "index" => \E q \in DOMAIN s : Paired(s, q, p)

----------------------------------------------------------------------------
(* A request that came after the case was closed, and ended while it still *)
(* was, leaves nothing in it: no rows, no results, no hits, no output and  *)
(* no tag.  Every route either looks at the status first or records only   *)
(* through helpers that look again themselves (closed_case_work_refusal(), *)
(* closed_case_refusal(), _record_parsed_artifacts()).                     *)
ClosedCaseTakesNothing ==
    \A r \in Requests : "Open" \notin saw[r] =>
        /\ \A x \in rows : x.by # r
        /\ \A c \in Candidates : <<r, c>> \notin results \cup hits
        /\ \A k \in Keys : files[k] # r /\ r \notin tagged[k]

(* The rows of one source are the whole of one parse: two requests on the  *)
(* same file, or a restart, never leave a mixture or a part in the index   *)
(* (_record_parsed_artifacts(), "Re-scan safety").                         *)
RowsAreOneParse ==
    \A x \in rows :
        /\ {x.by} = {y.by : y \in {z \in rows : z.source = x.source}}
        /\ \A h \in {1, 2} : [x EXCEPT !.half = h] \in rows

(* Parsing one image never takes away what was found in another, although  *)
(* two images share the paths inside them (_record_parsed_artifacts(),     *)
(* "Re-scan scope is the source's whole identity").                        *)
OtherSourcesStay ==
    [][\A x \in rows \ rows' : \E r \in Requests, c \in Candidates :
           pc'[r] # pc[r] /\ x.source = SourceOf(r, c)]_vars

(* With the index at hand and the case open all along, all that a request  *)
(* found is in the index when it answers, unless another request on the    *)
(* same evidence has been at work: no file of a long list is passed over   *)
(* because another could not be read (_record_parsed_artifacts() and the   *)
(* loops of its callers).                                                  *)
FindsAreIndexed ==
    \A r \in Requests :
        /\ healthy /\ saw[r] = {"Open"} /\ answer[r] \in {"done", "indexed"}
        /\ \E i \in DOMAIN cast[r].steps : cast[r].steps[i].op = "index"
        /\ \A q \in Requests \ {r} : cast[q].kind # cast[r].kind
        => \A c \in matched[r] : RowsBy(r, c) \subseteq rows

(* A request that has ended has left no copy of evidence in the temporary  *)
(* directory, however it ended, unless the service went down under it      *)
(* (_tsk_extract_to_temp() and the finally clause of its callers).         *)
NoCopyLeftBehind ==
    \A x \in copies : answer[x[1]] \in {"running", "cut"}

----------------------------------------------------------------------------
(* The opposite of each of these the code allows.                          *)

(* An answer that says "indexed" means rows were written                   *)
(* (core/case_index_db.py:1333, about such an answer without rows).        *)
IndexedMeansRecorded == \A r \in Requests : answer[r] = "indexed" => recorded[r]

(* An output is tagged once, however often it is written again             *)
(* (_auto_tag_case_artifact(), "tags it once, not once per re-export").    *)
TaggedOnce == \A k \in Keys : Cardinality(tagged[k]) <= 1

(* With the index at hand and the case open all along, each file the sweep *)
(* matched is recorded (_run_yara_sweep_body(), "so a file already flagged *)
(* by this sweep shows the same already-run indicator").                   *)
MatchesRecorded ==
    \A r \in Requests : healthy /\ saw[r] = {"Open"} /\ answer[r] = "done" /\ cast[r].kind = "sweep" =>
        \A c \in matched[r] : <<r, c>> \in results

(* Nothing is written into a case found closed since the analysis began    *)
(* (analyze_mft(), "Refuse BEFORE the parse, not just before the write").  *)
NoLateOutput ==
    [][\A k \in Keys : files'[k] # files[k] => status = "Open"]_vars

(* An output that another request has made is not written over             *)
(* (extract_android_backup(), "Refuses if the target output folder already *)
(* exists").                                                               *)
ExtractionKept ==
    [][\A k \in Keys : k[2] = "unpacked" /\ files[k] # Nobody => files'[k] = files[k]]_vars

=============================================================================
