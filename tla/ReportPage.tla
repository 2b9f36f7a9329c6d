----------------------------- MODULE ReportPage -----------------------------
(***************************************************************************)
(* The Reporting page (static/js/main.js) against /api/report/load and     *)
(* /api/report/save: unsaved edits, background refreshes and saves of      *)
(* several browsers on one case.  The server's side of a save is one step  *)
(* here, which CaseRecord justifies; every answer travels separately from  *)
(* the request it answers.                                                 *)
(***************************************************************************)
EXTENDS Integers

CONSTANTS
    Pages,      \* browsers that show the case
    Fields,     \* the editable fields of the report
    MaxEdits,   \* how many edits one page makes
    Overlap     \* whether a page is edited or refreshed while it saves

ASSUME PagesAssumption == MaxEdits \in Nat /\ Overlap \in BOOLEAN /\ <<>> \notin Pages

VARIABLES
    disk,      \* the fields in the case file
    dom,       \* the fields as a page shows them
    loaded,    \* currentLoadedReportData
    base,      \* reportEditBase
    dirty,     \* reportHasUnsavedChanges
    save,      \* the save a page has under way
    sent,      \* the fields and the base it was sent with
    load,      \* the refresh a page has under way
    answer,    \* the fields the refresh was answered with
    edits,     \* how many edits a page has made
    shown,     \* every value a page has shown, per field
    stored     \* every value the server has stored

vars == <<disk, dom, loaded, base, dirty, save, sent, load, answer, edits, shown, stored>>

Blank  == <<>>
Values == (Pages \X (1 .. MaxEdits)) \cup {Blank}
Report == [Fields -> Values]
Empty  == [f \in Fields |-> Blank]

TypeOK ==
    /\ disk \in Report
    /\ dom \in [Pages -> Report] /\ loaded \in [Pages -> Report]
    /\ base \in [Pages -> Report]
    /\ dirty \in [Pages -> BOOLEAN]
    /\ save \in [Pages -> {"none", "sent", "saved", "conflict"}]
    /\ sent \in [Pages -> [mine : Report, base : Report]]
    /\ load \in [Pages -> {"none", "asked", "answered"}]
    /\ answer \in [Pages -> Report]
    /\ edits \in [Pages -> 0 .. MaxEdits]
    /\ shown \in [Pages -> [Fields -> SUBSET Values]]
    /\ stored \subseteq Values

Init ==
    /\ disk = Empty
    /\ dom = [p \in Pages |-> Empty]
    /\ loaded = [p \in Pages |-> Empty]
    /\ base = [p \in Pages |-> Empty]
    /\ dirty = [p \in Pages |-> FALSE]
    /\ save = [p \in Pages |-> "none"]
    /\ sent = [p \in Pages |-> [mine |-> Empty, base |-> Empty]]
    /\ load = [p \in Pages |-> "none"]
    /\ answer = [p \in Pages |-> Empty]
    /\ edits = [p \in Pages |-> 0]
    /\ shown = [p \in Pages |-> [f \in Fields |-> {Blank}]]
    /\ stored = {Blank}

Paint(p, r) ==
    /\ dom' = [dom EXCEPT ![p] = r]
    /\ shown' = [shown EXCEPT ![p] = [f \in Fields |-> @[f] \cup {r[f]}]]

Quiet(p) == save[p] = "none" \/ Overlap


(* An examiner types into a field: markReportingDirty(). *)
Type(p, f) ==
    /\ Quiet(p) /\ edits[p] < MaxEdits
    /\ edits' = [edits EXCEPT ![p] = @ + 1]
    /\ Paint(p, [dom[p] EXCEPT ![f] = <<p, edits[p] + 1>>])
    /\ dirty' = [dirty EXCEPT ![p] = TRUE]
    /\ UNCHANGED <<disk, loaded, base, save, sent, load, answer, stored>>

-----------------------------------------------------------------------------
(* loadCaseForEditing(): asked for by a tab switch, a finished job, an     *)
(* attached file; the server reads the case file; the answer arrives.      *)

AskLoad(p) ==
    /\ Quiet(p) /\ load[p] = "none"
    /\ load' = [load EXCEPT ![p] = "asked"]
    /\ UNCHANGED <<disk, dom, loaded, base, dirty, save, sent, answer, edits, shown, stored>>

ServeLoad(p) ==
    /\ load[p] = "asked"
    /\ load' = [load EXCEPT ![p] = "answered"]
    /\ answer' = [answer EXCEPT ![p] = disk]
    /\ UNCHANGED <<disk, dom, loaded, base, dirty, save, sent, edits, shown, stored>>

\* Mutant: the page repaints whether or not it has unsaved edits.
TakeLoad_Always(p) ==
    /\ Quiet(p) /\ load[p] = "answered"
    /\ load' = [load EXCEPT ![p] = "none"]
    /\ loaded' = [loaded EXCEPT ![p] = answer[p]]
    /\ Paint(p, answer[p])
    /\ base' = [base EXCEPT ![p] = answer[p]]
    /\ UNCHANGED <<disk, dirty, save, sent, answer, edits, stored>>

\* Mutant: the base follows a refresh the page does not paint.
TakeLoad_Rebase(p) ==
    /\ Quiet(p) /\ load[p] = "answered"
    /\ load' = [load EXCEPT ![p] = "none"]
    /\ loaded' = [loaded EXCEPT ![p] = answer[p]]
    /\ base' = [base EXCEPT ![p] = answer[p]]
    /\ IF dirty[p] THEN UNCHANGED <<dom, shown>> ELSE Paint(p, answer[p])
    /\ UNCHANGED <<disk, dirty, save, sent, answer, edits, stored>>

(* The loaded record is always replaced; the fields and the edit base only *)
(* while there are no unsaved edits.                                       *)
TakeLoad(p) ==
    /\ Quiet(p) /\ load[p] = "answered"
    /\ load' = [load EXCEPT ![p] = "none"]
    /\ loaded' = [loaded EXCEPT ![p] = answer[p]]
    /\ IF dirty[p] THEN UNCHANGED <<dom, base, shown>>
       ELSE /\ Paint(p, answer[p])
            /\ base' = [base EXCEPT ![p] = answer[p]]
    /\ UNCHANGED <<disk, dirty, save, sent, answer, edits, stored>>

-----------------------------------------------------------------------------
(* saveReportMetadata()                                                    *)

(* The shown fields go into the loaded record and that, with the base, to  *)
(* the server.                                                             *)
Send(p) ==
    /\ dirty[p] /\ save[p] = "none"
    /\ loaded' = [loaded EXCEPT ![p] = dom[p]]
    /\ sent' = [sent EXCEPT ![p] = [mine |-> dom[p], base |-> base[p]]]
    /\ save' = [save EXCEPT ![p] = "sent"]
    /\ UNCHANGED <<disk, dom, base, dirty, load, answer, edits, shown, stored>>

Clash(b, d, m) == m \notin {d, b} /\ d # b

(* save_report_json(): a field only one side changed takes that side's     *)
(* value, one both sides changed differently refuses the save.             *)
ServeSave(p) ==
    /\ save[p] = "sent"
    /\ LET b == sent[p].base
           m == sent[p].mine
       IN  IF \E f \in Fields : Clash(b[f], disk[f], m[f])
           THEN /\ save' = [save EXCEPT ![p] = "conflict"]
                /\ UNCHANGED <<disk, stored>>
           ELSE /\ save' = [save EXCEPT ![p] = "saved"]
                /\ disk' = [f \in Fields |-> IF m[f] = b[f] THEN disk[f] ELSE m[f]]
                /\ stored' = stored \cup {m[f] : f \in Fields}
    /\ UNCHANGED <<dom, loaded, base, dirty, sent, load, answer, edits, shown>>

(* Success: snapshotReportEditBase() and clearReportingDirty(). *)
TakeSaved(p) ==
    /\ save[p] = "saved"
    /\ save' = [save EXCEPT ![p] = "none"]
    /\ base' = [base EXCEPT ![p] = loaded[p]]
    /\ dirty' = [dirty EXCEPT ![p] = FALSE]
    /\ UNCHANGED <<disk, dom, loaded, sent, load, answer, edits, shown, stored>>

(* Conflict: the examiner keeps the edits, or gives them up and reloads. *)
TakeConflict(p) ==
    /\ save[p] = "conflict"
    /\ save' = [save EXCEPT ![p] = "none"]
    /\ \/ UNCHANGED <<dirty, load>>
       \/ /\ dirty' = [dirty EXCEPT ![p] = FALSE]
          /\ load' = [load EXCEPT ![p] = "asked"]
    /\ UNCHANGED <<disk, dom, loaded, base, sent, answer, edits, shown, stored>>

Next == \E p \in Pages :
    \/ AskLoad(p) \/ ServeLoad(p) \/ TakeLoad(p)
    \/ Send(p) \/ ServeSave(p) \/ TakeSaved(p) \/ TakeConflict(p)
    \/ \E f \in Fields : Type(p, f)

Spec == Init /\ [][Next]_vars

-----------------------------------------------------------------------------
(* Properties.                                                             *)

(* A save never replaces text its page has not shown its examiner (the     *)
(* comment on REPORT_EDITABLE_KEYS_CONSOLIDATED).                          *)
NoSilentRevert ==
    [][\A p \in Pages, f \in Fields :
          ServeSave(p) /\ disk'[f] # disk[f] => disk[f] \in shown[p][f]]_vars

(* A refresh never takes typed text off the page that was not stored       *)
(* first, unless its examiner gave the edits up (loadCaseForEditing's      *)
(* opening comment).                                                       *)
RefreshKeepsTypedText ==
    [][\A p \in Pages, f \in Fields :
          TakeLoad(p) /\ dom'[p][f] # dom[p][f]
          => dom[p][f] \in stored \/ dom[p][f] = sent[p].mine[f]]_vars

=============================================================================
