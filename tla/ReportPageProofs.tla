-------------------------- MODULE ReportPageProofs --------------------------
(***************************************************************************)
(* Theorems about ReportPage, for any number of pages, fields and edits.   *)
(***************************************************************************)
EXTENDS ReportPage, TLAPS

(* What the page and the server do to the fields. *)
LEMMA PaintShows ==
  ASSUME NEW p \in Pages, NEW r \in Report, dom \in [Pages -> Report],
         shown \in [Pages -> [Fields -> SUBSET Values]], Paint(p, r)
  PROVE  /\ dom' \in [Pages -> Report] /\ shown' \in [Pages -> [Fields -> SUBSET Values]]
         /\ dom'[p] = r /\ \A f \in Fields : r[f] \in shown'[p][f]
         /\ \A q \in Pages : q # p => dom'[q] = dom[q]
         /\ \A q \in Pages, f \in Fields : shown[q][f] \subseteq shown'[q][f]
  BY DEF Paint, Report

-----------------------------------------------------------------------------
(* Types.                                                                  *)

LEMMA InitTypeOK == ASSUME Init PROVE TypeOK
  BY PagesAssumption DEF Init, TypeOK, Report, Values, Empty

LEMMA TypeTyped ==
  ASSUME TypeOK, NEW p \in Pages, NEW f \in Fields, Type(p, f)
  PROVE  TypeOK' /\ \E r \in Report : Paint(p, r)
  <1> DEFINE r == [dom[p] EXCEPT ![f] = <<p, edits[p] + 1>>]
  <1>1. edits[p] + 1 \in 1 .. MaxEdits
    BY PagesAssumption DEF TypeOK, Type
  <1>2. <<p, edits[p] + 1>> \in Values
    BY <1>1 DEF Values
  <1>3. r \in Report
    BY <1>2 DEF TypeOK, Report
  <1>4. Paint(p, r)
    BY DEF Type
  <1> HIDE DEF r
  <1>5. /\ dom' \in [Pages -> Report] /\ shown' \in [Pages -> [Fields -> SUBSET Values]]
    BY <1>3, <1>4, PaintShows DEF TypeOK
  <1>6. edits' \in [Pages -> 0 .. MaxEdits] /\ dirty' \in [Pages -> BOOLEAN]
    BY <1>1 DEF Type, TypeOK
  <1>7. TypeOK'
    BY <1>5, <1>6 DEF Type, TypeOK
  <1>8. QED BY <1>3, <1>4, <1>7

LEMMA TakeLoadTyped ==
  ASSUME TypeOK, NEW p \in Pages, TakeLoad(p) PROVE TypeOK'
  <1>1. answer[p] \in Report
    BY DEF TypeOK
  <1>2. dom' \in [Pages -> Report] /\ shown' \in [Pages -> [Fields -> SUBSET Values]]
    <2>1. CASE dirty[p]
      BY <2>1 DEF TakeLoad, TypeOK
    <2>2. CASE ~dirty[p]
      BY <1>1, <2>2, PaintShows DEF TakeLoad, TypeOK
    <2>3. QED BY <2>1, <2>2
  <1>3. /\ load' \in [Pages -> {"none", "asked", "answered"}]
        /\ loaded' \in [Pages -> Report] /\ base' \in [Pages -> Report]
    BY <1>1 DEF TakeLoad, TypeOK
  <1>4. QED BY <1>2, <1>3 DEF TakeLoad, TypeOK

LEMMA ServeSaveTyped ==
  ASSUME TypeOK, NEW p \in Pages, ServeSave(p) PROVE TypeOK'
  <1>1. sent[p].base \in Report /\ sent[p].mine \in Report
    BY DEF TypeOK
  <1>2. disk' \in Report /\ stored' \subseteq Values
    <2>1. CASE save'[p] = "conflict"
      BY <2>1 DEF ServeSave, TypeOK
    <2>2. CASE save'[p] # "conflict"
      <3>1. /\ disk' = [f \in Fields |-> IF sent[p].mine[f] = sent[p].base[f] THEN disk[f]
                                                                       ELSE sent[p].mine[f]]
            /\ stored' = stored \cup {sent[p].mine[f] : f \in Fields}
        BY <2>2 DEF ServeSave, TypeOK
      <3>2. QED BY <1>1, <3>1 DEF TypeOK, Report
    <2>3. QED BY <2>1, <2>2
  <1>3. save' \in [Pages -> {"none", "sent", "saved", "conflict"}]
    BY DEF ServeSave, TypeOK
  <1>4. QED BY <1>2, <1>3 DEF ServeSave, TypeOK

LEMMA NextTypeOK == ASSUME TypeOK, [Next]_vars PROVE TypeOK'
  <1>1. ASSUME NEW p \in Pages, AskLoad(p) \/ ServeLoad(p) PROVE TypeOK'
    <2>1. load' \in [Pages -> {"none", "asked", "answered"}]
      BY <1>1 DEF AskLoad, ServeLoad, TypeOK
    <2>2. answer' \in [Pages -> Report]
      BY <1>1 DEF AskLoad, ServeLoad, TypeOK
    <2>3. UNCHANGED <<disk, dom, loaded, base, dirty, save, sent, edits, shown, stored>>
      BY <1>1 DEF AskLoad, ServeLoad
    <2>4. QED BY <2>1, <2>2, <2>3 DEF TypeOK
  <1>2. ASSUME NEW p \in Pages, Send(p) PROVE TypeOK'
    BY <1>2 DEF Send, TypeOK
  <1>3. ASSUME NEW p \in Pages, TakeSaved(p) \/ TakeConflict(p) PROVE TypeOK'
    BY <1>3 DEF TakeSaved, TakeConflict, TypeOK
  <1>4. CASE UNCHANGED vars
    BY <1>4 DEF vars, TypeOK
  <1>5. QED BY <1>1, <1>2, <1>3, <1>4, TypeTyped, TakeLoadTyped, ServeSaveTyped DEF Next

(* The variables of the pages and of the server keep their types. *)
THEOREM PageTypeCorrect == Spec => []TypeOK
  BY InitTypeOK, NextTypeOK, PTL DEF Spec

-----------------------------------------------------------------------------
(* No save reverts text that its examiner has not seen.                    *)

(* What a page compares its edits with has been on the page, and so has    *)
(* the record that becomes it once a save is through.                      *)
ShownInv ==
    \A p \in Pages, f \in Fields :
        /\ dom[p][f] \in shown[p][f] /\ base[p][f] \in shown[p][f]
        /\ save[p] = "sent" => sent[p].base[f] \in shown[p][f]
        /\ save[p] \in {"sent", "saved"} => loaded[p][f] \in shown[p][f]

LEMMA NextShown ==
  ASSUME Overlap = FALSE, TypeOK, ShownInv, [Next]_vars PROVE ShownInv'
  <1> USE DEF TypeOK, ShownInv
  <1>1. ASSUME NEW p \in Pages, AskLoad(p) \/ ServeLoad(p) PROVE ShownInv'
    BY <1>1 DEF AskLoad, ServeLoad
  <1>2. ASSUME NEW p \in Pages, TakeLoad(p) PROVE ShownInv'
    <2>1. save[p] = "none" /\ answer[p] \in Report
      BY <1>2 DEF TakeLoad, Quiet
    <2>2. CASE dirty[p]
      BY <1>2, <2>1, <2>2 DEF TakeLoad
    <2>3. CASE ~dirty[p]
      <3>1. /\ dom'[p] = answer[p] /\ \A f \in Fields : answer[p][f] \in shown'[p][f]
            /\ \A q \in Pages : q # p => dom'[q] = dom[q]
            /\ \A q \in Pages, f \in Fields : shown[q][f] \subseteq shown'[q][f]
        BY <1>2, <2>1, <2>3, PaintShows DEF TakeLoad
      <3>2. QED BY <1>2, <2>1, <2>3, <3>1 DEF TakeLoad
    <2>4. QED BY <2>2, <2>3
  <1>3. ASSUME NEW p \in Pages, Send(p) PROVE ShownInv'
    BY <1>3 DEF Send
  <1>4. ASSUME NEW p \in Pages, ServeSave(p) PROVE ShownInv'
    <2>1. UNCHANGED <<dom, loaded, base, sent, shown>>
      BY <1>4 DEF ServeSave
    <2>2. \A q \in Pages : q # p => save'[q] = save[q]
      BY <1>4 DEF ServeSave
    <2>3. save[p] = "sent" /\ save'[p] # "sent"
      BY <1>4 DEF ServeSave
    <2>4. QED BY <2>1, <2>2, <2>3
  <1>5. ASSUME NEW p \in Pages, TakeSaved(p) PROVE ShownInv'
    BY <1>5 DEF TakeSaved
  <1>6. ASSUME NEW p \in Pages, TakeConflict(p) PROVE ShownInv'
    BY <1>6 DEF TakeConflict
  <1>7. ASSUME NEW p \in Pages, NEW f \in Fields, Type(p, f) PROVE ShownInv'
    <2>1. PICK r \in Report : Paint(p, r)
      BY <1>7, TypeTyped
    <2>2. /\ dom'[p] = r /\ \A g \in Fields : r[g] \in shown'[p][g]
          /\ \A q \in Pages : q # p => dom'[q] = dom[q]
          /\ \A q \in Pages, g \in Fields : shown[q][g] \subseteq shown'[q][g]
      BY <2>1, PaintShows
    <2>3. QED BY <1>7, <2>2 DEF Type
  <1>8. CASE UNCHANGED vars
    BY <1>8 DEF vars
  <1>9. QED BY <1>1, <1>2, <1>3, <1>4, <1>5, <1>6, <1>7, <1>8 DEF Next

(* A merged save changes a field only where the file still holds the base  *)
(* that the page's edit was made on.                                       *)
LEMMA MergeMeetsBase ==
  ASSUME TypeOK, NEW p \in Pages, NEW f \in Fields, ServeSave(p), disk'[f] # disk[f]
  PROVE  disk[f] = sent[p].base[f]
  <1> DEFINE b == sent[p].base
             m == sent[p].mine
  <1>1. ~Clash(b[f], disk[f], m[f]) /\ disk' = [g \in Fields |-> IF m[g] = b[g] THEN disk[g] ELSE m[g]]
    BY DEF ServeSave
  <1>2. m[f] # b[f] /\ m[f] # disk[f]
    BY <1>1
  <1>3. QED BY <1>1, <1>2 DEF Clash

(* A save never replaces text that its page has not shown its examiner,    *)
(* for any number of examiners on a case, as long as a page is left alone  *)
(* while it saves.                                                         *)
THEOREM RevertsNothingUnseen == ASSUME Overlap = FALSE PROVE Spec => NoSilentRevert
  <1>1. Init => ShownInv
    BY DEF Init, ShownInv, Empty
  <1>2. TypeOK /\ ShownInv /\ [Next]_vars => ShownInv'
    BY NextShown
  <1>3. TypeOK /\ ShownInv
        => [\A p \in Pages, f \in Fields :
               ServeSave(p) /\ disk'[f] # disk[f] => disk[f] \in shown[p][f]]_vars
    <2> SUFFICES ASSUME TypeOK, ShownInv, NEW p \in Pages, NEW f \in Fields, ServeSave(p),
                        disk'[f] # disk[f]
                 PROVE  disk[f] \in shown[p][f]
      OBVIOUS
    <2>1. disk[f] = sent[p].base[f] /\ save[p] = "sent"
      BY MergeMeetsBase DEF ServeSave
    <2>2. QED BY <2>1 DEF ShownInv
  <1>4. QED BY <1>1, <1>2, <1>3, PageTypeCorrect, PTL DEF Spec, NoSilentRevert

-----------------------------------------------------------------------------
(* No refresh takes typed text away.                                       *)

(* While a page saves it shows what it sent; a page without unsaved edits  *)
(* shows what the server has stored, or what it sent last.                 *)
KeptInv ==
    /\ \A f \in Fields : disk[f] \in stored
    /\ \A p \in Pages :
         /\ save[p] # "none" => dom[p] = sent[p].mine
         /\ load[p] = "answered" => \A f \in Fields : answer[p][f] \in stored
         /\ ~dirty[p] => \A f \in Fields : dom[p][f] \in stored \/ dom[p][f] = sent[p].mine[f]

LEMMA NextKept ==
  ASSUME Overlap = FALSE, TypeOK, KeptInv, [Next]_vars PROVE KeptInv'
  <1> USE DEF TypeOK, KeptInv
  <1>1. ASSUME NEW p \in Pages, AskLoad(p) \/ ServeLoad(p) PROVE KeptInv'
    BY <1>1 DEF AskLoad, ServeLoad
  <1>2. ASSUME NEW p \in Pages, TakeLoad(p) PROVE KeptInv'
    <2>1. save[p] = "none" /\ answer[p] \in Report /\ \A f \in Fields : answer[p][f] \in stored
      BY <1>2 DEF TakeLoad, Quiet
    <2>2. CASE dirty[p]
      BY <1>2, <2>1, <2>2 DEF TakeLoad
    <2>3. CASE ~dirty[p]
      <3>1. dom'[p] = answer[p] /\ \A q \in Pages : q # p => dom'[q] = dom[q]
        BY <1>2, <2>1, <2>3, PaintShows DEF TakeLoad
      <3>2. QED BY <1>2, <2>1, <2>3, <3>1 DEF TakeLoad
    <2>4. QED BY <2>2, <2>3
  <1>3. ASSUME NEW p \in Pages, Send(p) PROVE KeptInv'
    BY <1>3 DEF Send
  <1>4. ASSUME NEW p \in Pages, ServeSave(p) PROVE KeptInv'
    <2>1. /\ UNCHANGED <<dom, dirty, sent, load, answer>>
          /\ save[p] = "sent" /\ \A q \in Pages : q # p => save'[q] = save[q]
      BY <1>4 DEF ServeSave
    <2>2. stored \subseteq stored' /\ \A f \in Fields : disk'[f] \in stored'
      BY <1>4 DEF ServeSave
    <2>3. QED BY <2>1, <2>2
  <1>5. ASSUME NEW p \in Pages, TakeSaved(p) PROVE KeptInv'
    BY <1>5 DEF TakeSaved
  <1>6. ASSUME NEW p \in Pages, TakeConflict(p) PROVE KeptInv'
    BY <1>6 DEF TakeConflict
  <1>7. ASSUME NEW p \in Pages, NEW f \in Fields, Type(p, f) PROVE KeptInv'
    <2>1. \A q \in Pages : q # p => dom'[q] = dom[q]
      BY <1>7, TypeTyped, PaintShows
    <2>2. QED BY <1>7, <2>1 DEF Type, Quiet
  <1>8. CASE UNCHANGED vars
    BY <1>8 DEF vars
  <1>9. QED BY <1>1, <1>2, <1>3, <1>4, <1>5, <1>6, <1>7, <1>8 DEF Next

(* A refresh never takes typed text off the page that was not stored       *)
(* first, unless its examiner gave it up, for any number of examiners, as  *)
(* long as a page is left alone while it saves.                            *)
THEOREM TypedTextStays == ASSUME Overlap = FALSE PROVE Spec => RefreshKeepsTypedText
  <1>1. Init => KeptInv
    BY DEF Init, KeptInv, Empty
  <1>2. TypeOK /\ KeptInv /\ [Next]_vars => KeptInv'
    BY NextKept
  <1>3. KeptInv
        => [\A p \in Pages, f \in Fields :
               TakeLoad(p) /\ dom'[p][f] # dom[p][f]
               => dom[p][f] \in stored \/ dom[p][f] = sent[p].mine[f]]_vars
    BY DEF KeptInv, TakeLoad
  <1>4. QED BY <1>1, <1>2, <1>3, PageTypeCorrect, PTL DEF Spec, RefreshKeepsTypedText

=============================================================================
