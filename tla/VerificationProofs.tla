-------------------------- MODULE VerificationProofs --------------------------
(***************************************************************************)
(* "Verify All Evidence", for any number of items and runs.  That only     *)
(* altered evidence is called a mismatch holds whatever overlaps.  The     *)
(* other properties rest on a run ending before the next is asked for:     *)
(*   - at most one worker is alive (Single), and it is bound to its own    *)
(*     claim (Bound), so nobody else takes "Stopped" off the status;       *)
(*   - the status therefore tells a stopped run that it was (Stops), and   *)
(*     a run that merges under another status has seen every item          *)
(*     (Reached);                                                          *)
(*   - a run that judges an item comes after all that judged it before     *)
(*     (Ranks), so what it merges is no older than what it replaces.       *)
(***************************************************************************)
EXTENDS Verification, FiniteSetTheorems, TLAPS

Progress ==
    /\ \A r \in Runs, e \in Items : found[r][e] # "none" => e < next[r]
    /\ \A r \in Runs : pc[r] = "judging" => next[r] \in Items

Typed == TypeOK /\ Progress

Honest ==
    /\ \A e \in Items : content[e] = "altered" => e \in harmed
    /\ \A r \in Runs, e \in Items : found[r][e] = "mismatch" => e \in harmed
    /\ OnlyAlteredIsMismatch

(* The station before its first run.                                       *)
LEMMA InitTyped == ASSUME Init PROVE Typed
<1>1. Cardinality(Runs) \in Nat
      BY VerificationAssumption, FS_CardinalityType
<1>2. next \in [Runs -> 1 .. NumItems + 1]
      BY VerificationAssumption DEF Init
<1>3. /\ found \in [Runs -> [Items -> Verdicts]]
      /\ \A r \in Runs : \A e \in Items : found[r][e] = "none"
      BY DEF Init, Verdicts
<1>4. rank \in [Runs -> [Items -> 0 .. Cardinality(Runs)]]
      BY <1>1 DEF Init
<1>5. verdictRank \in [Items -> 0 .. Cardinality(Runs)]
      BY <1>1 DEF Init
<1>6. \A e \in Folders : e \in Items
      BY VerificationAssumption
<1>7. TypeOK
      BY <1>2, <1>3, <1>4, <1>5, <1>6 DEF Init, TypeOK, Verdicts
<1>8. Progress
      BY <1>3 DEF Init, Progress
<1> QED BY <1>7, <1>8 DEF Typed

(* A run that judges an item is not among those that had.                  *)
LEMMA JudgedCount ==
    ASSUME Typed, NEW r \in Runs, pc[r] = "judging"
    PROVE  /\ r \notin JudgedBefore(next[r])
           /\ Cardinality(JudgedBefore(next[r])) + 1 \in 0 .. Cardinality(Runs)
<1> DEFINE J == JudgedBefore(next[r])
<1>1. next[r] \in Items /\ next[r] \in Nat
      BY DEF Typed, TypeOK, Progress, Items
<1>2. r \notin J
      BY <1>1 DEF Typed, Progress, JudgedBefore
<1>3. J \cup {r} \subseteq Runs /\ IsFiniteSet(Runs)
      BY VerificationAssumption DEF JudgedBefore
<1> HIDE DEF J
<1>4. IsFiniteSet(J) /\ Cardinality(J) \in Nat /\ Cardinality(Runs) \in Nat
      BY <1>3, FS_Subset, FS_CardinalityType
<1>5. Cardinality(J \cup {r}) = Cardinality(J) + 1
      BY <1>2, <1>4, FS_AddElement
<1>6. Cardinality(J \cup {r}) <= Cardinality(Runs)
      BY <1>3, FS_Subset
<1>7. r \notin J /\ Cardinality(J) + 1 \in 0 .. Cardinality(Runs)
      BY <1>2, <1>4, <1>5, <1>6
<1> QED BY <1>7 DEF J

(* What a file yields is a verdict.                                        *)
LEMMA VerdictType ==
    ASSUME TypeOK, NEW e \in Items
    PROVE  VerdictOn(e) \in Verdicts \ {"none"}
<1>1. content[e] \in {"intact", "altered", "unreadable", "absent"}
      BY VerificationAssumption DEF TypeOK
<1> QED BY <1>1 DEF VerdictOn, Verdicts

(* What a merge leaves in the record.                                      *)
LEMMA MergeTypes ==
    ASSUME TypeOK, NEW r \in Runs, Merge(r)
    PROVE  /\ verdict' \in [Items -> Verdicts]
           /\ verdictRank' \in [Items -> 0 .. Cardinality(Runs)]
<1> DEFINE checked == {e \in Items : found[r][e] # "none"}
<1>1. /\ verdict'     = [e \in Items |-> IF e \in checked THEN found[r][e] ELSE verdict[e]]
      /\ verdictRank' = [e \in Items |-> IF e \in checked THEN rank[r][e] ELSE verdictRank[e]]
      BY DEF Merge
<1>2. \A e \in Items : /\ found[r][e] \in Verdicts /\ verdict[e] \in Verdicts
                       /\ rank[r][e] \in 0 .. Cardinality(Runs)
                       /\ verdictRank[e] \in 0 .. Cardinality(Runs)
      BY DEF TypeOK
<1> HIDE DEF checked
<1> QED BY <1>1, <1>2

(* The runs' own bookkeeping, apart from the rest.                         *)
RunTypes ==
    /\ next \in [Runs -> 1 .. NumItems + 1]
    /\ found \in [Runs -> [Items -> Verdicts]]
    /\ \A r \in Runs : \A e \in Folders : found[r][e] = "none"
    /\ rank \in [Runs -> [Items -> 0 .. Cardinality(Runs)]]

OtherTypes ==
    /\ active \in BOOLEAN
    /\ status \in {"IDLE", "Initializing", "Verifying", "Stopped", "Completed", "Failed"}
    /\ owner \in Runs \cup {NoRun}
    /\ content \in [Items -> {"intact"} \cup Contents]
    /\ completed \in BOOLEAN /\ by \in Runs \cup {NoRun}
    /\ pc \in [Runs -> {"idle", "loading", "looking", "judging", "merging",
                        "ending", "freeing", "over"}]
    /\ mine \in [Runs -> Runs \cup {NoRun}]
    /\ stopped \subseteq Runs /\ harmed \subseteq Items

FileTypes ==
    /\ verdict \in [Items -> Verdicts]
    /\ verdictRank \in [Items -> 0 .. Cardinality(Runs)]

LEMMA TypeParts ==
    /\ TypeOK <=> RunTypes /\ OtherTypes /\ FileTypes
    /\ TypeOK' <=> RunTypes' /\ OtherTypes' /\ FileTypes'
      BY DEF TypeOK, RunTypes, OtherTypes, FileTypes

(* Judging is the only step that changes the runs' bookkeeping.            *)
LEMMA StepJudge ==
    ASSUME Typed, NEW r \in Runs, Judge(r)
    PROVE  RunTypes' /\ Progress'
<1> DEFINE e == next[r]
           n == Cardinality(JudgedBefore(e)) + 1
<1>1. e \in Items /\ VerdictOn(e) \in Verdicts /\ n \in 0 .. Cardinality(Runs)
      BY JudgedCount, VerdictType DEF Judge, At, Typed, Progress
<1>2. RunTypes
      BY TypeParts DEF Typed
<1>3. next' = [next EXCEPT ![r] = e + 1] /\ e + 1 \in 1 .. NumItems + 1
      BY <1>1, VerificationAssumption DEF Judge, Items
<1>4. pc'[r] = "looking" /\ \A x \in Runs \ {r} : pc'[x] = pc[x]
      BY TypeParts DEF Typed, Judge, At, OtherTypes
<1>5. \/ UNCHANGED <<found, rank>>
      \/ /\ e \notin Folders
         /\ found' = [found EXCEPT ![r][e] = VerdictOn(e)]
         /\ rank'  = [rank EXCEPT ![r][e] = n]
      BY DEF Judge
<1> HIDE DEF n
<1>6. next' \in [Runs -> 1 .. NumItems + 1]
      BY <1>2, <1>3 DEF RunTypes
<1>7. found' \in [Runs -> [Items -> Verdicts]]
  <2>1. found[r] \in [Items -> Verdicts]
        BY <1>2 DEF RunTypes
  <2>2. [found[r] EXCEPT ![e] = VerdictOn(e)] \in [Items -> Verdicts]
        BY <1>1, <2>1
  <2> QED BY <1>2, <1>5, <2>2 DEF RunTypes
<1>8. rank' \in [Runs -> [Items -> 0 .. Cardinality(Runs)]]
      BY <1>1, <1>2, <1>5 DEF RunTypes
<1>9. \A x \in Runs : \A f \in Folders : found'[x][f] = "none"
      BY <1>1, <1>2, <1>5, VerificationAssumption DEF RunTypes
<1>10. ASSUME NEW x \in Runs, NEW f \in Items, found'[x][f] # "none" PROVE f < next'[x]
  <2>1. f \in Nat /\ e \in Nat /\ next[x] \in Nat
        BY <1>1, <1>2, VerificationAssumption DEF Items, RunTypes
  <2>2. CASE x = r /\ f = e
        BY <1>2, <1>3, <2>1, <2>2 DEF RunTypes
  <2>3. CASE ~(x = r /\ f = e)
    <3>1. found[x][f] # "none"
          BY <1>2, <1>5, <1>10, <2>3 DEF RunTypes
    <3>2. f < next[x] /\ next[x] <= next'[x]
          BY <1>2, <1>3, <2>1, <3>1 DEF RunTypes, Typed, Progress
    <3> QED BY <1>6, <2>1, <3>2
  <2> QED BY <2>2, <2>3
<1>11. ASSUME NEW x \in Runs, pc'[x] = "judging" PROVE next'[x] \in Items
      BY <1>2, <1>3, <1>4, <1>11 DEF RunTypes, Typed, Progress
<1> QED BY <1>6, <1>7, <1>8, <1>9, <1>10, <1>11 DEF RunTypes, Progress

(* Each step keeps the types and the order of the items.                   *)
LEMMA StepTyped == ASSUME Typed, [Next]_vars PROVE Typed'
<1> DEFINE Same == UNCHANGED <<next, found, rank>>
<1>1. RunTypes /\ OtherTypes /\ FileTypes /\ Progress
      BY TypeParts DEF Typed
<1>2. ASSUME Same, FileTypes', OtherTypes',
             \A x \in Runs : pc'[x] = "judging" => pc[x] = "judging" \/ next[x] \in Items
      PROVE  Typed'
  <2>1. RunTypes' /\ Progress'
        BY <1>1, <1>2 DEF RunTypes, Progress
  <2> QED BY <1>2, <2>1, TypeParts DEF Typed
<1> USE DEF At, Says, slot, file, run
<1>3. ASSUME NEW r \in Runs, \/ Start(r) \/ Load(r) \/ LoadFails(r)
                             \/ MergeFails(r) \/ End(r) \/ Free(r)
      PROVE  Typed'
  <2>1. Same /\ FileTypes'
        BY <1>1, <1>3 DEF Start, Load, LoadFails, MergeFails, End, Free, FileTypes
  <2>2. OtherTypes' /\ \A x \in Runs : pc'[x] = "judging" => pc[x] = "judging"
        BY <1>1, <1>3 DEF Start, Load, LoadFails, MergeFails, End, Free, OtherTypes
  <2> QED BY <1>2, <2>1, <2>2
<1>4. ASSUME NEW r \in Runs, Look(r) PROVE Typed'
  <2>1. Same /\ FileTypes'
        BY <1>1, <1>4 DEF Look, FileTypes
  <2>2. next[r] <= NumItems => next[r] \in Items
        BY <1>1, VerificationAssumption DEF RunTypes, Items
  <2>3. OtherTypes'
        BY <1>1, <1>4 DEF Look, OtherTypes
  <2>4. \A x \in Runs : pc'[x] = "judging" => pc[x] = "judging" \/ next[x] \in Items
        BY <1>1, <1>4, <2>2 DEF Look, OtherTypes
  <2> QED BY <1>2, <2>1, <2>3, <2>4
<1>5. ASSUME NEW r \in Runs, Judge(r) PROVE Typed'
  <2>1. OtherTypes' /\ FileTypes'
        BY <1>1, <1>5 DEF Judge, OtherTypes, FileTypes
  <2> QED BY <1>5, <2>1, StepJudge, TypeParts DEF Typed
<1>6. ASSUME NEW r \in Runs, Merge(r) PROVE Typed'
  <2>1. Same
        BY <1>6 DEF Merge
  <2>2. FileTypes'
        BY <1>6, MergeTypes DEF FileTypes, Typed
  <2>3. OtherTypes' /\ \A x \in Runs : pc'[x] = "judging" => pc[x] = "judging"
        BY <1>1, <1>6 DEF Merge, OtherTypes
  <2> QED BY <1>2, <2>1, <2>2, <2>3
<1>7. CASE Stop
      BY <1>1, <1>2, <1>7 DEF Stop, OtherTypes, FileTypes
<1>8. ASSUME NEW e \in Items, Touch(e) PROVE Typed'
  <2>1. Same /\ FileTypes'
        BY <1>1, <1>8 DEF Touch, FileTypes
  <2>2. OtherTypes' /\ UNCHANGED pc
        BY <1>1, <1>8 DEF Touch, OtherTypes
  <2> QED BY <1>2, <2>1, <2>2
<1>9. CASE UNCHANGED vars
      BY <1>1, <1>2, <1>9 DEF vars, OtherTypes, FileTypes
<1> QED BY <1>3, <1>4, <1>5, <1>6, <1>7, <1>8, <1>9 DEF Next, Work

(* The types of the verification, whatever overlaps.                       *)
THEOREM VerificationTypeCorrect == Spec => []TypeOK
<1>1. Init => Typed
      BY InitTyped
<1>2. Typed /\ [Next]_vars => Typed'
      BY StepTyped
<1>3. Typed => TypeOK
      BY DEF Typed
<1> QED BY <1>1, <1>2, <1>3, PTL DEF Spec

-----------------------------------------------------------------------------
(* Each step calls only altered evidence a mismatch.                       *)
LEMMA StepHonest == ASSUME Typed, Honest, [Next]_vars PROVE Honest'
<1>1. RunTypes /\ OtherTypes /\ FileTypes /\ Progress
      BY TypeParts DEF Typed
<1> USE DEF Honest, OnlyAlteredIsMismatch, At, slot, file, run
<1>2. ASSUME UNCHANGED <<content, found, verdict, harmed>> PROVE Honest'
      BY <1>2
<1>3. ASSUME NEW r \in Runs, Judge(r) PROVE Honest'
  <2> DEFINE e == next[r]
  <2>1. e \in Items
        BY <1>1, <1>3 DEF Judge, Progress
  <2>2. VerdictOn(e) = "mismatch" => e \in harmed
    <3>1. content[e] \in {"intact", "altered", "unreadable", "absent"}
          BY <1>1, <2>1, VerificationAssumption DEF OtherTypes
    <3> QED BY <2>1, <3>1 DEF VerdictOn
  <2>3. UNCHANGED found \/ found' = [found EXCEPT ![r][e] = VerdictOn(e)]
        BY <1>3 DEF Judge
  <2> HIDE DEF e
  <2>4. ASSUME NEW x \in Runs, NEW f \in Items, found'[x][f] = "mismatch" PROVE f \in harmed
    <3>1. found'[x][f] = found[x][f] \/ (f = e /\ found'[x][f] = VerdictOn(e))
          BY <1>1, <2>1, <2>3 DEF RunTypes
    <3> QED BY <2>2, <2>4, <3>1
  <2> QED BY <1>3, <2>4 DEF Judge
<1>4. ASSUME NEW r \in Runs, Merge(r) PROVE Honest'
  <2>1. \A e \in Items : verdict'[e] = found[r][e] \/ verdict'[e] = verdict[e]
        BY <1>4 DEF Merge
  <2>2. UNCHANGED <<content, found, harmed>>
        BY <1>4 DEF Merge
  <2> QED BY <2>1, <2>2
<1>5. ASSUME NEW e \in Items, Touch(e) PROVE Honest'
      BY <1>1, <1>5 DEF Touch, OtherTypes
<1>6. ASSUME NEW r \in Runs, \/ Start(r) \/ Load(r) \/ LoadFails(r) \/ Look(r)
                             \/ MergeFails(r) \/ End(r) \/ Free(r)
      PROVE  Honest'
      BY <1>2, <1>6 DEF Start, Load, LoadFails, Look, MergeFails, End, Free
<1>7. CASE Stop \/ UNCHANGED vars
      BY <1>2, <1>7 DEF Stop, vars
<1> HIDE DEF Honest, OnlyAlteredIsMismatch, At, slot, file, run
<1> QED BY <1>3, <1>4, <1>5, <1>6, <1>7 DEF Next, Work

(* Only altered evidence is called a mismatch, whatever overlaps.          *)
THEOREM OnlyAltered == Spec => []OnlyAlteredIsMismatch
<1>1. Init => Honest
  <2> SUFFICES ASSUME Init PROVE Honest
      OBVIOUS
  <2>1. \A e \in Items : content[e] = "intact" /\ verdict[e] = "none"
        BY DEF Init
  <2>2. \A r \in Runs, e \in Items : found[r][e] = "none"
        BY DEF Init
  <2> QED BY <2>1, <2>2 DEF Honest, OnlyAlteredIsMismatch
<1>2. Typed /\ Honest /\ [Next]_vars => Typed' /\ Honest'
      BY StepTyped, StepHonest
<1>3. Honest => OnlyAlteredIsMismatch
      BY DEF Honest
<1> QED BY InitTyped, <1>1, <1>2, <1>3, PTL DEF Spec

-----------------------------------------------------------------------------
(* A run ends before the next one is asked for.                            *)
Single == \A r, x \in Runs : Alive(r) /\ Alive(x) => r = x

Bound ==
    /\ \A r \in Runs : pc[r] = "loading" => owner = r
    /\ \A r \in Runs : Alive(r) /\ pc[r] # "loading" => mine[r] = r
    /\ \A r \in Runs : owner = r => pc[r] # "idle"

Stops ==
    /\ status = "Stopped" => owner = NoRun
    /\ \A r \in stopped : pc[r] \notin {"idle", "loading"}
    /\ \A r \in stopped : Alive(r) => status = "Stopped"

Orderly == Single /\ Bound /\ Stops

(* Each step leaves one run, and its Stop known to it.                     *)
LEMMA StepOrderly ==
    ASSUME "next" \notin Overlaps, "early" \notin Overlaps, Typed, Orderly, [Next]_vars
    PROVE  Orderly'
<1>1. OtherTypes
      BY TypeParts DEF Typed
<1> USE VerificationAssumption
    DEF Orderly, Single, Bound, Stops, Alive, At, Says, slot, file, run, OtherTypes
<1>2. ASSUME NEW r \in Runs, Start(r) PROVE Orderly'
      BY <1>1, <1>2 DEF Start
<1>3. ASSUME NEW r \in Runs, Load(r) \/ LoadFails(r) PROVE Orderly'
      BY <1>1, <1>3 DEF Load, LoadFails
<1>4. ASSUME NEW r \in Runs, Look(r) \/ Judge(r) \/ Merge(r) PROVE Orderly'
      BY <1>1, <1>4 DEF Look, Judge, Merge
<1>5. ASSUME NEW r \in Runs, MergeFails(r) \/ End(r) PROVE Orderly'
      BY <1>1, <1>5 DEF MergeFails, End
<1>6. ASSUME NEW r \in Runs, Free(r) PROVE Orderly'
      BY <1>1, <1>6 DEF Free
<1>7. CASE Stop
      BY <1>1, <1>7 DEF Stop
<1>8. ASSUME NEW e \in Items, Touch(e) PROVE Orderly'
      BY <1>8 DEF Touch
<1>9. CASE UNCHANGED vars
      BY <1>9 DEF vars
<1> QED BY <1>2, <1>3, <1>4, <1>5, <1>6, <1>7, <1>8, <1>9 DEF Next, Work

(* A run that was stopped looks at no further item.                        *)
LEMMA StepStops ==
    ASSUME Typed, Orderly, [Next]_vars, NEW r \in stopped, pc'[r] = "judging"
    PROVE  pc[r] = "judging"
<1>1. OtherTypes
      BY TypeParts DEF Typed
<1> USE <1>1 DEF Orderly, Stops, Alive, At, slot, file, run, OtherTypes
<1> SUFFICES ASSUME pc[r] # "judging" PROVE FALSE
      OBVIOUS
<1>2. r \in Runs
      OBVIOUS
<1>3. ASSUME NEW x \in Runs, Look(x) PROVE FALSE
      BY <1>2, <1>3 DEF Look
<1>4. ASSUME NEW x \in Runs, ~Look(x), Start(x) \/ Work(x) PROVE FALSE
      BY <1>2, <1>4 DEF Work, Start, Load, LoadFails, Judge, Merge, MergeFails, End, Free
<1>5. CASE Stop \/ (\E e \in Items : Touch(e)) \/ UNCHANGED vars
      BY <1>5 DEF Stop, Touch, vars
<1> QED BY <1>3, <1>4, <1>5 DEF Next

THEOREM StoppedStops ==
    ASSUME Overlaps = {}
    PROVE  Spec => StoppedLooksNoFurther
<1>1. Init => Orderly
      BY VerificationAssumption DEF Init, Orderly, Single, Bound, Stops, Alive
<1>2. Typed /\ Orderly /\ [Next]_vars => Typed' /\ Orderly'
      BY StepTyped, StepOrderly
<1>3. Typed /\ Orderly /\ [Next]_vars
      => [\A r \in stopped : pc'[r] = "judging" => pc[r] = "judging"]_vars
      BY StepStops
<1> QED BY InitTyped, <1>1, <1>2, <1>3, PTL DEF Spec, StoppedLooksNoFurther

-----------------------------------------------------------------------------
(* What a run that merges has looked at.                                   *)
Reached ==
    /\ \A r \in Runs, e \in Items \ Folders : e < next[r] => found[r][e] # "none"
    /\ \A r \in Runs : pc[r] = "merging" => next[r] = NumItems + 1 \/ status = "Stopped"
    /\ completed => by \in Runs /\ next[by] = NumItems + 1

(* Judging an item leaves nothing behind.                                  *)
LEMMA JudgeReached ==
    ASSUME Typed, Reached, NEW r \in Runs, Judge(r)
    PROVE  /\ \A x \in Runs, e \in Items \ Folders : e < next'[x] => found'[x][e] # "none"
           /\ completed => next'[by] = NumItems + 1
<1> DEFINE f == next[r]
<1>1. RunTypes /\ f \in Items /\ NumItems \in Nat
      BY TypeParts, VerificationAssumption DEF Typed, Progress, Judge, At
<1>2. /\ next' = [next EXCEPT ![r] = f + 1] /\ f \in Nat /\ f <= NumItems
      BY <1>1 DEF Judge, Items
<1>3. /\ f \notin Folders => found' = [found EXCEPT ![r][f] = VerdictOn(f)]
      /\ f \in Folders => UNCHANGED found
      BY DEF Judge
<1>4. VerdictOn(f) # "none"
      BY <1>1, VerdictType DEF Typed
<1>5. f # NumItems + 1
      BY <1>1, <1>2
<1>6. completed => next'[by] = NumItems + 1
      BY <1>1, <1>2, <1>5 DEF RunTypes, Reached
<1>7. ASSUME NEW x \in Runs, NEW e \in Items \ Folders, e < next'[x]
      PROVE  found'[x][e] # "none"
  <2>1. e \in Nat /\ next[x] \in Nat
        BY <1>1 DEF Items, RunTypes
  <2>2. CASE x = r /\ e = f
        BY <1>1, <1>3, <1>4, <2>2 DEF RunTypes
  <2>3. CASE ~(x = r /\ e = f)
    <3>1. e < next[x]
      <4>1. CASE x = r
        <5>1. e < f + 1 /\ e # f
              BY <1>1, <1>2, <1>7, <2>3, <4>1 DEF RunTypes
        <5> HIDE DEF f
        <5>2. e < f
              BY <1>2, <2>1, <5>1
        <5> QED BY <4>1, <5>2 DEF f
      <4>2. CASE x # r
            BY <1>1, <1>2, <1>7, <4>2 DEF RunTypes
      <4> QED BY <4>1, <4>2
    <3>2. found'[x][e] = found[x][e]
          BY <1>1, <1>3, <2>3 DEF RunTypes
    <3> QED BY <3>1, <3>2 DEF Reached
  <2> QED BY <2>2, <2>3
<1> QED BY <1>6, <1>7

(* Each step keeps what a run that merges has looked at.                   *)
LEMMA StepReached ==
    ASSUME "next" \notin Overlaps, "early" \notin Overlaps,
           Typed, Orderly, Reached, [Next]_vars
    PROVE  Reached'
<1>1. RunTypes /\ OtherTypes /\ NumItems \in Nat
      BY TypeParts, VerificationAssumption DEF Typed
<1> USE DEF At, Says, Alive, slot, file, run
<1>2. ASSUME NEW r \in Runs, Start(r) \/ Load(r) \/ LoadFails(r) PROVE Reached'
      BY <1>1, <1>2 DEF Start, Load, LoadFails, Reached, OtherTypes, Orderly, Single
<1>3. ASSUME NEW r \in Runs, Look(r) PROVE Reached'
  <2>1. next[r] > NumItems => next[r] = NumItems + 1
        BY <1>1 DEF RunTypes
  <2> QED BY <1>1, <1>3, <2>1 DEF Look, Reached, OtherTypes
<1>4. ASSUME NEW r \in Runs, Judge(r) PROVE Reached'
  <2>1. UNCHANGED <<completed, by, status>>
        BY <1>4 DEF Judge
  <2>2. \A x \in Runs : pc'[x] = "merging" => pc[x] = "merging" /\ x # r
        BY <1>1, <1>4 DEF Judge, OtherTypes
  <2>3. \A x \in Runs \ {r} : next'[x] = next[x]
        BY <1>1, <1>4 DEF Judge, RunTypes
  <2> QED BY <1>4, <2>1, <2>2, <2>3, JudgeReached DEF Reached
<1>5. ASSUME NEW r \in Runs, Merge(r) PROVE Reached'
  <2>1. completed' => next[r] = NumItems + 1
        BY <1>5 DEF Merge, Reached
  <2>2. \A x \in Runs : pc'[x] = "merging" => pc[x] = "merging"
        BY <1>1, <1>5 DEF Merge, OtherTypes
  <2> QED BY <1>5, <2>1, <2>2 DEF Merge, Reached
<1>6. ASSUME NEW r \in Runs, MergeFails(r) \/ End(r) \/ Free(r) PROVE Reached'
      BY <1>1, <1>6 DEF MergeFails, End, Free, Reached, OtherTypes, Orderly, Single
<1>7. CASE Stop
      BY <1>7 DEF Stop, Reached
<1>8. CASE (\E e \in Items : Touch(e)) \/ UNCHANGED vars
      BY <1>8 DEF Touch, Reached, vars
<1> QED BY <1>2, <1>3, <1>4, <1>5, <1>6, <1>7, <1>8 DEF Next, Work

(* A run recorded as completed has judged every item that has a file.      *)
THEOREM CompletedIsWhole ==
    ASSUME Overlaps = {}
    PROVE  Spec => []CompletedJudgedAll
<1>1. Init => Orderly
      BY VerificationAssumption DEF Init, Orderly, Single, Bound, Stops, Alive
<1>2. Init => Reached
      BY VerificationAssumption DEF Init, Reached, Items
<1>3. Typed /\ Orderly /\ Reached /\ [Next]_vars => Typed' /\ Orderly' /\ Reached'
      BY StepTyped, StepOrderly, StepReached
<1>4. Reached => CompletedJudgedAll
      BY VerificationAssumption DEF Reached, CompletedJudgedAll, Items
<1> QED BY InitTyped, <1>1, <1>2, <1>3, <1>4, PTL DEF Spec

-----------------------------------------------------------------------------
(* How late the verdicts are.                                              *)
Ranks ==
    /\ \A r \in Runs, e \in Items : pc[r] = "idle" => found[r][e] = "none"
    /\ \A r \in Runs, e \in Items : rank[r][e] <= Cardinality(JudgedBefore(e))
    /\ \A e \in Items : verdictRank[e] <= Cardinality(JudgedBefore(e))
    /\ \A r \in Runs, e \in Items :
           Alive(r) /\ found[r][e] # "none" => verdictRank[e] <= rank[r][e]

(* Judging an item comes after all that judged it before.                  *)
LEMMA JudgeRanks ==
    ASSUME Typed, Ranks, NEW r \in Runs, Judge(r), NEW f \in Items, f = next[r]
    PROVE  Ranks'
<1> DEFINE n == Cardinality(JudgedBefore(f)) + 1
<1>1. RunTypes /\ OtherTypes /\ FileTypes
      BY TypeParts DEF Typed
<1>2. VerdictOn(f) # "none"
      BY <1>1, VerdictType DEF Typed
<1>3. UNCHANGED verdictRank /\ pc' = [pc EXCEPT ![r] = "looking"] /\ pc[r] = "judging"
      BY DEF Judge, At, file
<1>4. \A e \in Items : IsFiniteSet(JudgedBefore(e)) /\ Cardinality(JudgedBefore(e)) \in Nat
  <2> SUFFICES ASSUME NEW e \in Items
               PROVE  IsFiniteSet(JudgedBefore(e)) /\ Cardinality(JudgedBefore(e)) \in Nat
      OBVIOUS
  <2>1. JudgedBefore(e) \subseteq Runs /\ IsFiniteSet(Runs)
        BY VerificationAssumption DEF JudgedBefore
  <2> QED BY <2>1, FS_Subset, FS_CardinalityType
<1>5. CASE UNCHANGED <<found, rank>>
  <2>1. \A e \in Items : JudgedBefore(e)' = JudgedBefore(e)
        BY <1>5 DEF JudgedBefore
  <2> QED BY <1>1, <1>3, <1>5, <2>1 DEF Ranks, Alive, OtherTypes
<1>6. CASE /\ found' = [found EXCEPT ![r][f] = VerdictOn(f)]
           /\ rank'  = [rank EXCEPT ![r][f] = n]
  <2>1. r \notin JudgedBefore(f)
        BY <1>3, JudgedCount
  <2>2. JudgedBefore(f)' = JudgedBefore(f) \cup {r}
        BY <1>1, <1>2, <1>6 DEF JudgedBefore, RunTypes
  <2>3. \A e \in Items \ {f} : JudgedBefore(e)' = JudgedBefore(e)
        BY <1>1, <1>6 DEF JudgedBefore, RunTypes
  <2>4. Cardinality(JudgedBefore(f))' = n
        BY <1>1, <1>4, <2>1, <2>2, FS_AddElement
  <2>5. n \in Nat /\ n > Cardinality(JudgedBefore(f))
        BY <1>1, <1>4
  <2>6. \A x \in Runs, e \in Items :
            \/ x = r /\ e = f /\ rank'[x][e] = n
            \/ ~(x = r /\ e = f) /\ rank'[x][e] = rank[x][e] /\ found'[x][e] = found[x][e]
        BY <1>1, <1>6 DEF RunTypes
  <2> HIDE DEF n
  <2>7. \A x \in Runs, e \in Items : pc'[x] = "idle" => found'[x][e] = "none"
        BY <1>1, <1>3, <2>6 DEF Ranks, OtherTypes
  <2>8. \A e \in Items : Cardinality(JudgedBefore(e)) <= Cardinality(JudgedBefore(e))'
        BY <1>4, <2>3, <2>4, <2>5
  <2>9. \A e \in Items : Cardinality(JudgedBefore(e))' \in Nat
        BY <1>4, <2>3, <2>4, <2>5
  <2>10. \A x \in Runs, e \in Items : rank[x][e] \in Nat /\ verdictRank[e] \in Nat
    <3>1. Cardinality(Runs) \in Nat
          BY VerificationAssumption, FS_CardinalityType
    <3> QED BY <1>1, <3>1 DEF RunTypes, FileTypes
  <2>11. \A x \in Runs, e \in Items : rank'[x][e] <= Cardinality(JudgedBefore(e))'
        BY <1>4, <2>4, <2>5, <2>6, <2>8, <2>9, <2>10 DEF Ranks
  <2>12. \A e \in Items : verdictRank'[e] <= Cardinality(JudgedBefore(e))'
        BY <1>3, <1>4, <2>8, <2>9, <2>10 DEF Ranks
  <2>13. ASSUME NEW x \in Runs, NEW e \in Items, Alive(x)', found'[x][e] # "none"
         PROVE  verdictRank'[e] <= rank'[x][e]
    <3>1. Alive(x)
          BY <1>1, <1>3, <2>13 DEF Alive, OtherTypes
    <3>2. CASE x = r /\ e = f
          BY <1>3, <1>4, <2>5, <2>6, <2>10, <3>2 DEF Ranks
    <3>3. CASE ~(x = r /\ e = f)
          BY <1>3, <2>6, <2>13, <3>1, <3>3 DEF Ranks
    <3> QED BY <3>2, <3>3
  <2> QED BY <2>7, <2>11, <2>12, <2>13 DEF Ranks
<1> QED BY <1>5, <1>6 DEF Judge

(* Each step keeps the verdicts in order.                                  *)
LEMMA StepRanks ==
    ASSUME Typed, Orderly, Ranks, [Next]_vars
    PROVE  Ranks'
<1>1. OtherTypes /\ FileTypes /\ RunTypes
      BY TypeParts DEF Typed
<1> USE DEF At, Alive, slot, file, run
<1>2. ASSUME UNCHANGED <<found, rank, verdictRank>>,
             \A r \in Runs : /\ pc'[r] = "idle" => pc[r] = "idle"
                             /\ pc'[r] \notin {"idle", "over"} =>
                                   \/ pc[r] \notin {"idle", "over"}
                                   \/ \A e \in Items : found[r][e] = "none"
      PROVE  Ranks'
  <2>1. \A e \in Items : JudgedBefore(e)' = JudgedBefore(e)
        BY <1>2 DEF JudgedBefore
  <2> QED BY <1>2, <2>1 DEF Ranks
<1>3. ASSUME NEW r \in Runs, \/ Start(r) \/ Load(r) \/ LoadFails(r) \/ Look(r)
                             \/ MergeFails(r) \/ End(r) \/ Free(r)
      PROVE  Ranks'
  <2>1. UNCHANGED <<found, rank, verdictRank>>
        BY <1>3 DEF Start, Load, LoadFails, Look, MergeFails, End, Free
  <2>2. pc[r] = "idle" => \A e \in Items : found[r][e] = "none"
        BY DEF Ranks
  <2>3. /\ pc[r] # "over" /\ pc'[r] # "idle"
        /\ \A x \in Runs \ {r} : pc'[x] = pc[x]
        BY <1>1, <1>3 DEF Start, Load, LoadFails, Look, MergeFails, End, Free, OtherTypes
  <2> QED BY <1>2, <2>1, <2>2, <2>3
<1>4. ASSUME NEW r \in Runs, Judge(r) PROVE Ranks'
  <2>1. PICK f \in Items : f = next[r]
        BY <1>4 DEF Judge, Typed, Progress
  <2> QED BY <1>4, <2>1, JudgeRanks
<1>5. ASSUME NEW r \in Runs, Merge(r) PROVE Ranks'
  <2>1. UNCHANGED <<found, rank>> /\ pc[r] = "merging" /\ pc' = [pc EXCEPT ![r] = "ending"]
        BY <1>5 DEF Merge
  <2>2. \A e \in Items : verdictRank'[e] = IF found[r][e] # "none" THEN rank[r][e]
                                                                 ELSE verdictRank[e]
        BY <1>5 DEF Merge
  <2>3. \A e \in Items : JudgedBefore(e)' = JudgedBefore(e)
        BY <2>1 DEF JudgedBefore
  <2>4. \A x \in Runs : Alive(x)' => x = r
        BY <1>1, <2>1 DEF Orderly, Single, OtherTypes
  <2>5. \A x \in Runs : pc'[x] = "idle" => pc[x] = "idle"
        BY <1>1, <2>1 DEF OtherTypes
  <2>6. \A e \in Items : rank[r][e] <= rank[r][e]
    <3>1. Cardinality(Runs) \in Nat
          BY VerificationAssumption, FS_CardinalityType
    <3> QED BY <1>1, <3>1 DEF RunTypes
  <2> QED BY <2>1, <2>2, <2>3, <2>4, <2>5, <2>6 DEF Ranks
<1>6. CASE Stop \/ (\E e \in Items : Touch(e)) \/ UNCHANGED vars
      BY <1>2, <1>6 DEF Stop, Touch, vars
<1> QED BY <1>3, <1>4, <1>5, <1>6 DEF Next, Work

(* A merge replaces verdicts by later ones only.                           *)
LEMMA StepStands ==
    ASSUME Typed, Ranks, [Next]_vars, NEW e \in Items, verdict[e] = "mismatch"
    PROVE  verdictRank'[e] >= verdictRank[e] /\ verdict'[e] # "none"
<1>1. verdictRank[e] >= verdictRank[e]
  <2>1. Cardinality(Runs) \in Nat
        BY VerificationAssumption, FS_CardinalityType
  <2> QED BY <2>1 DEF Typed, TypeOK
<1>2. CASE UNCHANGED <<verdict, verdictRank>>
      BY <1>1, <1>2
<1>3. ASSUME NEW r \in Runs, Merge(r)
      PROVE  verdictRank'[e] >= verdictRank[e] /\ verdict'[e] # "none"
  <2>1. Alive(r)
        BY <1>3 DEF Merge, At, Alive
  <2>2. CASE found[r][e] # "none"
    <3>1. verdictRank'[e] = rank[r][e] /\ verdict'[e] = found[r][e]
          BY <1>3, <2>2 DEF Merge
    <3> QED BY <2>1, <2>2, <3>1 DEF Ranks
  <2>3. CASE found[r][e] = "none"
    <3>1. verdictRank'[e] = verdictRank[e] /\ verdict'[e] = verdict[e]
          BY <1>3, <2>3 DEF Merge
    <3> QED BY <1>1, <3>1
  <2> QED BY <2>2, <2>3
<1>4. CASE ~\E r \in Runs : Merge(r)
      BY <1>2, <1>4 DEF Next, Work, Start, Load, LoadFails, Look, Judge, MergeFails, End,
                        Free, Stop, Touch, vars, file, run, slot
<1> QED BY <1>3, <1>4

(* A recorded mismatch gives way only to a later verdict.                  *)
THEOREM MismatchIsKept ==
    ASSUME Overlaps = {}
    PROVE  Spec => MismatchStands
<1>1. Init => Orderly
      BY VerificationAssumption DEF Init, Orderly, Single, Bound, Stops, Alive
<1>2. Init => Ranks
  <2> SUFFICES ASSUME Init PROVE Ranks
      OBVIOUS
  <2>1. \A e \in Items : JudgedBefore(e) = {}
        BY DEF Init, JudgedBefore
  <2>2. Cardinality({}) = 0
        BY FS_EmptySet
  <2>3. \A e \in Items : verdictRank[e] = 0 /\ \A r \in Runs : rank[r][e] = 0
        BY DEF Init
  <2>4. \A e \in Items, r \in Runs : found[r][e] = "none"
        BY DEF Init
  <2>5. \A e \in Items : Cardinality(JudgedBefore(e)) = 0
        BY <2>1, <2>2
  <2>6. \A r \in Runs, e \in Items : rank[r][e] <= Cardinality(JudgedBefore(e))
        BY <2>3, <2>5
  <2>7. \A e \in Items : verdictRank[e] <= Cardinality(JudgedBefore(e))
        BY <2>3, <2>5
  <2> QED BY <2>4, <2>6, <2>7 DEF Ranks
<1>3. Typed /\ Orderly /\ Ranks /\ [Next]_vars => Typed' /\ Orderly' /\ Ranks'
      BY StepTyped, StepOrderly, StepRanks
<1>4. Typed /\ Ranks /\ [Next]_vars
      => [\A e \in Items : verdict[e] = "mismatch"
              => verdictRank'[e] >= verdictRank[e] /\ verdict'[e] # "none"]_vars
      BY StepStands
<1> QED BY InitTyped, <1>1, <1>2, <1>3, <1>4, PTL DEF Spec, MismatchStands

=============================================================================
