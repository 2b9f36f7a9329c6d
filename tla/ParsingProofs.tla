---------------------------- MODULE ParsingProofs ----------------------------
(***************************************************************************)
(* What holds of the analysis routes however many requests there are and   *)
(* whatever they parse: proofs of the invariants of Parsing.               *)
(***************************************************************************)
EXTENDS Parsing, TLAPS

(* The routes are laid out as MCParsing finds each of them to be. *)
AreRoutes == \A f \in Casts, r \in Requests : IsRoute(f[r].steps)

Said == {"refused", "error", "done", "indexed"}
EndOps == {"target", "guard", "fresh", "check", "wipe", "answer"}

(* A request at work is at a step of its route.                            *)
AtStep(r) == IF Running(r) THEN pc[r] \in DOMAIN cast[r].steps ELSE pc[r] = 0

PlaceInv ==
    /\ cast \in Casts
    /\ pc \in [Requests -> Nat]
    /\ answer \in [Requests -> {"none", "running", "cut"} \cup Said]
    /\ \A r \in Requests : AtStep(r)

(* A step goes on to the next one or ends the request; only some may end   *)
(* it, and the answer does. *)
LEMMA WayOn ==
  ASSUME NEW r, RequestStep(r), ~Arrive(r)
  PROVE  /\ Running(r) /\ UNCHANGED cast
         /\ \/ GoesOn(r) /\ Step(r).op # "answer"
            \/ \E said \in Said : Ends(r, said) /\ Step(r).op \in EndOps
  <1> USE DEF At, EndOps, Said, world
  <1>1. CASE Skip(r) \/ Target(r) \/ Guard(r) \/ Fresh(r) \/ Copy(r)
    BY <1>1 DEF Skip, Target, Guard, Fresh, Copy
  <1>2. CASE Read(r) \/ Parse(r) \/ Extract(r) \/ Recover(r) \/ Create(r)
    BY <1>2 DEF Read, Parse, Extract, Recover, Create
  <1>3. CASE Drop(r) \/ Check(r) \/ Write(r) \/ Look(r) \/ Index(r)
    BY <1>3 DEF Drop, Check, Write, Look, Index
  <1>4. CASE Result(r) \/ Lose(r) \/ Seek(r) \/ Tag(r) \/ Carry(r)
    BY <1>4 DEF Result, Lose, Seek, Tag, Carry
  <1>5. CASE Wipe(r) \/ Hit(r) \/ Custody(r) \/ Answer(r)
    BY <1>5 DEF Wipe, Hit, Custody, Answer
  <1>6. QED BY <1>1, <1>2, <1>3, <1>4, <1>5 DEF RequestStep

LEMMA OthersPlace ==
  ASSUME PlaceInv, NEW r \in Requests, RequestStep(r), NEW q \in Requests, q # r
  PROVE  pc'[q] = pc[q] /\ answer'[q] = answer[q] /\ UNCHANGED cast
  <1>1. CASE Arrive(r)
    BY <1>1 DEF Arrive, PlaceInv
  <1>2. CASE ~Arrive(r)
    BY <1>2, WayOn DEF GoesOn, Ends, PlaceInv
  <1>3. QED BY <1>1, <1>2

LEMMA OwnPlace ==
  ASSUME AreRoutes, PlaceInv, NEW r \in Requests, RequestStep(r)
  PROVE  /\ pc'[r] \in Nat /\ answer'[r] \in {"running"} \cup Said /\ AtStep(r)'
         /\ Running(r)' => pc'[r] = pc[r] + 1 /\ (Running(r) \/ pc[r] = 0)
         /\ UNCHANGED cast
  <1>1. CASE Arrive(r)
    <2>1. pc'[r] = 1 /\ answer'[r] = "running" /\ UNCHANGED cast
      BY <1>1 DEF Arrive, PlaceInv
    <2>2. cast[r].steps # <<>> /\ IsRoute(cast[r].steps)
      BY <1>1 DEF Arrive, PlaceInv, AreRoutes
    <2>3. 1 \in DOMAIN cast[r].steps
      BY <2>2 DEF IsRoute
    <2>4. pc[r] = 0
      BY <1>1 DEF PlaceInv, AtStep, Running, Arrive
    <2>5. QED BY <2>1, <2>3, <2>4 DEF AtStep, Running
  <1>2. CASE ~Arrive(r)
    <2>0. UNCHANGED cast /\ Running(r)
      BY <1>2, WayOn
    <2>1. CASE GoesOn(r) /\ Step(r).op # "answer"
      <3>1. pc'[r] = pc[r] + 1 /\ answer'[r] = "running"
        BY <2>0, <2>1 DEF GoesOn, PlaceInv, Running
      <3>2. pc[r] \in DOMAIN cast[r].steps /\ IsRoute(cast[r].steps)
        BY <2>0 DEF PlaceInv, AtStep, AreRoutes
      <3>3. pc[r] # Len(cast[r].steps)
        BY <2>1, <3>2 DEF IsRoute, Step
      <3>4. pc[r] + 1 \in DOMAIN cast[r].steps
        BY <3>2, <3>3 DEF IsRoute
      <3>5. pc[r] \in Nat
        BY DEF PlaceInv
      <3>6. QED BY <2>0, <3>1, <3>4, <3>5 DEF AtStep, Running
    <2>2. CASE \E said \in Said : Ends(r, said)
      <3>1. pc'[r] = 0 /\ answer'[r] \in Said
        BY <2>2 DEF Ends, PlaceInv
      <3>2. QED BY <2>0, <3>1 DEF AtStep, Running, Said
    <2>3. QED BY <1>2, <2>1, <2>2, WayOn
  <1>3. QED BY <1>1, <1>2

LEMMA InitPlace == ASSUME Init PROVE PlaceInv
  BY DEF Init, PlaceInv, AtStep, Running

LEMMA NextPlace == ASSUME AreRoutes, PlaceInv, [Next]_vars PROVE PlaceInv'
  <1>1. ASSUME NEW r \in Requests, RequestStep(r) PROVE PlaceInv'
    <2>1. /\ pc' \in [Requests -> Nat] /\ UNCHANGED cast
          /\ answer' \in [Requests -> {"none", "running", "cut"} \cup Said]
      <3>1. CASE Arrive(r)
        BY <1>1, <3>1 DEF Arrive, PlaceInv
      <3>2. CASE ~Arrive(r)
        BY <1>1, <3>2, WayOn DEF GoesOn, Ends, PlaceInv
      <3>3. QED BY <3>1, <3>2
    <2>2. ASSUME NEW q \in Requests, q # r PROVE AtStep(q)'
      BY <1>1, <2>1, <2>2, OthersPlace DEF AtStep, Running, PlaceInv
    <2>3. QED BY <1>1, <2>1, <2>2, OwnPlace DEF PlaceInv
  <1>2. CASE SetStatus \/ UNCHANGED vars
    BY <1>2 DEF SetStatus, vars, PlaceInv, AtStep, Running
  <1>3. CASE Restart
    <2>1. /\ pc' = [r \in Requests |-> 0] /\ UNCHANGED cast
          /\ answer' = [r \in Requests |-> IF Running(r) THEN "cut" ELSE answer[r]]
      BY <1>3 DEF Restart
    <2>2. QED BY <2>1 DEF PlaceInv, AtStep, Running
  <1>4. QED BY <1>1, <1>2, <1>3 DEF Next

-----------------------------------------------------------------------------
(* Types.                                                                  *)

LEMMA RouteStep ==
  ASSUME NEW s, IsRoute(s), NEW p \in DOMAIN s
  PROVE  /\ p \in Nat \ {0} /\ p <= Len(s) /\ DOMAIN s = 1 .. Len(s) /\ Len(s) \in Nat
         /\ s[p] \in [op : STRING, of : Candidates, when : STRING]
         /\ s[p].of \in Candidates
  <1> DEFINE E == [op : STRING, of : Candidates, when : STRING]
  <1>1. s \in Seq(E)
    BY DEF IsRoute
  <1>2. p \in 1 .. Len(s) /\ Len(s) \in Nat /\ DOMAIN s = 1 .. Len(s)
    BY <1>1
  <1> HIDE DEF E
  <1>3. s[p] \in E
    BY <1>1, <1>2
  <1>4. QED BY <1>2, <1>3 DEF E

(* The step a request is at, and the output it is about.                   *)
LEMMA StepType ==
  ASSUME AreRoutes, PlaceInv, NEW r \in Requests, Running(r)
  PROVE  /\ Step(r).of \in Candidates /\ IsRoute(cast[r].steps)
         /\ pc[r] \in DOMAIN cast[r].steps /\ pc[r] \in Nat \ {0}
         /\ OutputOf(r, Step(r).of) \in Keys /\ OwnOutputOf(r, Step(r).of) \in Keys
  <1>1. pc[r] \in DOMAIN cast[r].steps /\ IsRoute(cast[r].steps)
    BY DEF PlaceInv, AtStep, AreRoutes
  <1>2. Step(r).of \in Candidates /\ pc[r] \in Nat \ {0}
    BY <1>1, RouteStep DEF Step
  <1> DEFINE c == Step(r).of
  <1>3. cast[r].on \in Places /\ cast[r].kind \in Kinds
    BY DEF Places, Kinds
  <1>4. c \in Candidates
    BY <1>2
  <1> HIDE DEF c
  <1>5. <<cast[r].on, cast[r].kind, c, Nobody>> \in Keys /\ <<cast[r].on, cast[r].kind, c, r>> \in Keys
    BY <1>3, <1>4 DEF Keys
  <1>6. QED
    BY <1>1, <1>2, <1>5 DEF OutputOf, OwnOutputOf, c

(* The rest of the types, variable by variable. *)
RowType == \A x \in rows : x.by \in Requests /\ x \in RowsBy(x.by, 1) \cup RowsBy(x.by, 2)

DataType ==
    /\ found \in [Requests -> {"yes", "no", "raised"}]
    /\ clear \in [Requests -> BOOLEAN] /\ recorded \in [Requests -> BOOLEAN]
    /\ copies \subseteq Requests \X Candidates
    /\ results \subseteq Requests \X Candidates /\ hits \subseteq Requests \X Candidates
    /\ files \in [Keys -> Requests \cup {Nobody}]
    /\ tagged \in [Keys -> SUBSET Requests]
    /\ custody \subseteq Requests
    /\ saw \in [Requests -> SUBSET {"Open", "Closed"}] /\ matched \in [Requests -> SUBSET Candidates]
    /\ status \in {"Open", "Closed"} /\ healthy \in BOOLEAN
    /\ flips \in 0 .. MaxFlips /\ restarts \in 0 .. MaxRestarts

TypeInv == PlaceInv /\ DataType /\ RowType

LEMMA CastStays ==
  ASSUME UNCHANGED cast
  PROVE  /\ UNCHANGED Keys
         /\ \A r, c : /\ UNCHANGED <<SourceOf(r, c), OutputOf(r, c), OwnOutputOf(r, c)>>
                      /\ UNCHANGED RowsBy(r, c)
  BY DEF Keys, Places, Kinds, SourceOf, OutputOf, OwnOutputOf, RowsBy

LEMMA ReadType ==
  ASSUME AreRoutes, TypeInv, NEW r \in Requests,
         Copy(r) \/ Read(r) \/ Parse(r) \/ Extract(r) \/ Recover(r) \/ Create(r)
         \/ Drop(r) \/ Write(r)
  PROVE  DataType' /\ UNCHANGED rows
  <1> USE DEF TypeInv, DataType
  <1>0. /\ Step(r).of \in Candidates /\ UNCHANGED Keys
        /\ OutputOf(r, Step(r).of) \in Keys /\ OwnOutputOf(r, Step(r).of) \in Keys
    BY StepType, CastStays
    DEF At, Copy, Read, Parse, Extract, Recover, Create, Drop, Write, world
  <1>1. CASE Copy(r) \/ Drop(r)
    BY <1>0, <1>1 DEF Copy, Drop, index, world
  <1>2. CASE Read(r) \/ Parse(r)
    <2>1. PICK f \in {"yes", "no", "raised"} : Found(r, f)
      BY <1>2 DEF Read, Parse
    <2>2. UNCHANGED <<clear, recorded, copies, files, custody, index, cast, status, flips,
                      restarts, saw, healthy>>
      BY <1>2 DEF Read, Parse
    <2>3. QED BY <1>0, <2>1, <2>2 DEF Found, index
  <1>3. CASE Extract(r)
    <2>1. PICK f \in {"yes", "no", "raised"}, written \in BOOLEAN :
             /\ Found(r, f)
             /\ files' = IF written THEN [files EXCEPT ![OutputOf(r, Step(r).of)] = r] ELSE files
      BY <1>3 DEF Extract
    <2>2. UNCHANGED <<clear, recorded, copies, custody, index, cast, status, flips,
                      restarts, saw, healthy>>
      BY <1>3 DEF Extract
    <2>3. files' \in [Keys -> Requests \cup {Nobody}]
      BY <1>0, <2>1
    <2>4. QED BY <1>0, <2>1, <2>2, <2>3 DEF Found, index
  <1>4. CASE Recover(r) \/ Create(r) \/ Write(r)
    <2>1. /\ files' \in {files, [files EXCEPT ![OutputOf(r, Step(r).of)] = r],
                         [files EXCEPT ![OwnOutputOf(r, Step(r).of)] = r]}
          /\ \E f \in {"yes", "no", "raised"} : found' \in {found, [found EXCEPT ![r] = f]}
          /\ UNCHANGED <<clear, recorded, copies, custody, index, world>>
      BY <1>4 DEF Recover, Create, Write
    <2>2. files' \in [Keys -> Requests \cup {Nobody}]
      BY <1>0, <2>1
    <2>3. found' \in [Requests -> {"yes", "no", "raised"}]
      BY <2>1
    <2>4. QED BY <1>0, <2>1, <2>2, <2>3 DEF index, world
  <1>5. QED BY <1>1, <1>2, <1>3, <1>4

LEMMA RecordType ==
  ASSUME AreRoutes, TypeInv, NEW r \in Requests,
         Look(r) \/ Index(r) \/ Result(r) \/ Seek(r) \/ Tag(r) \/ Carry(r) \/ Wipe(r)
         \/ Hit(r) \/ Custody(r)
  PROVE  DataType' /\ RowType'
  <1> USE DEF TypeInv, DataType
  <1>0. /\ Step(r).of \in Candidates /\ UNCHANGED <<Keys, cast>>
        /\ OutputOf(r, Step(r).of) \in Keys
    BY StepType, CastStays
    DEF At, Look, Index, Result, Seek, Tag, Carry, Wipe, Hit, Custody, world
  <1>1. CASE Index(r)
    <2>1. UNCHANGED <<found, clear, copies, files, custody, results, hits, tagged, world>>
      BY <1>1 DEF Index
    <2>2. recorded' \in [Requests -> BOOLEAN]
      <3>1. (recorded[r] \/ found[r] = "yes") \in BOOLEAN
        OBVIOUS
      <3>2. recorded' \in {recorded, [recorded EXCEPT ![r] = @ \/ found[r] = "yes"]}
        BY <1>1 DEF Index
      <3>3. QED BY <3>1, <3>2
    <2>3. \A x \in rows' \ rows : x \in RowsBy(r, Step(r).of)
      BY <1>1 DEF Index
    <2>4. \A x \in rows' : x.by \in Requests /\ x \in RowsBy(x.by, 1) \cup RowsBy(x.by, 2)
      BY <1>0, <2>3 DEF RowType, RowsBy, Candidates
    <2>5. RowType'
      BY <1>0, <2>4, CastStays DEF RowType
    <2>6. QED BY <1>0, <2>1, <2>2, <2>5 DEF world
  <1>2. CASE Look(r) \/ Seek(r)
    <2>1. \E b \in BOOLEAN : clear' = [clear EXCEPT ![r] = b]
      BY <1>2 DEF Look, Seek
    <2>2. UNCHANGED <<found, recorded, copies, files, custody, index, world>>
      BY <1>2 DEF Look, Seek
    <2>3. QED BY <1>0, <2>1, <2>2, CastStays DEF RowType, index, world
  <1>3. CASE Tag(r) \/ Carry(r)
    <2>1. tagged' \in {tagged, [tagged EXCEPT ![OutputOf(r, Step(r).of)] = @ \cup {r}]}
      BY <1>3 DEF Tag, Carry
    <2>2. tagged' \in [Keys -> SUBSET Requests]
      BY <1>0, <2>1
    <2>3. UNCHANGED <<found, clear, recorded, copies, files, custody, rows, results, hits, world>>
      BY <1>3 DEF Tag, Carry
    <2>4. QED BY <1>0, <2>2, <2>3, CastStays DEF RowType, world
  <1>4. CASE Result(r) \/ Hit(r) \/ Wipe(r) \/ Custody(r)
    <2>1. /\ results' \in {results, results \cup {<<r, Step(r).of>>}}
          /\ hits' \subseteq hits \cup {<<r, Step(r).of>>}
          /\ custody' \in {custody, custody \cup {r}}
          /\ UNCHANGED <<found, clear, recorded, copies, files, rows, tagged, world>>
      BY <1>4 DEF Result, Hit, Wipe, Custody, index
    <2>2. QED BY <1>0, <2>1, CastStays DEF RowType, world
  <1>5. QED BY <1>1, <1>2, <1>3, <1>4

LEMMA OtherType ==
  ASSUME AreRoutes, TypeInv,
         \/ \E r \in Requests : Arrive(r) \/ Skip(r) \/ Target(r) \/ Guard(r) \/ Fresh(r)
                                \/ Check(r) \/ Lose(r) \/ Answer(r)
         \/ SetStatus \/ Restart \/ UNCHANGED vars
  PROVE  DataType' /\ RowType'
  <1> USE DEF TypeInv, DataType, index, world
  <1>0. UNCHANGED <<Keys, cast>>
    BY CastStays
    DEF Arrive, Skip, Target, Guard, Fresh, Check, Lose, Answer, SetStatus, Restart, vars
  <1>1. UNCHANGED rows => RowType'
    BY <1>0, CastStays DEF RowType
  <1>2. CASE \E r \in Requests : Arrive(r) \/ Skip(r) \/ Target(r) \/ Guard(r) \/ Fresh(r)
                                 \/ Check(r) \/ Lose(r) \/ Answer(r)
    BY <1>0, <1>1, <1>2 DEF Arrive, Skip, Target, Guard, Fresh, Check, Lose, Answer
  <1>3. CASE SetStatus
    BY <1>0, <1>1, <1>3, RequestsAssumption DEF SetStatus
  <1>4. CASE Restart \/ UNCHANGED vars
    BY <1>0, <1>1, <1>4, RequestsAssumption DEF Restart, vars
  <1>5. QED BY <1>2, <1>3, <1>4

LEMMA NextType == ASSUME AreRoutes, TypeInv, [Next]_vars PROVE TypeInv'
  <1>1. PlaceInv'
    BY NextPlace DEF TypeInv
  <1>2. UNCHANGED <<rows, cast>> => RowType'
    BY CastStays DEF TypeInv, RowType
  <1>3. ASSUME NEW r \in Requests,
               Copy(r) \/ Read(r) \/ Parse(r) \/ Extract(r) \/ Recover(r) \/ Create(r)
               \/ Drop(r) \/ Write(r)
        PROVE  DataType' /\ RowType'
    <2>1. UNCHANGED cast
      BY <1>3 DEF Copy, Read, Parse, Extract, Recover, Create, Drop, Write, world
    <2>2. QED BY <1>2, <1>3, <2>1, ReadType
  <1>4. QED BY <1>1, <1>3, RecordType, OtherType DEF TypeInv, Next, RequestStep

LEMMA InitTypes == ASSUME Init PROVE TypeInv
  BY InitPlace, RequestsAssumption DEF Init, TypeInv, DataType, RowType

LEMMA TypeInvariance == ASSUME AreRoutes PROVE Spec => []TypeInv
  BY InitTypes, NextType, PTL DEF Spec

(* The variables keep their types. *)
THEOREM ParsingTypeCorrect == ASSUME AreRoutes PROVE Spec => []TypeOK
  <1>1. ASSUME TypeInv, NEW r \in Requests PROVE pc[r] \in 0 .. Len(cast[r].steps)
    <2>1. IsRoute(cast[r].steps)
      BY <1>1 DEF TypeInv, PlaceInv, AreRoutes
    <2>2. QED BY <1>1, <2>1 DEF TypeInv, PlaceInv, AtStep, IsRoute
  <1>2. TypeInv => TypeOK
    BY <1>1 DEF TypeInv, PlaceInv, DataType, RowType, TypeOK, Said
  <1>3. QED BY <1>2, TypeInvariance, PTL

-----------------------------------------------------------------------------
(* The rows of a source.                                                   *)

LEMMA RowsKept ==
  ASSUME NEW r, RequestStep(r), ~Index(r) PROVE UNCHANGED rows
  <1> USE DEF index
  <1>1. CASE Arrive(r) \/ Skip(r) \/ Target(r) \/ Guard(r) \/ Fresh(r) \/ Copy(r)
    BY <1>1 DEF Arrive, Skip, Target, Guard, Fresh, Copy
  <1>2. CASE Read(r) \/ Parse(r) \/ Extract(r) \/ Recover(r) \/ Create(r) \/ Drop(r)
    BY <1>2 DEF Read, Parse, Extract, Recover, Create, Drop
  <1>3. CASE Check(r) \/ Write(r) \/ Look(r) \/ Result(r) \/ Lose(r) \/ Seek(r)
    BY <1>3 DEF Check, Write, Look, Result, Lose, Seek
  <1>4. CASE Tag(r) \/ Carry(r) \/ Wipe(r) \/ Hit(r) \/ Custody(r) \/ Answer(r)
    BY <1>4 DEF Tag, Carry, Wipe, Hit, Custody, Answer
  <1>5. QED BY <1>1, <1>2, <1>3, <1>4 DEF RequestStep

LEMMA ElsewhereRowsKept ==
  ASSUME SetStatus \/ Restart \/ UNCHANGED vars PROVE UNCHANGED rows
  BY DEF SetStatus, Restart, vars, index

(* Recording a source replaces its rows and leaves all others'. *)
LEMMA IndexRows ==
  ASSUME NEW r, Index(r)
  PROVE  \/ UNCHANGED rows
         \/ rows' = {x \in rows : x.source # SourceOf(r, Step(r).of)}
                    \cup {x \in RowsBy(r, Step(r).of) : found[r] = "yes"}
  BY DEF Index, Replaced

(* A row is one half of what a request recorded of its source. *)
RowParts == \A x \in rows : \E s, b : \E h \in {1, 2} : x = [source |-> s, by |-> b, half |-> h]

(* The rows of one source are the whole of one parse. *)
THEOREM OneParse == ASSUME AreRoutes PROVE Spec => []RowsAreOneParse
  <1>1. TypeInv => RowParts
    BY DEF TypeInv, RowType, RowParts, RowsBy
  <1>2. Init => RowsAreOneParse
    BY DEF Init, RowsAreOneParse
  <1>3. ASSUME TypeInv, RowsAreOneParse, [Next]_vars PROVE RowsAreOneParse'
    <2>1. CASE UNCHANGED rows
      BY <1>3, <2>1 DEF RowsAreOneParse
    <2>2. ASSUME NEW r \in Requests, NEW s, NEW new,
                 new \in {{}, {[source |-> s, by |-> r, half |-> h] : h \in {1, 2}}},
                 rows' = {x \in rows : x.source # s} \cup new
          PROVE  RowsAreOneParse'
      <3>1. \A x \in rows, y \in rows : x.source = y.source => x.by = y.by
        BY <1>3 DEF RowsAreOneParse
      <3>2. \A x \in rows, h \in {1, 2} : [x EXCEPT !.half = h] \in rows
        BY <1>3 DEF RowsAreOneParse
      <3>3. \A x \in new : x.source = s /\ x.by = r
        BY <2>2
      <3>4. ASSUME NEW x \in rows', NEW y \in rows', x.source = y.source PROVE x.by = y.by
        BY <2>2, <3>1, <3>3, <3>4
      <3>5. ASSUME NEW x \in rows', NEW h \in {1, 2} PROVE [x EXCEPT !.half = h] \in rows'
        <4>1. CASE x \in new
          <5>1. PICK k \in {1, 2} : x = [source |-> s, by |-> r, half |-> k]
            BY <2>2, <4>1
          <5>2. [x EXCEPT !.half = h] = [source |-> s, by |-> r, half |-> h]
            BY <5>1
          <5>3. QED BY <2>2, <4>1, <5>2
        <4>2. CASE x \notin new
          <5>1. x \in rows /\ x.source # s
            BY <2>2, <3>5, <4>2
          <5>2. \E z, b : \E k \in {1, 2} : x = [source |-> z, by |-> b, half |-> k]
            BY <1>1, <1>3, <5>1 DEF RowParts
          <5>3. [x EXCEPT !.half = h].source = x.source
            BY <5>2
          <5>4. QED BY <2>2, <3>2, <5>1, <5>3
        <4>3. QED BY <4>1, <4>2
      <3>6. \A x \in rows' : {x.by} = {y.by : y \in {z \in rows' : z.source = x.source}}
        BY <3>4
      <3>7. QED BY <3>5, <3>6 DEF RowsAreOneParse
    <2>3. ASSUME NEW r \in Requests, RequestStep(r) PROVE RowsAreOneParse'
      <3>1. CASE Index(r)
        <4>1. CASE UNCHANGED rows
          BY <2>1, <4>1
        <4>2. CASE rows' = {x \in rows : x.source # SourceOf(r, Step(r).of)}
                           \cup {x \in RowsBy(r, Step(r).of) : found[r] = "yes"}
          <5> DEFINE s == SourceOf(r, Step(r).of)
                     new == {x \in RowsBy(r, Step(r).of) : found[r] = "yes"}
          <5>1. new \in {{}, {[source |-> s, by |-> r, half |-> h] : h \in {1, 2}}}
            BY DEF RowsBy
          <5>2. rows' = {x \in rows : x.source # s} \cup new
            BY <4>2
          <5> HIDE DEF s, new
          <5>3. QED BY <2>2, <5>1, <5>2
        <4>3. QED BY <3>1, <4>1, <4>2, IndexRows
      <3>2. CASE ~Index(r)
        BY <2>1, <2>3, <3>2, RowsKept
      <3>3. QED BY <3>1, <3>2
    <2>4. QED BY <1>3, <2>1, <2>3, ElsewhereRowsKept DEF Next
  <1>4. QED BY <1>2, <1>3, TypeInvariance, PTL DEF Spec

(* A parse takes away no rows but those of the file it parsed. *)
THEOREM OthersRowsStay == ASSUME AreRoutes PROVE Spec => OtherSourcesStay
  <1> DEFINE Taken == \A x \in rows \ rows' : \E r \in Requests, c \in Candidates :
                          pc'[r] # pc[r] /\ x.source = SourceOf(r, c)
  <1>1. ASSUME TypeInv, [Next]_vars PROVE [Taken]_vars
    <2>1. CASE UNCHANGED rows
      BY <2>1
    <2>2. ASSUME NEW r \in Requests, Index(r) PROVE Taken
      <3>1. Running(r) /\ GoesOn(r)
        BY <2>2 DEF Index, At
      <3>2. Step(r).of \in Candidates /\ pc[r] \in Nat
        BY <1>1, <3>1, StepType DEF TypeInv
      <3>3. pc'[r] # pc[r]
        BY <1>1, <3>1, <3>2 DEF GoesOn, TypeInv, PlaceInv
      <3>4. \A x \in rows \ rows' : x.source = SourceOf(r, Step(r).of)
        BY <2>2, IndexRows
      <3>5. QED BY <3>2, <3>3, <3>4
    <2>3. QED BY <1>1, <2>1, <2>2, RowsKept, ElsewhereRowsKept DEF Next
  <1>2. QED BY <1>1, TypeInvariance, PTL DEF Spec, OtherSourcesStay

-----------------------------------------------------------------------------
(* Temporary copies of evidence.                                           *)

TakeCopiesBack == \A f \in Casts, r \in Requests : TakesCopiesBack(f[r].steps)

(* A copy is a request's that is at work, and may still be there at its    *)
(* step; or that was cut by a restart. *)
CopiesInv ==
    \A x \in copies :
        \/ answer[x[1]] = "running" /\ x[2] \in Copied(cast[x[1]].steps, pc[x[1]])
        \/ answer[x[1]] = "cut"

(* A copy that may be there is there after the next step, unless that was  *)
(* the one to drop it. *)
LEMMA CopiedNext ==
  ASSUME NEW s, IsRoute(s), NEW p \in DOMAIN s
  PROVE  /\ \A c \in Copied(s, p) :
              c \in Copied(s, p + 1) \/ s[p] = [op |-> "drop", of |-> c, when |-> "always"]
         /\ s[p].op = "copy" => s[p].of \in Copied(s, p + 1)
  <1>1. p \in Nat \ {0} /\ s[p].of \in Candidates
    BY RouteStep
  <1>2. ASSUME NEW c \in Copied(s, p), s[p] # [op |-> "drop", of |-> c, when |-> "always"]
        PROVE  c \in Copied(s, p + 1)
    <2>1. PICK i \in 1 .. p - 1 :
             /\ s[i].op = "copy" /\ s[i].of = c
             /\ \A j \in i + 1 .. p - 1 : s[j] # [op |-> "drop", of |-> c, when |-> "always"]
      BY DEF Copied
    <2>2. i \in 1 .. (p + 1) - 1 /\ c \in Candidates
      BY <1>1 DEF Copied
    <2>3. \A j \in i + 1 .. (p + 1) - 1 : j = p \/ j \in i + 1 .. p - 1
      BY <1>1
    <2>4. \A j \in i + 1 .. (p + 1) - 1 : s[j] # [op |-> "drop", of |-> c, when |-> "always"]
      BY <1>2, <2>1, <2>3
    <2>5. QED BY <2>1, <2>2, <2>4 DEF Copied
  <1>3. s[p].op = "copy" => s[p].of \in Copied(s, p + 1)
    <2>1. p \in 1 .. (p + 1) - 1 /\ \A j \in p + 1 .. (p + 1) - 1 : FALSE
      BY <1>1
    <2>2. QED BY <1>1, <2>1 DEF Copied
  <1>4. QED BY <1>2, <1>3

LEMMA CopiesKept ==
  ASSUME NEW r, RequestStep(r)
  PROVE  \/ UNCHANGED copies
         \/ Copy(r) /\ copies' = copies \cup {<<r, Step(r).of>>}
         \/ Drop(r) /\ copies' = copies \ {<<r, Step(r).of>>}
  <1>1. CASE Arrive(r) \/ Skip(r) \/ Target(r) \/ Guard(r) \/ Fresh(r) \/ Copy(r)
    BY <1>1 DEF Arrive, Skip, Target, Guard, Fresh, Copy
  <1>2. CASE Read(r) \/ Parse(r) \/ Extract(r) \/ Recover(r) \/ Create(r) \/ Drop(r)
    BY <1>2 DEF Read, Parse, Extract, Recover, Create, Drop
  <1>3. CASE Check(r) \/ Write(r) \/ Look(r) \/ Index(r) \/ Result(r) \/ Lose(r) \/ Seek(r)
    BY <1>3 DEF Check, Write, Look, Index, Result, Lose, Seek
  <1>4. CASE Tag(r) \/ Carry(r) \/ Wipe(r) \/ Hit(r) \/ Custody(r) \/ Answer(r)
    BY <1>4 DEF Tag, Carry, Wipe, Hit, Custody, Answer
  <1>5. QED BY <1>1, <1>2, <1>3, <1>4 DEF RequestStep

(* A drop that is always taken is not skipped. *)
LEMMA DropTaken ==
  ASSUME NEW r, NEW c, RequestStep(r), ~Arrive(r),
         Step(r) = [op |-> "drop", of |-> c, when |-> "always"]
  PROVE  copies' = copies \ {<<r, c>>}
  <1>1. Step(r).op = "drop" /\ Step(r).of = c /\ Applies(r)
    BY DEF Applies
  <1>2. Drop(r)
    BY <1>1
    DEF RequestStep, At, Skip, Target, Guard, Fresh, Copy, Read, Parse, Extract, Recover,
        Create, Check, Write, Look, Index, Result, Lose, Seek, Tag, Carry, Wipe, Hit,
        Custody, Answer
  <1>3. QED BY <1>1, <1>2 DEF Drop

LEMMA RequestCopies ==
  ASSUME AreRoutes, TakeCopiesBack, TypeInv, CopiesInv, NEW r \in Requests, RequestStep(r)
  PROVE  CopiesInv'
  <1>0. /\ UNCHANGED cast /\ copies \subseteq Requests \X Candidates
        /\ \A q \in Requests : q # r => pc'[q] = pc[q] /\ answer'[q] = answer[q]
    BY OwnPlace, OthersPlace DEF TypeInv, DataType
  <1>1. ASSUME NEW x \in copies', x[1] # r PROVE x \in copies
    BY <1>1, CopiesKept
  <1>2. ASSUME NEW c, <<r, c>> \in copies'
        PROVE  answer'[r] = "running" /\ c \in Copied(cast[r].steps, pc'[r])
    <2>1. CASE Arrive(r)
      <3>1. UNCHANGED copies /\ answer[r] = "none"
        BY <2>1 DEF Arrive
      <3>2. QED BY <1>2, <3>1 DEF CopiesInv
    <2>2. CASE ~Arrive(r)
      <3>1. /\ Running(r) /\ IsRoute(cast[r].steps) /\ pc[r] \in DOMAIN cast[r].steps
            /\ answer[r] = "running" /\ TakesCopiesBack(cast[r].steps)
            /\ Step(r) = cast[r].steps[pc[r]]
        BY <2>2, WayOn, StepType DEF Running, TypeInv, PlaceInv, TakeCopiesBack, Step
      <3>2. <<r, c>> \in copies => c \in Copied(cast[r].steps, pc[r])
        BY <3>1 DEF CopiesInv
      <3>3. CASE GoesOn(r)
        <4>1. pc'[r] = pc[r] + 1 /\ answer'[r] = "running"
          BY <3>1, <3>3 DEF GoesOn, TypeInv, PlaceInv
        <4>2. CASE <<r, c>> \in copies
          <5>1. Step(r) # [op |-> "drop", of |-> c, when |-> "always"]
            BY <1>2, <2>2, DropTaken
          <5>2. QED BY <3>1, <3>2, <4>1, <4>2, <5>1, CopiedNext
        <4>3. CASE <<r, c>> \notin copies
          <5>1. Copy(r) /\ c = Step(r).of
            BY <1>2, <4>3, CopiesKept
          <5>2. cast[r].steps[pc[r]].op = "copy" /\ c = cast[r].steps[pc[r]].of
            BY <3>1, <5>1 DEF Copy, At
          <5>3. QED BY <3>1, <4>1, <5>2, CopiedNext
        <4>4. QED BY <4>2, <4>3
      <3>4. CASE \E said \in Said : Ends(r, said) /\ Step(r).op \in EndOps
        <4>1. Copied(cast[r].steps, pc[r]) = {}
          BY <3>1, <3>4 DEF TakesCopiesBack, EndOps
        <4>2. <<r, c>> \notin copies
          BY <3>2, <4>1
        <4>3. Step(r).op # "copy"
          BY <3>4 DEF EndOps
        <4>4. QED BY <1>2, <4>2, <4>3, CopiesKept DEF Copy, At
      <3>5. QED BY <2>2, <3>3, <3>4, WayOn
    <2>3. QED BY <2>1, <2>2
  <1>3. ASSUME NEW x \in copies'
        PROVE  \/ answer'[x[1]] = "running" /\ x[2] \in Copied(cast[x[1]].steps, pc'[x[1]])
               \/ answer'[x[1]] = "cut"
    <2>1. CASE x[1] # r
      <3>1. x \in copies /\ x[1] \in Requests
        BY <1>0, <1>1, <1>3, <2>1
      <3>2. QED BY <1>0, <2>1, <3>1 DEF CopiesInv
    <2>2. CASE x[1] = r
      <3>1. x = <<r, x[2]>>
        <4>1. CASE x \in copies
          BY <1>0, <2>2, <4>1
        <4>2. CASE x \notin copies
          BY <1>3, <4>2, CopiesKept
        <4>3. QED BY <4>1, <4>2
      <3>2. QED BY <1>2, <1>3, <2>2, <3>1
    <2>3. QED BY <2>1, <2>2
  <1>4. QED BY <1>0, <1>3 DEF CopiesInv

(* A request that has ended has left no copy of evidence behind. *)
THEOREM CopiesAreDropped ==
  ASSUME AreRoutes, TakeCopiesBack PROVE Spec => []NoCopyLeftBehind
  <1>1. Init => CopiesInv
    BY DEF Init, CopiesInv
  <1>2. ASSUME TypeInv, CopiesInv, [Next]_vars PROVE CopiesInv'
    <2>1. CASE SetStatus \/ UNCHANGED vars
      BY <1>2, <2>1 DEF SetStatus, vars, CopiesInv
    <2>2. CASE Restart
      <3>1. UNCHANGED <<copies, cast>> /\ copies \subseteq Requests \X Candidates
        BY <1>2, <2>2 DEF Restart, TypeInv, DataType
      <3>2. \A r \in Requests : answer[r] \in {"running", "cut"} => answer'[r] = "cut"
        BY <2>2 DEF Restart, Running
      <3>3. \A x \in copies : x[1] \in Requests /\ answer[x[1]] \in {"running", "cut"}
        BY <1>2, <3>1 DEF CopiesInv
      <3>4. QED BY <3>1, <3>2, <3>3 DEF CopiesInv
    <2>3. QED BY <1>2, <2>1, <2>2, RequestCopies DEF Next
  <1>3. CopiesInv => NoCopyLeftBehind
    BY DEF CopiesInv, NoCopyLeftBehind
  <1>4. QED BY <1>1, <1>2, <1>3, TypeInvariance, PTL DEF Spec

-----------------------------------------------------------------------------
(* A closed case.                                                          *)

AskFirst == \A f \in Casts, r \in Requests : AsksFirst(f[r].steps)

(* A request has left something in the case. *)
Written(r) ==
    \/ \E x \in rows : x.by = r
    \/ \E c \in Candidates : <<r, c>> \in results \cup hits
    \/ \E k \in Keys : files[k] = r \/ r \in tagged[k]

(* The condition of a step, for what was found. *)
Meets(f, when) ==
    CASE when = "found"  -> f = "yes"
      [] when = "raised" -> f = "raised"
      [] when = "went"   -> f # "raised"
      [] OTHER           -> TRUE

(* A request has just looked at the status, and may go on. *)
LookedAt(r) ==
    LET s == cast[r].steps
    IN /\ pc[r] > 1 /\ s[pc[r] - 1].op = "look"
       /\ Meets(found[r], s[pc[r] - 1].when) /\ clear[r]

(* Who is past the guard, or has just looked and may go on, has come while *)
(* the case was open; and so has who has left something. *)
AskedOf(r) ==
    /\ answer[r] = "none" => saw[r] = {}
    /\ Running(r) => status \in saw[r]
    /\ Running(r) /\ (Guarded(cast[r].steps, pc[r]) \/ LookedAt(r)) => "Open" \in saw[r]
    /\ Written(r) => "Open" \in saw[r]

AskedInv == \A r \in Requests : AskedOf(r)

GuardedOps == {"extract", "recover", "create", "write", "tag", "carry", "hits"}

(* What a step leaves in the case is the request's own, and left at a step *)
(* that writes. *)
LEMMA StepWrites ==
  ASSUME AreRoutes, TypeInv, NEW r \in Requests, RequestStep(r),
         NEW q \in Requests, Written(q)'
  PROVE  \/ Written(q)
         \/ q = r /\ Running(r) /\ Step(r).op \in GuardedOps
         \/ q = r /\ Running(r) /\ Step(r).op \in {"index", "result"} /\ clear[r] /\ Applies(r)
  <1>0. UNCHANGED <<cast, Keys>>
    BY OwnPlace, CastStays DEF TypeInv
  <1>1. CASE UNCHANGED <<rows, results, hits, files, tagged>>
    BY <1>0, <1>1 DEF Written
  <1>2. CASE Index(r)
    <2>1. UNCHANGED <<results, hits, files, tagged>> /\ At(r, "index")
      BY <1>2 DEF Index
    <2>2. \A x \in rows' : x \in rows \/ (x.by = r /\ clear[r])
      BY <1>2 DEF Index, RowsBy
    <2>3. QED BY <1>0, <2>1, <2>2 DEF Written, At
  <1>3. CASE Result(r)
    <2>1. UNCHANGED <<rows, hits, files, tagged>> /\ At(r, "result")
      BY <1>3 DEF Result
    <2>2. \A q1, c : <<q1, c>> \in results' => <<q1, c>> \in results \/ (q1 = r /\ clear[r])
      BY <1>3 DEF Result
    <2>3. QED BY <1>0, <2>1, <2>2 DEF Written, At
  <1>4. CASE Hit(r) \/ Wipe(r)
    <2>1. UNCHANGED <<rows, results, files, tagged>> /\ Running(r)
      BY <1>4 DEF Hit, Wipe, At
    <2>2. \A q1, c : <<q1, c>> \in hits' => <<q1, c>> \in hits \/ (q1 = r /\ Step(r).op = "hits")
      BY <1>4 DEF Hit, Wipe, At
    <2>3. QED BY <1>0, <2>1, <2>2 DEF Written, GuardedOps
  <1>5. CASE Extract(r) \/ Recover(r) \/ Create(r) \/ Write(r)
    <2>1. /\ UNCHANGED <<rows, results, hits, tagged>> /\ Running(r)
          /\ Step(r).op \in GuardedOps
      BY <1>5 DEF Extract, Recover, Create, Write, At, GuardedOps, index
    <2>2. files' \in {files, [files EXCEPT ![OutputOf(r, Step(r).of)] = r],
                      [files EXCEPT ![OwnOutputOf(r, Step(r).of)] = r]}
      BY <1>5 DEF Extract, Recover, Create, Write
    <2>3. \A k \in Keys : files'[k] \in {files[k], r}
      BY <2>2 DEF TypeInv, DataType
    <2>4. QED BY <1>0, <2>1, <2>3 DEF Written
  <1>6. CASE Tag(r) \/ Carry(r)
    <2>1. /\ UNCHANGED <<rows, results, hits, files>> /\ Running(r)
          /\ Step(r).op \in GuardedOps
      BY <1>6 DEF Tag, Carry, At, GuardedOps
    <2>2. tagged' \in {tagged, [tagged EXCEPT ![OutputOf(r, Step(r).of)] = @ \cup {r}]}
      BY <1>6 DEF Tag, Carry
    <2>3. \A k \in Keys : tagged'[k] \subseteq tagged[k] \cup {r}
      BY <2>2 DEF TypeInv, DataType
    <2>4. QED BY <1>0, <2>1, <2>3 DEF Written
  <1>7. QED
    BY <1>1, <1>2, <1>3, <1>4, <1>5, <1>6
    DEF RequestStep, Arrive, Skip, Target, Guard, Fresh, Copy, Read, Parse, Drop, Check,
        Look, Lose, Seek, Custody, Answer, index

(* Who goes on from a guard has found the case open; who goes on from a    *)
(* look and may write, too. *)
LEMMA Asking ==
  ASSUME TypeInv, NEW r \in Requests, RequestStep(r), ~Arrive(r), GoesOn(r)
  PROVE  /\ Step(r).op = "guard" /\ Step(r).when = "always" => status = "Open"
         /\ Step(r).op = "look" /\ Meets(found'[r], Step(r).when) /\ clear'[r] => status = "Open"
  <1>1. CASE Step(r).op = "guard" /\ Step(r).when = "always"
    <2>1. Guard(r)
      BY <1>1
      DEF RequestStep, At, Applies, Skip, Target, Fresh, Copy, Read, Parse, Extract, Recover,
          Create, Drop, Check, Write, Look, Index, Result, Lose, Seek, Tag, Carry, Wipe, Hit,
          Custody, Answer
    <2>2. status = "Closed" => Ends(r, "refused")
      BY <2>1 DEF Guard
    <2>3. ~Ends(r, "refused")
      <3>1. Running(r)
        BY <2>1 DEF Guard, At
      <3>2. answer[r] = "running" /\ answer' = answer
        BY <3>1 DEF Running, GoesOn
      <3>3. QED BY <3>2 DEF Ends, TypeInv, PlaceInv
    <2>4. QED BY <1>1, <2>2, <2>3 DEF TypeInv, DataType
  <1>2. CASE Step(r).op = "look"
    <2>1. Skip(r) \/ Look(r)
      BY <1>2
      DEF RequestStep, At, Target, Guard, Fresh, Copy, Read, Parse, Extract, Recover,
          Create, Drop, Check, Write, Index, Result, Lose, Seek, Tag, Carry, Wipe, Hit,
          Custody, Answer
    <2>2. CASE Skip(r)
      <3>1. ~Applies(r) /\ UNCHANGED found
        BY <2>2 DEF Skip
      <3>2. ~Meets(found'[r], Step(r).when)
        BY <3>1 DEF Applies, Meets
      <3>3. QED BY <1>2, <3>2
    <2>3. CASE Look(r)
      BY <1>2, <2>3 DEF Look, TypeInv, DataType
    <2>4. QED BY <2>1, <2>2, <2>3
  <1>3. QED BY <1>1, <1>2

LEMMA SawStays ==
  ASSUME NEW r, RequestStep(r), ~Arrive(r) PROVE UNCHANGED <<saw, status>>
  <1> USE DEF world
  <1>1. CASE Skip(r) \/ Target(r) \/ Guard(r) \/ Fresh(r) \/ Copy(r)
    BY <1>1 DEF Skip, Target, Guard, Fresh, Copy
  <1>2. CASE Read(r) \/ Parse(r) \/ Extract(r) \/ Recover(r) \/ Create(r)
    BY <1>2 DEF Read, Parse, Extract, Recover, Create
  <1>3. CASE Drop(r) \/ Check(r) \/ Write(r) \/ Look(r) \/ Index(r)
    BY <1>3 DEF Drop, Check, Write, Look, Index
  <1>4. CASE Result(r) \/ Lose(r) \/ Seek(r) \/ Tag(r) \/ Carry(r)
    BY <1>4 DEF Result, Lose, Seek, Tag, Carry
  <1>5. CASE Wipe(r) \/ Hit(r) \/ Custody(r) \/ Answer(r)
    BY <1>5 DEF Wipe, Hit, Custody, Answer
  <1>6. QED BY <1>1, <1>2, <1>3, <1>4, <1>5 DEF RequestStep

LEMMA OthersFindings ==
  ASSUME TypeInv, NEW r \in Requests, RequestStep(r), NEW q \in Requests, q # r
  PROVE  found'[q] = found[q] /\ clear'[q] = clear[q]
  <1> USE DEF TypeInv, DataType
  <1>1. CASE UNCHANGED <<found, clear>>
    BY <1>1
  <1>2. CASE Copy(r) \/ Read(r) \/ Parse(r) \/ Extract(r) \/ Recover(r) \/ Create(r) \/ Write(r)
    BY <1>2 DEF Copy, Read, Parse, Extract, Recover, Create, Write, Found
  <1>3. CASE Look(r) \/ Seek(r)
    BY <1>3 DEF Look, Seek
  <1>4. QED
    BY <1>1, <1>2, <1>3
    DEF RequestStep, Arrive, Skip, Target, Guard, Fresh, Drop, Check, Index, Result, Lose,
        Tag, Carry, Wipe, Hit, Custody, Answer

LEMMA OthersAsked ==
  ASSUME AreRoutes, TypeInv, AskedInv, NEW r \in Requests, RequestStep(r),
         NEW q \in Requests, q # r
  PROVE  AskedOf(q)'
  <1>1. /\ pc'[q] = pc[q] /\ answer'[q] = answer[q] /\ UNCHANGED cast
        /\ found'[q] = found[q] /\ clear'[q] = clear[q]
    BY OthersPlace, OthersFindings DEF TypeInv
  <1>2. saw'[q] = saw[q] /\ UNCHANGED status
    BY SawStays DEF Arrive, TypeInv, DataType
  <1>3. Written(q)' => Written(q)
    BY StepWrites
  <1>4. AskedOf(q)
    BY DEF AskedInv
  <1>5. QED BY <1>1, <1>2, <1>3, <1>4 DEF AskedOf, Running, LookedAt

LEMMA OwnAsked ==
  ASSUME AreRoutes, AskFirst, TypeInv, AskedInv, NEW r \in Requests, RequestStep(r)
  PROVE  AskedOf(r)'
  <1> DEFINE s == cast[r].steps
  <1>0. AskedOf(r) /\ UNCHANGED cast
    BY OwnPlace DEF AskedInv, TypeInv
  <1>1. CASE Arrive(r)
    <2>1. /\ saw'[r] = {status} /\ UNCHANGED <<status, rows, results, hits, files, tagged>>
          /\ pc'[r] = 1 /\ answer'[r] = "running" /\ answer[r] = "none"
      BY <1>1 DEF Arrive, index, TypeInv, DataType, PlaceInv
    <2>2. ~Written(r)
      BY <1>0, <2>1 DEF AskedOf
    <2>3. ~Written(r)'
      BY <1>0, <2>1, <2>2, CastStays DEF Written
    <2>4. ~Guarded(s, 1)
      BY DEF Guarded
    <2>5. QED
      BY <1>0, <2>1, <2>3, <2>4 DEF AskedOf, Running, LookedAt
  <1>2. CASE ~Arrive(r)
    <2>1. /\ Running(r) /\ UNCHANGED <<saw, status>>
          /\ answer[r] = "running" /\ answer'[r] # "none"
      BY <1>2, WayOn, SawStays, OwnPlace DEF Running, TypeInv, Said
    <2>2. /\ IsRoute(s) /\ pc[r] \in DOMAIN s /\ pc[r] \in Nat \ {0} /\ Step(r) = s[pc[r]]
          /\ AsksFirst(s)
      BY <2>1, StepType DEF TypeInv, PlaceInv, AskFirst, Step
    <2>3. Written(r)' => "Open" \in saw[r]
      <3>1. CASE Written(r)
        BY <1>0, <3>1 DEF AskedOf
      <3>2. CASE Step(r).op \in GuardedOps
        <4>1. Guarded(s, pc[r])
          BY <2>2, <3>2 DEF AsksFirst, GuardedOps
        <4>2. QED BY <1>0, <2>1, <4>1 DEF AskedOf
      <3>3. CASE Step(r).op \in {"index", "result"} /\ clear[r] /\ Applies(r)
        <4>1. Meets(found[r], Step(r).when)
          BY <3>3 DEF Applies, Meets
        <4>2. Guarded(s, pc[r]) \/ LookedAt(r)
          BY <2>2, <3>3, <4>1 DEF AsksFirst, LookedAt
        <4>3. QED BY <1>0, <2>1, <4>2 DEF AskedOf
      <3>4. QED BY <3>1, <3>2, <3>3, StepWrites
    <2>4. CASE ~Running(r)'
      BY <2>1, <2>3, <2>4 DEF AskedOf
    <2>5. CASE Running(r)'
      <3>1. pc'[r] = pc[r] + 1 /\ GoesOn(r)
        BY <1>2, <2>5, OwnPlace, WayOn DEF TypeInv, Ends, Said, Running, PlaceInv
      <3>2. Guarded(s, pc'[r]) => "Open" \in saw[r]
        <4>1. Guarded(s, pc'[r]) => \/ Guarded(s, pc[r])
                                    \/ Step(r).op = "guard" /\ Step(r).when = "always"
          <5>1. \A i \in 1 .. (pc[r] + 1) - 1 : i \in 1 .. pc[r] - 1 \/ i = pc[r]
            BY <2>2
          <5>2. QED BY <2>2, <3>1, <5>1 DEF Guarded
        <4>2. QED BY <1>0, <1>2, <2>1, <3>1, <4>1, Asking DEF AskedOf
      <3>3. LookedAt(r)' => "Open" \in saw[r]
        <4>1. ASSUME LookedAt(r)'
              PROVE  Step(r).op = "look" /\ Meets(found'[r], Step(r).when) /\ clear'[r]
          <5>1. pc'[r] - 1 = pc[r]
            BY <2>2, <3>1
          <5>2. QED BY <1>0, <2>2, <4>1, <5>1 DEF LookedAt
        <4>2. QED BY <1>0, <1>2, <2>1, <3>1, <4>1, Asking DEF AskedOf
      <3>4. QED BY <1>0, <2>1, <2>3, <3>2, <3>3 DEF AskedOf
    <2>6. QED BY <2>4, <2>5
  <1>3. QED BY <1>1, <1>2

(* Work that comes after the case was closed leaves nothing in it. *)
THEOREM ClosedTakesNothing ==
  ASSUME AreRoutes, AskFirst PROVE Spec => []ClosedCaseTakesNothing
  <1>1. Init => AskedInv
    <2>1. ASSUME Init, NEW r \in Requests PROVE ~Written(r)
      BY <2>1, RequestsAssumption DEF Init, Written
    <2>2. QED BY <2>1 DEF Init, AskedInv, AskedOf, Running
  <1>2. ASSUME TypeInv, AskedInv, [Next]_vars PROVE AskedInv'
    <2>1. ASSUME NEW r \in Requests, RequestStep(r) PROVE AskedInv'
      BY <1>2, <2>1, OwnAsked, OthersAsked DEF AskedInv
    <2>2. CASE SetStatus \/ Restart \/ UNCHANGED vars
      <3>1. UNCHANGED <<cast, found, clear, rows, results, hits, files, tagged>>
        BY <2>2 DEF SetStatus, Restart, vars, index
      <3>2. \A r \in Requests : Written(r)' => Written(r)
        BY <3>1, CastStays DEF Written
      <3>3. \A r \in Requests :
               /\ saw[r] \subseteq saw'[r] /\ (~Running(r) => saw'[r] = saw[r])
               /\ Running(r)' => Running(r) /\ pc'[r] = pc[r] /\ (status' \in saw'[r] \/ status' = status)
               /\ answer'[r] = "none" => answer[r] = "none"
        BY <2>2 DEF SetStatus, Restart, vars, Running, TypeInv, DataType, PlaceInv
      <3>4. ASSUME NEW r \in Requests PROVE AskedOf(r)'
        BY <1>2, <3>1, <3>2, <3>3 DEF AskedInv, AskedOf, LookedAt, Running
      <3>5. QED BY <3>4 DEF AskedInv
    <2>3. QED BY <1>2, <2>1, <2>2 DEF Next
  <1>3. AskedInv => ClosedCaseTakesNothing
    BY DEF AskedInv, AskedOf, Written, ClosedCaseTakesNothing
  <1>4. QED BY <1>1, <1>2, <1>3, TypeInvariance, PTL DEF Spec

-----------------------------------------------------------------------------
(* What is found is indexed.                                               *)

IndexAll == \A f \in Casts, r \in Requests : IndexesAll(f[r].steps)

(* At step p of route s: file c is still to be read, ... *)
Ahead(s, p, c) == \E i \in DOMAIN s : p =< i /\ s[i].op \in Reading /\ s[i].of = c

(* ... or has been read and its index step is to come, or is here with the *)
(* status looked at; ... *)
Awaits(s, p, c, ok) ==
    \E i, q \in DOMAIN s : /\ Paired(s, i, q) /\ s[i].of = c
                           /\ i < p /\ p =< q /\ (p = q => ok)

(* ... and what the last reading gave is what is known of its file, unless *)
(* the route is about to end with an error. *)
Tells(s, p, m, f) ==
    \A i, q \in DOMAIN s :
        Paired(s, i, q) /\ i < p /\ p =< q
        => \/ (f = "yes") <=> s[i].of \in m
           \/ f = "raised" /\ Checked(s, p, q)

(* The index answers, the case is open, nobody else is on the evidence. *)
Undisturbed(r) ==
    /\ healthy /\ saw[r] = {"Open"} /\ Indexing(cast[r].steps)
    /\ \A q \in Requests \ {r} : cast[q].kind # cast[r].kind

FindsOf(r) ==
    /\ answer[r] = "none" => matched[r] = {}
    /\ Running(r) => status \in saw[r]
    /\ Undisturbed(r) /\ Running(r) =>
          /\ Tells(cast[r].steps, pc[r], matched[r], found[r])
          /\ \A c \in matched[r] : \/ RowsBy(r, c) \subseteq rows
                                   \/ Ahead(cast[r].steps, pc[r], c)
                                   \/ Awaits(cast[r].steps, pc[r], c, clear[r])
    /\ Undisturbed(r) /\ answer[r] \in {"done", "indexed"} =>
          \A c \in matched[r] : RowsBy(r, c) \subseteq rows

FindsInv == \A r \in Requests : FindsOf(r)

(* What the layout says of one step.                                       *)
LEMMA PairPlaces ==
  ASSUME NEW s, IsRoute(s), NEW i \in DOMAIN s, NEW q \in DOMAIN s, Paired(s, i, q),
         NEW p \in DOMAIN s, i < p, p =< q
  PROVE  /\ i \in Nat /\ q \in Nat /\ p \in Nat /\ Len(s) \in Nat /\ DOMAIN s = 1 .. Len(s)
         /\ s[p].op \notin Reading \cup {"copy", "recover", "create", "answer"}
         /\ p = q => s[p].op = "index"
         /\ p + 1 = q => s[p].op = "look" /\ s[p].when = s[q].when
         /\ s[p].op = "write" => p < q /\ Checked(s, p + 1, q)
  <1>1. /\ i \in Nat /\ q \in Nat /\ p \in Nat /\ Len(s) \in Nat /\ DOMAIN s = 1 .. Len(s)
    BY DEF IsRoute
  <1>2. p = q => s[p].op = "index"
    BY DEF Paired
  <1>3. p + 1 = q => s[p].op = "look" /\ s[p].when = s[q].when
    BY <1>1 DEF Paired
  <1>4. CASE p = q
    <2>1. s[p].op = "index" /\ ~(p + 1 = q)
      BY <1>1, <1>2, <1>4
    <2>2. QED BY <1>1, <1>2, <2>1 DEF Reading
  <1>5. CASE p # q
    <2>1. p \in i + 1 .. q - 1 /\ p < q
      BY <1>1, <1>5
    <2>2. s[p].op \notin Reading \cup {"copy", "recover", "create"}
      BY <2>1 DEF Paired
    <2>3. s[p].op # "answer"
      BY <1>1, <2>1 DEF IsRoute
    <2>4. s[p].op = "write" => Checked(s, p + 1, q)
      BY <2>1 DEF Paired
    <2>5. QED BY <1>1, <1>2, <1>3, <2>1, <2>2, <2>3, <2>4
  <1>6. QED BY <1>4, <1>5

LEMMA AfterReading ==
  ASSUME NEW s, IsRoute(s), IndexesAll(s), Indexing(s), NEW p \in DOMAIN s,
         s[p].op \in Reading, NEW m, NEW f
  PROVE  LET n == (m \ {s[p].of}) \cup {c \in {s[p].of} : f = "yes"}
         IN  /\ s[p].when = "always"
             /\ Tells(s, p + 1, n, f)
             /\ \A c \in n : \/ c \in m /\ c # s[p].of
                             \/ Ahead(s, p + 1, c) \/ \A ok : Awaits(s, p + 1, c, ok)
  <1> DEFINE n == (m \ {s[p].of}) \cup {c \in {s[p].of} : f = "yes"}
  <1>1. p \in Nat /\ Len(s) \in Nat /\ DOMAIN s = 1 .. Len(s)
    BY DEF IsRoute
  <1>2. Tells(s, p + 1, n, f)
    <2> SUFFICES ASSUME NEW i \in DOMAIN s, NEW q \in DOMAIN s, Paired(s, i, q),
                        i < p + 1, p + 1 =< q
                 PROVE  (f = "yes") <=> s[i].of \in n
      BY DEF Tells
    <2>1. i = p \/ (i < p /\ p =< q)
      BY <1>1
    <2>2. ~(i < p /\ p =< q)
      BY PairPlaces
    <2>3. QED BY <2>1, <2>2
  <1>3. s[p].of \in n => Ahead(s, p + 1, s[p].of) \/ \A ok : Awaits(s, p + 1, s[p].of, ok)
    <2>1. CASE \E q \in DOMAIN s : Paired(s, p, q)
      <3>1. PICK q \in DOMAIN s : Paired(s, p, q)
        BY <2>1
      <3>2. p < p + 1 /\ p + 1 =< q /\ p + 1 # q
        BY <1>1, <3>1 DEF Paired
      <3>3. QED BY <3>1, <3>2 DEF Awaits
    <2>2. CASE \E q \in DOMAIN s : p < q /\ s[q].op \in Reading /\ s[q].of = s[p].of
      <3>1. PICK q \in DOMAIN s : p < q /\ s[q].op \in Reading /\ s[q].of = s[p].of
        BY <2>2
      <3>2. p + 1 =< q
        BY <1>1, <3>1
      <3>3. QED BY <3>1, <3>2 DEF Ahead
    <2>3. QED BY <2>1, <2>2 DEF IndexesAll
  <1>4. s[p].when = "always"
    BY DEF IndexesAll
  <1>5. \A c \in n : c = s[p].of \/ (c \in m /\ c # s[p].of)
    OBVIOUS
  <1> HIDE DEF n
  <1>6. QED BY <1>2, <1>3, <1>4, <1>5 DEF n

LEMMA StillAhead ==
  ASSUME NEW s, IsRoute(s), NEW p \in DOMAIN s, NEW c,
         s[p].op \notin Reading \/ s[p].of # c, Ahead(s, p, c)
  PROVE  Ahead(s, p + 1, c)
  <1>1. PICK i \in DOMAIN s : p =< i /\ s[i].op \in Reading /\ s[i].of = c
    BY DEF Ahead
  <1>2. i # p
    BY <1>1
  <1>3. p + 1 =< i
    BY <1>1, <1>2 DEF IsRoute
  <1>4. QED BY <1>1, <1>3 DEF Ahead

LEMMA StillAwaits ==
  ASSUME NEW s, IsRoute(s), NEW p \in DOMAIN s, NEW c, NEW ok, Awaits(s, p, c, ok)
  PROVE  /\ s[p].op \notin Reading \cup {"answer"}
         /\ \/ \A k : Awaits(s, p + 1, c, k)
            \/ s[p].op = "look" /\ s[p].when \in {"always", "found", "went"} /\ Awaits(s, p + 1, c, TRUE)
            \/ /\ s[p].op = "index" /\ s[p].of = c /\ ok
               /\ s[p].when \in {"always", "found", "went"}
  <1>1. PICK i, q \in DOMAIN s : /\ Paired(s, i, q) /\ s[i].of = c
                                 /\ i < p /\ p =< q /\ (p = q => ok)
    BY DEF Awaits
  <1>2. /\ i \in Nat /\ q \in Nat /\ p \in Nat
        /\ s[p].op \notin Reading \cup {"answer"}
        /\ p = q => s[p].op = "index"
        /\ p + 1 = q => s[p].op = "look" /\ s[p].when = s[q].when
    BY <1>1, PairPlaces
  <1>3. s[q].of = c /\ s[q].when \in {"always", "found", "went"}
    BY <1>1 DEF Paired
  <1>4. CASE p = q
    BY <1>1, <1>2, <1>3, <1>4
  <1>5. CASE p + 1 = q
    <2>1. i < p + 1 /\ p + 1 =< q
      BY <1>1, <1>2, <1>5
    <2>2. Awaits(s, p + 1, c, TRUE)
      BY <1>1, <2>1 DEF Awaits
    <2>3. QED BY <1>2, <1>3, <1>5, <2>2
  <1>6. CASE p # q /\ p + 1 # q
    <2>1. i < p + 1 /\ p + 1 =< q
      BY <1>1, <1>2, <1>6
    <2>2. \A k : Awaits(s, p + 1, c, k)
      BY <1>1, <1>6, <2>1 DEF Awaits
    <2>3. QED BY <1>2, <2>2
  <1>7. QED BY <1>4, <1>5, <1>6

(* A file that is awaited has been read with records, when its index step  *)
(* or the look before it is here. *)
LEMMA AwaitedIsFound ==
  ASSUME NEW s, IsRoute(s), NEW p \in DOMAIN s, NEW m, NEW f, Tells(s, p, m, f),
         NEW i \in DOMAIN s, NEW q \in DOMAIN s, Paired(s, i, q), i < p, p =< q,
         s[p].op \in {"look", "index"}, p + 1 = q \/ p = q
  PROVE  (f = "yes") <=> s[i].of \in m
  <1>1. ~Checked(s, p, q)
    <2> SUFFICES ASSUME Checked(s, p, q) PROVE FALSE
      OBVIOUS
    <2>1. PICK k \in p .. q - 1 : s[k].op = "check"
      BY DEF Checked
    <2>2. p \in Nat /\ q \in Nat
      BY DEF IsRoute
    <2>3. k = p
      BY <2>1, <2>2
    <2>4. QED BY <2>1, <2>3
  <1>2. QED BY <1>1 DEF Tells

(* A step that reads nothing leaves what is known of the last reading. *)
LEMMA StillTells ==
  ASSUME NEW s, IsRoute(s), NEW p \in DOMAIN s, NEW m, NEW f, NEW g, Tells(s, p, m, f),
         s[p].op \notin Reading,
         \/ s[p].op \in {"copy", "recover", "create"}
         \/ s[p].op = "write" /\ (f = "raised" => g \in {"no", "raised"})
                              /\ (f # "raised" => g \in {f, "raised"})
         \/ s[p].op # "write" /\ g = f /\ (s[p].op = "check" /\ s[p].when = "always" => f # "raised")
  PROVE  Tells(s, p + 1, m, g)
  <1> SUFFICES ASSUME NEW i \in DOMAIN s, NEW q \in DOMAIN s, Paired(s, i, q),
                      i < p + 1, p + 1 =< q
               PROVE  \/ (g = "yes") <=> s[i].of \in m
                      \/ g = "raised" /\ Checked(s, p + 1, q)
    BY DEF Tells
  <1>1. p \in Nat /\ i \in Nat /\ q \in Nat
    BY DEF IsRoute
  <1>2. i # p
    BY DEF Paired
  <1>3. i < p /\ p =< q
    BY <1>1, <1>2
  <1>4. /\ s[p].op \notin {"copy", "recover", "create"}
        /\ s[p].op = "write" => p < q /\ Checked(s, p + 1, q)
    BY <1>3, PairPlaces
  <1>5. \/ (f = "yes") <=> s[i].of \in m
        \/ f = "raised" /\ Checked(s, p, q)
    BY <1>3 DEF Tells
  <1>6. Checked(s, p, q) => /\ s[p].op # "write"
                            /\ Checked(s, p + 1, q) \/ (s[p].op = "check" /\ s[p].when = "always")
    <2> SUFFICES ASSUME Checked(s, p, q)
                 PROVE  /\ s[p].op # "write"
                        /\ Checked(s, p + 1, q) \/ (s[p].op = "check" /\ s[p].when = "always")
      OBVIOUS
    <2>1. PICK k \in p .. q - 1 : /\ s[k].op = "check" /\ s[k].when = "always"
                                  /\ \A j \in p .. k - 1 : s[j].op # "write"
      BY DEF Checked
    <2>2. CASE k = p
      BY <2>1, <2>2
    <2>3. CASE k # p
      <3>1. k \in p + 1 .. q - 1 /\ p \in p .. k - 1
        BY <1>1, <2>1, <2>3
      <3>2. \A j \in p + 1 .. k - 1 : s[j].op # "write"
        BY <1>1, <2>1, <3>1
      <3>3. QED BY <2>1, <3>1, <3>2 DEF Checked
    <2>4. QED BY <2>2, <2>3
  <1>7. CASE s[p].op = "write"
    BY <1>4, <1>5, <1>6, <1>7
  <1>8. CASE s[p].op # "write"
    BY <1>4, <1>5, <1>6, <1>8
  <1>9. QED BY <1>7, <1>8

(* Which step of a request is taken where. *)
LEMMA StepAt ==
  ASSUME NEW r, RequestStep(r), ~Arrive(r)
  PROVE  /\ Skip(r) \/ Applies(r) \/ Answer(r)
         /\ Applies(r) /\ Step(r).op = "look" => Look(r)
         /\ Applies(r) /\ Step(r).op = "index" => Index(r)
         /\ Applies(r) /\ Step(r).op = "check" => Check(r)
         /\ Applies(r) /\ Step(r).op = "read" => Read(r)
         /\ Applies(r) /\ Step(r).op = "parse" => Parse(r)
         /\ Applies(r) /\ Step(r).op = "extract" => Extract(r)
         /\ Index(r) => Step(r).op = "index" /\ Applies(r)
  <1> USE DEF At
  <1>1. CASE Skip(r) \/ Target(r) \/ Guard(r) \/ Fresh(r) \/ Copy(r)
    BY <1>1 DEF Skip, Target, Guard, Fresh, Copy, Index
  <1>2. CASE Read(r) \/ Parse(r) \/ Extract(r) \/ Recover(r) \/ Create(r)
    BY <1>2 DEF Read, Parse, Extract, Recover, Create, Index
  <1>3. CASE Drop(r) \/ Check(r) \/ Write(r) \/ Look(r) \/ Index(r)
    BY <1>3 DEF Drop, Check, Write, Look, Index
  <1>4. CASE Result(r) \/ Lose(r) \/ Seek(r) \/ Tag(r) \/ Carry(r)
    BY <1>4 DEF Result, Lose, Seek, Tag, Carry, Index
  <1>5. CASE Wipe(r) \/ Hit(r) \/ Custody(r) \/ Answer(r)
    BY <1>5 DEF Wipe, Hit, Custody, Answer, Index
  <1>6. QED BY <1>1, <1>2, <1>3, <1>4, <1>5 DEF RequestStep

(* What a step does to what its request knows, and to nobody else's. *)
LEMMA StepKnows ==
  ASSUME TypeInv, NEW r \in Requests, RequestStep(r), ~Arrive(r)
  PROVE  /\ UNCHANGED <<status, saw, healthy>>
         /\ \A q \in Requests : q # r => /\ found'[q] = found[q] /\ matched'[q] = matched[q]
                                         /\ clear'[q] = clear[q]
         /\ Step(r).op \notin Reading =>
               /\ matched'[r] = matched[r]
               /\ \/ Step(r).op \in {"copy", "recover", "create"}
                  \/ /\ Step(r).op = "write"
                     /\ found[r] = "raised" => found'[r] \in {"no", "raised"}
                     /\ found[r] # "raised" => found'[r] \in {found[r], "raised"}
                  \/ Step(r).op # "write" /\ found'[r] = found[r]
  <1> USE DEF At, TypeInv, DataType, world, Reading
  <1>1. CASE Skip(r) \/ Target(r) \/ Guard(r) \/ Fresh(r) \/ Copy(r)
    BY <1>1 DEF Skip, Target, Guard, Fresh, Copy
  <1>2. CASE Read(r) \/ Parse(r) \/ Extract(r)
    BY <1>2 DEF Read, Parse, Extract, Found
  <1>3. CASE Recover(r) \/ Create(r)
    BY <1>3 DEF Recover, Create
  <1>4. CASE Drop(r) \/ Check(r) \/ Write(r) \/ Look(r) \/ Index(r)
    BY <1>4 DEF Drop, Check, Write, Look, Index
  <1>5. CASE Result(r) \/ Lose(r) \/ Seek(r) \/ Tag(r) \/ Carry(r)
    BY <1>5 DEF Result, Lose, Seek, Tag, Carry
  <1>6. CASE Wipe(r) \/ Hit(r) \/ Custody(r) \/ Answer(r)
    BY <1>6 DEF Wipe, Hit, Custody, Answer
  <1>7. QED BY <1>1, <1>2, <1>3, <1>4, <1>5, <1>6 DEF RequestStep

(* Reading a file tells of that file alone. *)
LEMMA ReadingTells ==
  ASSUME TypeInv, NEW r \in Requests, Read(r) \/ Parse(r) \/ Extract(r)
  PROVE  matched'[r] = (matched[r] \ {Step(r).of})
                       \cup {c \in {Step(r).of} : found'[r] = "yes"}
  BY DEF Read, Parse, Extract, Found, TypeInv, DataType

(* Rows of a file stay when another one is recorded. *)
LEMMA OwnRowsStay ==
  ASSUME TypeInv, NEW r \in Requests, NEW q \in Requests, NEW c, RequestStep(r),
         RowsBy(q, c) \subseteq rows, UNCHANGED cast,
         \/ ~Index(r)
         \/ cast[q].kind # cast[r].kind
         \/ c # Step(r).of
         \/ found[r] = "yes" /\ r = q
  PROVE  RowsBy(q, c)' \subseteq rows'
  <1>1. RowsBy(q, c)' = RowsBy(q, c)
    BY CastStays
  <1>2. CASE UNCHANGED rows
    BY <1>1, <1>2
  <1>3. CASE /\ Index(r)
             /\ rows' = {x \in rows : x.source # SourceOf(r, Step(r).of)}
                        \cup {x \in RowsBy(r, Step(r).of) : found[r] = "yes"}
    <2>1. CASE cast[q].kind # cast[r].kind \/ c # Step(r).of
      <3>1. SourceOf(q, c) # SourceOf(r, Step(r).of)
        <4>1. SourceOf(q, c).path # SourceOf(r, Step(r).of).path
          BY <2>1 DEF SourceOf
        <4>2. QED BY <4>1
      <3>2. \A x \in RowsBy(q, c) : x.source = SourceOf(q, c)
        BY DEF RowsBy
      <3>3. QED BY <1>1, <1>3, <3>1, <3>2
    <2>2. CASE found[r] = "yes" /\ r = q /\ c = Step(r).of
      BY <1>1, <1>3, <2>2
    <2>3. QED BY <1>3, <2>1, <2>2
  <1>4. QED BY <1>2, <1>3, RowsKept, IndexRows

(* A request goes on to its next step. *)
LEMMA GoingOnFinds ==
  ASSUME AreRoutes, IndexAll, TypeInv, FindsInv, NEW r \in Requests,
         RequestStep(r), ~Arrive(r), Running(r)', Undisturbed(r)
  PROVE  /\ Tells(cast[r].steps, pc[r] + 1, matched'[r], found'[r])
         /\ \A c \in matched'[r] : \/ RowsBy(r, c)' \subseteq rows'
                                   \/ Ahead(cast[r].steps, pc[r] + 1, c)
                                   \/ Awaits(cast[r].steps, pc[r] + 1, c, clear'[r])
  <1> DEFINE s == cast[r].steps
             p == pc[r]
             Kept(c) == RowsBy(r, c)' \subseteq rows'
  <1>1. Running(r) /\ UNCHANGED cast
    BY WayOn
  <1>2. IsRoute(s) /\ p \in DOMAIN s /\ Step(r) = s[p]
    BY <1>1, StepType DEF TypeInv, Step
  <1>3. IndexesAll(s) /\ Indexing(s) /\ saw[r] = {"Open"} /\ healthy
    BY DEF TypeInv, PlaceInv, IndexAll, Undisturbed
  <1>4. /\ Tells(s, p, matched[r], found[r]) /\ status = "Open"
        /\ \A c \in matched[r] : \/ RowsBy(r, c) \subseteq rows
                                 \/ Ahead(s, p, c) \/ Awaits(s, p, c, clear[r])
    BY <1>1, <1>3 DEF FindsInv, FindsOf
  <1>5. s[p].when = "always" => Applies(r)
    BY <1>2 DEF Applies
  <1> HIDE DEF s, p
  <1>6. CASE s[p].op \in Reading
    <2>1. s[p].when = "always"
      BY <1>2, <1>3, <1>6 DEF IndexesAll
    <2>2. Read(r) \/ Parse(r) \/ Extract(r)
      BY <1>2, <1>5, <1>6, <2>1, StepAt DEF Reading
    <2>3. /\ matched'[r] = (matched[r] \ {s[p].of}) \cup {c \in {s[p].of} : found'[r] = "yes"}
          /\ ~Index(r)
      <3>1. ~Index(r)
        BY <1>2, <1>6, StepAt DEF Reading
      <3>2. QED BY <1>2, <2>2, <3>1, ReadingTells
    <2> DEFINE n == (matched[r] \ {s[p].of}) \cup {c \in {s[p].of} : found'[r] = "yes"}
    <2>4. /\ Tells(s, p + 1, n, found'[r])
          /\ \A c \in n : \/ c \in matched[r] /\ c # s[p].of
                          \/ Ahead(s, p + 1, c) \/ \A ok : Awaits(s, p + 1, c, ok)
      BY <1>2, <1>3, <1>6, AfterReading
    <2>5. ASSUME NEW c \in matched[r], c # s[p].of
          PROVE  Kept(c) \/ Ahead(s, p + 1, c)
      <3>1. ~Awaits(s, p, c, clear[r])
        BY <1>2, <1>6, StillAwaits
      <3>2. CASE RowsBy(r, c) \subseteq rows
        BY <1>1, <2>3, <3>2, OwnRowsStay
      <3>3. CASE Ahead(s, p, c)
        BY <1>2, <2>5, <3>3, StillAhead
      <3>4. QED BY <1>4, <3>1, <3>2, <3>3
    <2>6. n = matched'[r]
      BY <2>3
    <2> HIDE DEF n
    <2>7. \A c \in n : Kept(c) \/ Ahead(s, p + 1, c) \/ Awaits(s, p + 1, c, clear'[r])
      BY <2>4, <2>5
    <2>8. QED BY <2>4, <2>6, <2>7 DEF s, p
  <1>7. CASE s[p].op \notin Reading
    <2>1. /\ matched'[r] = matched[r]
          /\ \/ s[p].op \in {"copy", "recover", "create"}
             \/ s[p].op = "write" /\ (found[r] = "raised" => found'[r] \in {"no", "raised"})
                                  /\ (found[r] # "raised" => found'[r] \in {found[r], "raised"})
             \/ s[p].op # "write" /\ found'[r] = found[r]
      BY <1>2, <1>7, StepKnows
    <2>2. s[p].op = "check" /\ s[p].when = "always" => found[r] # "raised"
      <3>1. ASSUME Check(r), found[r] = "raised" PROVE ~Running(r)'
        BY <3>1, <1>1 DEF Check, Ends, Running, TypeInv, PlaceInv
      <3>2. QED BY <1>2, <1>5, <3>1, StepAt
    <2>3. Tells(s, p + 1, matched'[r], found'[r])
      BY <1>2, <1>4, <1>7, <2>1, <2>2, StillTells
    <2>4. ASSUME NEW c \in matched[r]
          PROVE  Kept(c) \/ Ahead(s, p + 1, c) \/ Awaits(s, p + 1, c, clear'[r])
      <3>1. CASE Ahead(s, p, c)
        BY <1>2, <1>7, <3>1, StillAhead
      <3>2. CASE Awaits(s, p, c, clear[r])
        <4>1. PICK i, q \in DOMAIN s : /\ Paired(s, i, q) /\ s[i].of = c /\ i < p /\ p =< q
                                       /\ p = q => clear[r]
          BY <3>2 DEF Awaits
        <4>2. ASSUME s[p].op \in {"look", "index"}, p + 1 = q \/ p = q
              PROVE  found[r] = "yes"
          BY <1>2, <1>4, <2>4, <4>1, <4>2, AwaitedIsFound
        <4>3. found[r] = "yes" /\ s[p].when \in {"always", "found", "went"} => Applies(r)
          BY <1>2 DEF Applies
        <4>4. i \in Nat /\ q \in Nat /\ p \in Nat
          BY <1>2 DEF IsRoute
        <4>5. /\ p = q => s[p].op = "index" /\ s[p].of = c
              /\ p + 1 = q => s[p].op = "look"
              /\ p = q \/ p + 1 = q => s[p].when \in {"always", "found", "went"}
          <5>1. s[q].op = "index" /\ s[q].of = c /\ s[q].when \in {"always", "found", "went"}
            BY <4>1 DEF Paired
          <5>2. p + 1 = q => s[p].op = "look" /\ s[p].when = s[q].when
            BY <1>2, <4>1, PairPlaces
          <5>3. QED BY <5>1, <5>2
        <4>6. CASE p = q
          <5>1. Index(r) /\ clear[r]
            BY <1>2, <4>1, <4>2, <4>3, <4>5, <4>6, StepAt
          <5>2. RowsBy(r, c) \subseteq rows'
            BY <1>2, <1>3, <4>2, <4>5, <4>6, <5>1 DEF Index
          <5>3. QED BY <1>1, <5>2, CastStays
        <4>7. CASE p + 1 = q
          <5>1. Look(r)
            BY <1>2, <4>2, <4>3, <4>5, <4>7, StepAt
          <5>2. clear'[r] = TRUE
            BY <1>4, <5>1 DEF Look, TypeInv, DataType
          <5>3. i < p + 1 /\ p + 1 =< q
            BY <4>1, <4>4, <4>7
          <5>4. QED BY <4>1, <5>2, <5>3 DEF Awaits
        <4>8. CASE p # q /\ p + 1 # q
          <5>1. i < p + 1 /\ p + 1 =< q
            BY <4>1, <4>4, <4>8
          <5>2. QED BY <4>1, <4>8, <5>1 DEF Awaits
        <4>9. QED BY <4>6, <4>7, <4>8
      <3>3. CASE RowsBy(r, c) \subseteq rows
        <4>1. CASE ~Index(r) \/ c # s[p].of
          BY <1>1, <1>2, <3>3, <4>1, OwnRowsStay
        <4>2. CASE Index(r) /\ c = s[p].of
          <5>1. s[p].op = "index"
            BY <1>2, <4>2, StepAt
          <5>2. PICK i \in DOMAIN s : Paired(s, i, p)
            BY <1>2, <1>3, <5>1 DEF IndexesAll
          <5>3. p \in Nat /\ i \in Nat /\ i < p /\ s[i].of = c
            BY <1>2, <4>2, <5>2 DEF Paired, IsRoute
          <5>4. found[r] = "yes"
            BY <1>2, <1>4, <2>4, <5>1, <5>2, <5>3, AwaitedIsFound
          <5>5. QED BY <1>1, <3>3, <5>4, OwnRowsStay
        <4>3. QED BY <4>1, <4>2
      <3>4. QED BY <1>4, <3>1, <3>2, <3>3
    <2>5. QED BY <2>1, <2>3, <2>4 DEF s, p
  <1>8. QED BY <1>6, <1>7

(* Only the answer says so, at the end of the route. *)
LEMMA Answering ==
  ASSUME AreRoutes, TypeInv, NEW r \in Requests, RequestStep(r), ~Arrive(r),
         answer'[r] \in {"done", "indexed"}
  PROVE  /\ UNCHANGED <<rows, matched>> /\ Step(r).op = "answer"
         /\ pc[r] = Len(cast[r].steps)
  <1>1. Running(r) /\ answer[r] = "running" /\ pc[r] \in DOMAIN cast[r].steps
        /\ IsRoute(cast[r].steps) /\ answer \in [Requests -> {"none", "running", "cut"} \cup Said]
    BY WayOn, StepType DEF TypeInv, PlaceInv, Running
  <1>2. ~GoesOn(r) /\ ~Ends(r, "refused") /\ ~Ends(r, "error")
    BY <1>1 DEF GoesOn, Ends
  <1>3. Answer(r)
    BY <1>2
    DEF RequestStep, Skip, Target, Guard, Fresh, Copy, Read, Parse, Extract, Recover,
        Create, Drop, Check, Write, Look, Index, Result, Lose, Seek, Tag, Carry, Wipe, Hit,
        Custody
  <1>4. UNCHANGED <<rows, matched>> /\ Step(r).op = "answer"
    BY <1>3 DEF Answer, index, world
  <1>5. QED BY <1>1, <1>4 DEF IsRoute, Step

(* A request of its own. *)
LEMMA OwnFinds ==
  ASSUME AreRoutes, IndexAll, TypeInv, FindsInv, NEW r \in Requests, RequestStep(r)
  PROVE  FindsOf(r)'
  <1> DEFINE s == cast[r].steps
  <1>0. FindsOf(r) /\ UNCHANGED cast /\ answer \in [Requests -> {"none", "running", "cut"} \cup Said]
    BY OwnPlace DEF FindsInv, TypeInv, PlaceInv
  <1>1. CASE Arrive(r)
    <2>1. /\ saw'[r] = {status} /\ UNCHANGED <<status, matched>>
          /\ pc'[r] = 1 /\ answer'[r] = "running" /\ answer[r] = "none"
      BY <1>1 DEF Arrive, TypeInv, DataType, PlaceInv
    <2>2. matched'[r] = {}
      BY <1>0, <2>1 DEF FindsOf
    <2>3. Tells(s, 1, matched'[r], found'[r])
      <3> SUFFICES ASSUME NEW i \in DOMAIN s, NEW q \in DOMAIN s, i < 1 PROVE FALSE
        BY DEF Tells
      <3>1. IsRoute(s)
        BY DEF AreRoutes, TypeInv, PlaceInv
      <3>2. i \in 1 .. Len(s)
        BY <3>1 DEF IsRoute
      <3>3. QED BY <3>2
    <2> HIDE DEF s
    <2>4. cast'[r].steps = s
      BY <1>0 DEF s
    <2>5. QED BY <2>1, <2>2, <2>3, <2>4 DEF FindsOf, Running
  <1>2. CASE ~Arrive(r)
    <2>1. /\ Running(r) /\ UNCHANGED <<status, saw, healthy>>
          /\ answer'[r] # "none"
      BY <1>2, WayOn, StepKnows, OwnPlace DEF TypeInv, Said
    <2>2. status \in saw[r]
      BY <1>0, <2>1 DEF FindsOf
    <2>3. Undisturbed(r)' => Undisturbed(r)
      BY <1>0, <2>1 DEF Undisturbed
    <2>4. CASE Running(r)'
      <3>1. pc'[r] = pc[r] + 1 /\ cast'[r].steps = s
        BY <1>0, <2>4, <1>2, <2>1, OwnPlace, WayOn DEF TypeInv, Ends, Said, Running, PlaceInv
      <3>2. answer'[r] \notin {"done", "indexed"}
        BY <2>4 DEF Running
      <3>3. Undisturbed(r)' =>
              /\ Tells(s, pc'[r], matched'[r], found'[r])
              /\ \A c \in matched'[r] : \/ RowsBy(r, c)' \subseteq rows'
                                        \/ Ahead(s, pc'[r], c)
                                        \/ Awaits(s, pc'[r], c, clear'[r])
        BY <1>2, <2>3, <2>4, <3>1, GoingOnFinds
      <3> HIDE DEF s
      <3>4. QED BY <2>1, <2>2, <3>1, <3>2, <3>3 DEF FindsOf
    <2>5. CASE ~Running(r)'
      <3> SUFFICES ASSUME Undisturbed(r)', answer'[r] \in {"done", "indexed"}, NEW c \in matched'[r]
                   PROVE  RowsBy(r, c)' \subseteq rows'
        BY <2>1, <2>5 DEF FindsOf
      <3>1. /\ UNCHANGED <<rows, matched>> /\ Step(r).op = "answer" /\ pc[r] = Len(s)
            /\ Undisturbed(r)
        BY <1>2, <2>3, Answering
      <3>2. RowsBy(r, c) \subseteq rows \/ Ahead(s, pc[r], c) \/ Awaits(s, pc[r], c, clear[r])
        BY <1>0, <2>1, <3>1 DEF FindsOf
      <3>3. IsRoute(s) /\ pc[r] \in DOMAIN s /\ s[pc[r]].op = "answer"
        BY <2>1, <3>1, StepType DEF TypeInv, Step
      <3>4. ~Ahead(s, pc[r], c)
        <4> SUFFICES ASSUME NEW i \in DOMAIN s, pc[r] =< i, s[i].op \in Reading PROVE FALSE
          BY DEF Ahead
        <4>1. i = pc[r]
          BY <3>1, <3>3 DEF IsRoute
        <4>2. QED BY <3>3, <4>1 DEF Reading
      <3>5. ~Awaits(s, pc[r], c, clear[r])
        BY <3>3, StillAwaits
      <3>6. QED BY <1>0, <3>1, <3>2, <3>4, <3>5, CastStays
    <2>6. QED BY <2>4, <2>5
  <1>3. QED BY <1>1, <1>2

(* Another one's. *)
LEMMA OthersFinds ==
  ASSUME AreRoutes, TypeInv, FindsInv, NEW r \in Requests, RequestStep(r),
         NEW q \in Requests, q # r
  PROVE  FindsOf(q)'
  <1> DEFINE s == cast[q].steps
  <1>1. pc'[q] = pc[q] /\ answer'[q] = answer[q] /\ UNCHANGED cast
    BY OthersPlace DEF TypeInv
  <1>2. found'[q] = found[q] /\ clear'[q] = clear[q]
    BY OthersFindings
  <1>3. /\ matched'[q] = matched[q] /\ saw'[q] = saw[q] /\ UNCHANGED <<status, healthy>>
    BY StepKnows DEF Arrive, TypeInv, DataType
  <1>4. Undisturbed(q)' => Undisturbed(q) /\ cast[r].kind # cast[q].kind
    BY <1>1, <1>3 DEF Undisturbed
  <1>5. ASSUME Undisturbed(q)', NEW c, RowsBy(q, c) \subseteq rows
        PROVE  RowsBy(q, c)' \subseteq rows'
    BY <1>1, <1>4, <1>5, OwnRowsStay
  <1>6. FindsOf(q)
    BY DEF FindsInv
  <1>7. cast'[q].steps = s
    BY <1>1
  <1>8. Undisturbed(q)' /\ Running(q) =>
           /\ Tells(s, pc[q], matched[q], found[q])
           /\ \A c \in matched[q] : \/ RowsBy(q, c)' \subseteq rows'
                                    \/ Ahead(s, pc[q], c) \/ Awaits(s, pc[q], c, clear[q])
    BY <1>4, <1>5, <1>6 DEF FindsOf
  <1>9. Undisturbed(q)' /\ answer[q] \in {"done", "indexed"} =>
           \A c \in matched[q] : RowsBy(q, c)' \subseteq rows'
    BY <1>4, <1>5, <1>6 DEF FindsOf
  <1>10. /\ answer[q] = "none" => matched[q] = {}
         /\ Running(q) => status \in saw[q]
    BY <1>6 DEF FindsOf
  <1> HIDE DEF s
  <1>11. QED
    BY <1>1, <1>2, <1>3, <1>7, <1>8, <1>9, <1>10 DEF FindsOf, Running

(* With the index at hand and the case open all along, a request that has  *)
(* the evidence to itself has, when it answers, all that it found in the   *)
(* index (_record_parsed_artifacts() and the loops of its callers).        *)
THEOREM FindsIndexed ==
  ASSUME AreRoutes, IndexAll PROVE Spec => []FindsAreIndexed
  <1>1. Init => FindsInv
    BY DEF Init, FindsInv, FindsOf, Running
  <1>2. ASSUME TypeInv, FindsInv, [Next]_vars PROVE FindsInv'
    <2>1. ASSUME NEW r \in Requests, RequestStep(r) PROVE FindsInv'
      BY <1>2, <2>1, OwnFinds, OthersFinds DEF FindsInv
    <2>2. CASE SetStatus \/ Restart \/ UNCHANGED vars
      <3>1. UNCHANGED <<cast, found, clear, rows, matched, healthy>>
        BY <2>2 DEF SetStatus, Restart, vars, index
      <3>2. \A r \in Requests :
               /\ saw[r] \subseteq saw'[r] /\ (~Running(r) => saw'[r] = saw[r])
               /\ Running(r)' => Running(r) /\ pc'[r] = pc[r] /\ (status' \in saw'[r] \/ status' = status)
               /\ answer'[r] \in {"none", "done", "indexed"} => answer[r] = answer'[r]
        BY <2>2 DEF SetStatus, Restart, vars, Running, TypeInv, DataType, PlaceInv
      <3>3. ASSUME NEW r \in Requests PROVE FindsOf(r)'
        <4> DEFINE s == cast[r].steps
        <4>1. FindsOf(r) /\ cast'[r].steps = s /\ \A c : UNCHANGED RowsBy(r, c)
          BY <1>2, <3>1, CastStays DEF FindsInv
        <4>2. Undisturbed(r)' /\ (Running(r)' \/ answer'[r] \in {"done", "indexed"}) => Undisturbed(r)
          <5>1. saw'[r] = {"Open"} /\ (Running(r) => status \in saw[r]) => \/ saw[r] = {"Open"}
                                                                         \/ ~Running(r)
            BY <3>2
          <5>2. ~Running(r) => saw'[r] = saw[r]
            BY <3>2
          <5>3. Undisturbed(r)' => saw[r] = {"Open"}
            BY <4>1, <5>1, <5>2 DEF FindsOf, Undisturbed
          <5>4. QED BY <3>1, <5>3 DEF Undisturbed
        <4>3. Running(r)' => status' \in saw'[r]
          BY <3>2, <4>1 DEF FindsOf
        <4>4. answer'[r] = "none" => matched'[r] = {}
          BY <3>1, <3>2, <4>1 DEF FindsOf
        <4>5. Undisturbed(r)' /\ Running(r)' =>
                /\ Tells(s, pc[r], matched[r], found[r]) /\ pc'[r] = pc[r]
                /\ \A c \in matched[r] : \/ RowsBy(r, c) \subseteq rows
                                         \/ Ahead(s, pc[r], c) \/ Awaits(s, pc[r], c, clear[r])
          BY <3>2, <4>1, <4>2 DEF FindsOf
        <4>6. Undisturbed(r)' /\ answer'[r] \in {"done", "indexed"} =>
                \A c \in matched[r] : RowsBy(r, c) \subseteq rows
          BY <3>2, <4>1, <4>2 DEF FindsOf
        <4> HIDE DEF s
        <4>7. QED BY <3>1, <4>1, <4>3, <4>4, <4>5, <4>6 DEF FindsOf
      <3>4. QED BY <3>3 DEF FindsInv
    <2>3. QED BY <1>2, <2>1, <2>2 DEF Next
  <1>3. FindsInv => FindsAreIndexed
    BY DEF FindsInv, FindsOf, FindsAreIndexed, Undisturbed, Indexing
  <1>4. QED BY <1>1, <1>2, <1>3, TypeInvariance, PTL DEF Spec

=============================================================================
