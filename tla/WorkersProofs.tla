---------------------------- MODULE WorkersProofs ----------------------------
(***************************************************************************)
(* Theorems about JobSlot and Workers, for every set of jobs and Stop      *)
(* requests. The slot comes first, with its general worker; the programs   *)
(* after it, which keep its protocol. What the tables of programs must be  *)
(* like for a theorem (IsAccount, IsLookout and IsAssessment) is assumed   *)
(* there, and found of the repository's by TLC.                            *)
(***************************************************************************)
EXTENDS Workers, TLAPS

(* The generations: claims are numbered apart and never ahead of the       *)
(* counter, a Stop's own generation is no claim's, and while that          *)
(* generation is current no claim is newer than the job it stopped.        *)
GenInv ==
    /\ \A j \in Jobs : claimGen[j] =< gen
    /\ \A j, k \in Jobs : claimGen[j] > 0 /\ claimGen[j] = claimGen[k] => j = k
    /\ stopSupGen =< gen
    /\ \A j \in Jobs : claimGen[j] # stopSupGen
    /\ stopSupGen = gen => \A j \in Jobs : claimGen[j] =< stoppedGen
    /\ \A j \in Jobs : req[j] # "idle" => claimGen[j] > 0
    /\ \A j \in Jobs : wk[j] # "none" => claimGen[j] > 0
    /\ \A j \in Jobs : wkGen[j] # NoGen => claimGen[j] > 0

IInv == TypeOK /\ GenInv

(* Init establishes the type invariant. *)
LEMMA InitTypeOK == ASSUME Init PROVE TypeOK
  <1>1. 0 \in 0 .. MaxRuns
    BY JobsAssumption
  <1>2. QED BY <1>1, JobsAssumption DEF Init, TypeOK, Statuses

(* The generation counter may always be bumped. *)
LEMMA NextGen == TypeOK => gen + 1 \in Nat
  <1>1. TypeOK => gen \in Nat
    BY DEF TypeOK
  <1>2. QED BY <1>1

(* A start request keeps the state well typed. *)
LEMMA StartTypeOK == ASSUME NEW j \in Jobs, TypeOK, Start(j) PROVE TypeOK'
  <1> USE DEF TypeOK, Statuses, Request, Freed, jobVars, genVars, stopVars
  <1>1. CASE Claim(j)
    BY <1>1, NextGen DEF Claim
  <1>2. CASE Refuse(j)
    BY <1>2 DEF Refuse
  <1>3. CASE Crash(j)
    BY <1>3 DEF Crash
  <1>4. CASE LeakCheck(j)
    BY <1>4 DEF LeakCheck
  <1>5. CASE LeakRelease(j)
    BY <1>5 DEF LeakRelease
  <1>6. CASE Initialise(j)
    BY <1>6 DEF Initialise
  <1>7. CASE Spawn(j)
    BY <1>7 DEF Spawn
  <1>8. QED BY <1>1, <1>2, <1>3, <1>4, <1>5, <1>6, <1>7 DEF Start

(* A tool is launched under an unused number within the bound. *)
LEMMA NextRun ==
  ASSUME NEW j \in Jobs, TypeOK, StartTool(j)
  PROVE  runs[j] + 1 \in 0 .. MaxRuns /\ <<j, runs[j] + 1>> \in Procs
  <1>1. runs[j] \in 0 .. MaxRuns /\ runs[j] < MaxRuns
    BY DEF TypeOK, StartTool
  <1>2. runs[j] + 1 \in 0 .. MaxRuns /\ runs[j] + 1 \in 1 .. MaxRuns
    BY <1>1, JobsAssumption
  <1>3. QED BY <1>2 DEF Procs

(* A worker thread keeps the state well typed. *)
LEMMA WorkTypeOK == ASSUME NEW j \in Jobs, TypeOK, Work(j) PROVE TypeOK'
  <1> USE DEF TypeOK, Statuses, Worker, Bind, Freed, jobVars,
          genVars, stopVars, AfterFinally
  <1>1. CASE BeginSuppress(j)
    BY <1>1 DEF BeginSuppress
  <1>2. CASE StartTool(j)
    BY <1>2, NextRun DEF StartTool
  <1>3. CASE StreamEnds(j)
    BY <1>3 DEF StreamEnds
  <1>4. CASE StreamReturns(j)
    BY <1>4 DEF StreamReturns
  <1>5. CASE Finally(j)
    BY <1>5 DEF Finally, WorkerFrees
  <1>6. CASE ClearCheck(j)
    BY <1>6 DEF ClearCheck
  <1>7. CASE ClearDrop(j)
    BY <1>7 DEF ClearDrop
  <1>8. CASE EndSuppress(j)
    BY <1>8 DEF EndSuppress
  <1>9. CASE FinalFree(j)
    BY <1>9 DEF FinalFree, WorkerFrees
  <1>10. CASE LogLine(j)
    BY <1>10 DEF LogLine, WriteLog
  <1>11. ASSUME NEW s \in Statuses, SetStatus(j, s) PROVE TypeOK'
    BY <1>11 DEF SetStatus, WriteStatus
  <1>12. CASE InnerFinally(j)
    BY <1>12 DEF InnerFinally, WorkerFrees
  <1>13. QED
    BY <1>1, <1>2, <1>3, <1>4, <1>5, <1>6, <1>7, <1>8, <1>9, <1>10, <1>11, <1>12
    DEF Work, Progress

(* Tools and Stop requests keep the state well typed. *)
LEMMA OtherTypeOK ==
  ASSUME TypeOK, \/ \E p \in Procs : ToolExits(p)
                 \/ \E s \in Stops : StopRequest(s)
  PROVE  TypeOK'
  <1> USE DEF TypeOK, Statuses, Stopping, Freed, jobVars, genVars, stopVars
  <1>1. ASSUME NEW p \in Procs, ToolExits(p) PROVE TypeOK'
    BY <1>1 DEF ToolExits
  <1>2. ASSUME NEW s \in Stops, StopRequest(s) PROVE TypeOK'
    <2>1. CASE StopCheck(s)
      BY <2>1 DEF StopCheck
    <2>2. CASE StopKill(s)
      BY <2>2 DEF StopKill, Kill
    <2>3. CASE StopKillNamed(s)
      BY <2>3 DEF StopKillNamed, Kill
    <2>4. CASE StopMark(s)
      BY <2>4 DEF StopMark
    <2>5. CASE StopSupersede(s)
      BY <2>5, NextGen DEF StopSupersede
    <2>6. QED BY <1>2, <2>1, <2>2, <2>3, <2>4, <2>5 DEF StopRequest
  <1>3. QED BY <1>1, <1>2

(* Type correctness of the job slot. *)
THEOREM TypeCorrect == Spec => []TypeOK
  <1>1. TypeOK /\ [Next]_vars => TypeOK'
    <2> SUFFICES ASSUME TypeOK, [Next]_vars PROVE TypeOK'
      OBVIOUS
    <2>1. CASE \E j \in Jobs : Start(j) \/ Work(j)
      BY <2>1, StartTypeOK, WorkTypeOK
    <2>2. CASE \/ \E p \in Procs : ToolExits(p)
               \/ \E s \in Stops : StopRequest(s)
      BY <2>2, OtherTypeOK
    <2>3. CASE UNCHANGED vars
      BY <2>3 DEF TypeOK, vars
    <2>4. QED BY <2>1, <2>2, <2>3 DEF Next
  <1>2. QED BY <1>1, InitTypeOK, PTL DEF Spec

-----------------------------------------------------------------------------
(* The generation invariant is inductive. *)

LEMMA InitGenInv == ASSUME Init PROVE GenInv
  BY DEF Init, GenInv, NoGen

(* A claim takes a generation above all others. *)
LEMMA ClaimGenInv == ASSUME NEW j \in Jobs, IInv, Claim(j) PROVE GenInv'
  <1>1. /\ gen \in Nat /\ claimGen \in [Jobs -> Nat]
        /\ stopSupGen \in Int /\ stoppedGen \in Int
    BY DEF IInv, TypeOK, NoGen
  <1>2. /\ gen' = gen + 1
        /\ claimGen' = [claimGen EXCEPT ![j] = gen + 1]
        /\ UNCHANGED <<stoppedGen, stopSupGen, wk, wkGen>>
    BY DEF Claim, stopVars
  <1>3. \A k \in Jobs : claimGen'[k] = IF k = j THEN gen + 1 ELSE claimGen[k]
    BY <1>1, <1>2
  <1>4. \A k \in Jobs : k # j => req'[k] = req[k]
    BY DEF Claim, Request, IInv, TypeOK
  <1>5. \A k \in Jobs : claimGen[k] =< gen
    BY DEF IInv, GenInv
  <1>6. QED BY <1>1, <1>2, <1>3, <1>4, <1>5 DEF IInv, GenInv

(* Supersession by Stop: the stopped generation is above every claim, the  *)
(* new one is no claim's. *)
LEMMA SupersedeGenInv ==
  ASSUME NEW s \in Stops, IInv, StopSupersede(s) PROVE GenInv'
  <1>1. /\ gen \in Nat /\ claimGen \in [Jobs -> Nat]
        /\ stopSupGen \in Int /\ stoppedGen \in Int
    BY DEF IInv, TypeOK, NoGen
  <1>2. UNCHANGED <<claimGen, req, wk, wkGen>>
    BY DEF StopSupersede
  <1>3. CASE stopSupGen = gen
    <2>1. UNCHANGED genVars
      BY <1>3 DEF StopSupersede
    <2>2. QED BY <1>2, <2>1 DEF IInv, GenInv, genVars
  <1>4. CASE stopSupGen # gen
    <2>1. stoppedGen' = gen /\ gen' = gen + 1 /\ stopSupGen' = gen + 1
      BY <1>4 DEF StopSupersede
    <2>2. QED BY <1>1, <1>2, <2>1 DEF IInv, GenInv
  <1>5. QED BY <1>3, <1>4

(* Every other step of a request leaves the generations alone. *)
LEMMA StartGenInv == ASSUME NEW j \in Jobs, IInv, Start(j) PROVE GenInv'
  <1>1. CASE Claim(j)
    BY <1>1, ClaimGenInv
  <1>2. CASE Spawn(j)
    <2>1. /\ UNCHANGED <<genVars, claimGen, wkGen>>
          /\ claimGen[j] > 0
          /\ \A k \in Jobs : k # j => req'[k] = req[k] /\ wk'[k] = wk[k]
      BY <1>2 DEF Spawn, Request, IInv, TypeOK, GenInv
    <2>2. QED BY <2>1 DEF IInv, GenInv, genVars
  <1>3. CASE \/ Refuse(j) \/ Crash(j) \/ LeakCheck(j) \/ LeakRelease(j)
             \/ Initialise(j)
    <2>1. /\ UNCHANGED <<genVars, claimGen, wk, wkGen>>
          /\ req[j] # "idle"
          /\ \A k \in Jobs : k # j => req'[k] = req[k]
      BY <1>3 DEF Refuse, Crash, LeakCheck, LeakRelease, Initialise, Request,
                  IInv, TypeOK
    <2>2. QED BY <2>1 DEF IInv, GenInv, genVars
  <1>4. QED BY <1>1, <1>2, <1>3 DEF Start

(* A worker only ever binds itself. *)
LEMMA WorkFrame ==
  ASSUME NEW j \in Jobs, TypeOK, Work(j)
  PROVE  /\ UNCHANGED <<genVars, claimGen, req>>
         /\ wk[j] # "none"
         /\ \A k \in Jobs : k # j => wk'[k] = wk[k] /\ wkGen'[k] = wkGen[k]
  <1> USE DEF TypeOK, Worker, Bind
  <1>1. CASE BeginSuppress(j)
    BY <1>1 DEF BeginSuppress
  <1>2. CASE StartTool(j)
    BY <1>2 DEF StartTool
  <1>3. CASE StreamEnds(j) \/ StreamReturns(j)
    BY <1>3 DEF StreamEnds, StreamReturns
  <1>4. CASE Finally(j)
    BY <1>4 DEF Finally, WorkerFrees
  <1>5. CASE ClearCheck(j) \/ ClearDrop(j)
    BY <1>5 DEF ClearCheck, ClearDrop
  <1>6. CASE EndSuppress(j)
    BY <1>6 DEF EndSuppress
  <1>7. CASE FinalFree(j)
    BY <1>7 DEF FinalFree, WorkerFrees
  <1>8. CASE LogLine(j)
    BY <1>8 DEF LogLine, WriteLog
  <1>9. ASSUME NEW s \in Statuses, SetStatus(j, s)
        PROVE  /\ UNCHANGED <<genVars, claimGen, req>>
               /\ wk[j] # "none"
               /\ \A k \in Jobs : k # j => wk'[k] = wk[k] /\ wkGen'[k] = wkGen[k]
    BY <1>9 DEF SetStatus, WriteStatus
  <1>10. CASE InnerFinally(j)
    BY <1>10 DEF InnerFinally, WorkerFrees
  <1>11. QED BY <1>1, <1>2, <1>3, <1>4, <1>5, <1>6, <1>7, <1>8, <1>9, <1>10
         DEF Work, Progress

(* The invariant is inductive. *)
LEMMA NextIInv == ASSUME IInv, [Next]_vars PROVE IInv'
  <1>1. ASSUME NEW j \in Jobs, Start(j) PROVE IInv'
    BY <1>1, StartTypeOK, StartGenInv DEF IInv
  <1>2. ASSUME NEW j \in Jobs, Work(j) PROVE IInv'
    <2>1. GenInv'
      BY <1>2, WorkFrame DEF IInv, GenInv, genVars
    <2>2. QED BY <1>2, <2>1, WorkTypeOK DEF IInv
  <1>3. ASSUME NEW p \in Procs, ToolExits(p) PROVE IInv'
    BY <1>3, OtherTypeOK DEF IInv, GenInv, ToolExits, genVars
  <1>4. ASSUME NEW s \in Stops, StopRequest(s) PROVE IInv'
    <2>1. CASE StopSupersede(s)
      BY <2>1, <1>4, SupersedeGenInv, OtherTypeOK DEF IInv
    <2>2. CASE StopCheck(s) \/ StopKill(s) \/ StopKillNamed(s) \/ StopMark(s)
      BY <2>2, <1>4, OtherTypeOK
      DEF IInv, GenInv, StopCheck, StopKill, StopKillNamed, StopMark, genVars
    <2>3. QED BY <1>4, <2>1, <2>2 DEF StopRequest
  <1>5. CASE UNCHANGED vars
    BY <1>5 DEF IInv, GenInv, TypeOK, vars
  <1>6. QED BY <1>1, <1>2, <1>3, <1>4, <1>5 DEF Next

(* The inductive invariant holds throughout. *)
THEOREM Invariance == Spec => []IInv
  <1>1. Init => IInv
    BY InitTypeOK, InitGenInv DEF IInv
  <1>2. IInv /\ [Next]_vars => IInv'
    BY NextIInv
  <1>3. QED BY <1>1, <1>2, PTL DEF Spec

(* A bound worker with a newer claim against it is not admitted. *)
LEMMA NewerClaimShutsOut ==
  ASSUME IInv, NEW j \in Jobs, BoundToOwnClaim(j), NewerClaim(j)
  PROVE  Stale(j) /\ ~SupersededByStopOnly(j)
  <1>1. PICK k \in Jobs : claimGen[k] > claimGen[j]
    BY DEF NewerClaim
  <1>2. /\ gen \in Nat /\ claimGen[j] \in Nat /\ claimGen[k] \in Nat
        /\ stoppedGen \in Int /\ stopSupGen \in Int
    BY DEF IInv, TypeOK, NoGen
  <1>3. claimGen[k] =< gen /\ (stopSupGen = gen => claimGen[k] =< stoppedGen)
    BY DEF IInv, GenInv
  <1>4. QED BY <1>1, <1>2, <1>3 DEF BoundToOwnClaim, Stale, SupersededByStopOnly

(* The guard of update_job() admits at most one bound worker, for every    *)
(* number of jobs and of Stop requests in any order.                       *)
THEOREM OneAdmitted == Spec => []OneAdmittedWorker
  <1>1. IInv => OneAdmittedWorker
    <2> SUFFICES ASSUME IInv, NEW j \in Jobs, NEW k \in Jobs,
                        BoundToOwnClaim(j), Admitted(j),
                        BoundToOwnClaim(k), Admitted(k)
                 PROVE  j = k
      BY DEF OneAdmittedWorker
    <2>1. ~NewerClaim(j) /\ ~NewerClaim(k)
      BY NewerClaimShutsOut DEF Admitted
    <2>2. claimGen[j] \in Nat /\ claimGen[k] \in Nat
      BY DEF IInv, TypeOK
    <2>3. claimGen[j] = claimGen[k]
      BY <2>1, <2>2 DEF NewerClaim
    <2>4. claimGen[j] > 0
      BY DEF IInv, GenInv, BoundToOwnClaim
    <2>5. QED BY <2>3, <2>4 DEF IInv, GenInv
  <1>2. QED BY <1>1, Invariance, PTL

(* A superseded worker changes nothing of the newer job's record. *)
THEOREM SupersededSilent == Spec => SupersededWorkerIsSilent
  <1>1. ASSUME IInv, NEW j \in Jobs, Work(j), BoundToOwnClaim(j), NewerClaim(j)
        PROVE  UNCHANGED jobVars
    <2>1. Stale(j) /\ ~SupersededByStopOnly(j)
      BY <1>1, NewerClaimShutsOut
    <2> USE <2>1 DEF jobVars
    <2>2. CASE LogLine(j)
      BY <2>2 DEF LogLine, WriteLog
    <2>3. ASSUME NEW s \in Statuses, SetStatus(j, s) PROVE UNCHANGED jobVars
      BY <2>3 DEF SetStatus, WriteStatus
    <2>4. CASE Finally(j) \/ InnerFinally(j) \/ FinalFree(j)
      BY <2>4 DEF Finally, InnerFinally, FinalFree, WorkerFrees
    <2>5. CASE \/ BeginSuppress(j) \/ StartTool(j) \/ StreamEnds(j)
               \/ StreamReturns(j) \/ ClearCheck(j) \/ ClearDrop(j)
               \/ EndSuppress(j)
      BY <2>5 DEF BeginSuppress, StartTool, StreamEnds, StreamReturns,
                  ClearCheck, ClearDrop, EndSuppress
    <2>6. QED BY <1>1, <2>2, <2>3, <2>4, <2>5 DEF Work, Progress
  <1>2. IInv => \A j \in Jobs : Work(j) /\ BoundToOwnClaim(j) /\ NewerClaim(j)
                                 => UNCHANGED jobVars
    BY <1>1
  <1>3. QED BY <1>2, Invariance, PTL DEF SupersededWorkerIsSilent

-----------------------------------------------------------------------------
(* Nobody presses Stop.                                                    *)

(* The job is between its claim and its release. *)
Inside(j) ==
    \/ req[j] \in {"validating", "starting", "leaked"}
    \/ wk[j] \in {"suppressing", "work", "stream", "wait", "report", "free"}
    \/ j \in Held /\ wk[j] \in {"clear", "drop"}

(* A held run between begin_ and end_suppress_active_false(). *)
Suppressing(j) ==
    j \in Held /\ wk[j] \in {"work", "stream", "wait", "report", "clear", "drop"}

(* A job inside has the slot and the latest claim, ... *)
InsideHolds == \A j \in Jobs : Inside(j) => active /\ claimGen[j] = gen

(* ... and a busy slot has such a job, or a failed request about to look   *)
(* whether it is still its own.                                            *)
BusyIsHeld ==
    active => \E j \in Jobs : /\ claimGen[j] = gen /\ claimGen[j] > 0
                              /\ Inside(j) \/ req[j] = "erring"

(* The flag is up just while a held run is at work. *)
SuppressInv ==
    /\ \A j \in Jobs : Suppressing(j) => suppress
    /\ suppress => \E j \in Jobs : Suppressing(j)

(* A thread belongs to an answered request, is bound to its own claim and  *)
(* bound by the time its `finally' is over.                                *)
ThreadInv ==
    \A j \in Jobs :
        /\ wk[j] # "none" => req[j] = "over"
        /\ wkGen[j] # NoGen => wk[j] # "none" /\ wkGen[j] = claimGen[j]
        /\ wk[j] \in {"clear", "drop"} => wkGen[j] # NoGen
        /\ wk[j] \in {"suppressing", "free"} => j \in Held
        /\ req[j] = "idle" => claimGen[j] = 0

(* The only tool that runs is the last one of a worker that streams it. *)
ToolInv ==
    \A j \in Jobs : \A n \in 1 .. MaxRuns :
        proc[<<j, n>>] = "running" => wk[j] = "stream" /\ n = runs[j]

QuietInv == InsideHolds /\ BusyIsHeld /\ SuppressInv /\ ThreadInv /\ ToolInv

LEMMA InitQuietInv == ASSUME Init PROVE QuietInv
  BY DEF Init, QuietInv, Inside, Suppressing, InsideHolds, BusyIsHeld,
         SuppressInv, ThreadInv, ToolInv, Procs, NoGen

(* Of two jobs inside there is only one. *)
LEMMA OneInside ==
  ASSUME IInv, QuietInv, NEW j \in Jobs, Inside(j)
  PROVE  /\ active = TRUE /\ claimGen[j] = gen /\ gen > 0
         /\ \A k \in Jobs : k # j => ~Inside(k) /\ claimGen[k] # gen
         /\ ~NewerClaim(j)
  <1>1. active = TRUE /\ claimGen[j] = gen
    BY DEF IInv, TypeOK, QuietInv, InsideHolds
  <1>2. claimGen[j] > 0
    BY DEF IInv, GenInv, Inside
  <1>3. \A k \in Jobs : k # j => claimGen[k] # gen
    BY <1>1, <1>2 DEF IInv, GenInv
  <1>4. ~NewerClaim(j)
    BY <1>1 DEF NewerClaim, IInv, GenInv, TypeOK
  <1>5. QED BY <1>1, <1>2, <1>3, <1>4 DEF QuietInv, InsideHolds

(* A thread inside is never stale. *)
LEMMA InsideIsCurrent ==
  ASSUME IInv, QuietInv, NEW j \in Jobs, Inside(j), Bind(j)
  PROVE  ~Stale(j) /\ wkGen'[j] = claimGen[j]
         /\ \A k \in Jobs : k # j => wkGen'[k] = wkGen[k]
  BY OneInside DEF QuietInv, ThreadInv, Stale, Bind, IInv, TypeOK

LEMMA ClaimQuiet ==
  ASSUME IInv, QuietInv, NEW j \in Jobs, Claim(j) PROVE QuietInv'
  <1>1. /\ req' = [req EXCEPT ![j] = "validating"] /\ req[j] = "idle"
        /\ active = FALSE /\ active' = TRUE /\ gen' = gen + 1
        /\ claimGen' = [claimGen EXCEPT ![j] = gen + 1]
        /\ UNCHANGED <<suppress, proc, wk, wkGen, runs>>
    BY DEF Claim, Request, IInv, TypeOK
  <1>2. \A k \in Jobs : ~Inside(k)
    BY <1>1 DEF QuietInv, InsideHolds
  <1>3. wk[j] = "none" /\ wkGen[j] = NoGen
    BY <1>1 DEF QuietInv, ThreadInv
  <1>4. \A k \in Jobs : k # j => /\ req'[k] = req[k] /\ claimGen'[k] = claimGen[k]
                                /\ ~Inside(k)'
    BY <1>1, <1>2 DEF Inside, IInv, TypeOK
  <1>5. req'[j] = "validating" /\ claimGen'[j] = gen + 1 /\ gen + 1 > 0
    BY <1>1 DEF IInv, TypeOK
  <1>6. InsideHolds' /\ BusyIsHeld'
    BY <1>1, <1>4, <1>5 DEF InsideHolds, BusyIsHeld, Inside
  <1>7. SuppressInv' /\ ToolInv'
    BY <1>1 DEF QuietInv, SuppressInv, Suppressing, ToolInv
  <1>8. ThreadInv'
    BY <1>1, <1>3, <1>4, <1>5 DEF QuietInv, ThreadInv
  <1>9. QED BY <1>6, <1>7, <1>8 DEF QuietInv

(* The flag is down where the slot is given back. *)
LEMMA ReleaseFrees ==
  ASSUME IInv, QuietInv, NEW j \in Jobs, Inside(j), ~Suppressing(j)
  PROVE  suppress = FALSE
  <1>1. \A k \in Jobs : Suppressing(k) => Inside(k)
    BY DEF Suppressing, Inside
  <1>2. QED BY <1>1, OneInside DEF QuietInv, SuppressInv, IInv, TypeOK

(* Once a job inside has left and the slot is free, nobody is inside. *)
LEMMA LeavesFree ==
  ASSUME IInv, QuietInv, NEW j \in Jobs, Inside(j), ~Inside(j)', active' = FALSE,
         \A k \in Jobs : k # j => req'[k] = req[k] /\ wk'[k] = wk[k]
  PROVE  InsideHolds' /\ BusyIsHeld'
  <1>1. \A k \in Jobs : ~Inside(k)'
    BY OneInside DEF Inside
  <1>2. QED BY <1>1 DEF InsideHolds, BusyIsHeld

(* The steps of a request that spawn no thread. *)
LEMMA RequestQuiet ==
  ASSUME IInv, QuietInv, NEW j \in Jobs,
         \/ Refuse(j) \/ Crash(j) \/ LeakCheck(j) \/ LeakRelease(j) \/ Initialise(j)
  PROVE  QuietInv'
  <1>1. /\ UNCHANGED <<gen, claimGen, suppress, proc, wk, wkGen, runs>>
        /\ req[j] \notin {"idle", "over"} /\ req'[j] # "idle"
        /\ \A k \in Jobs : k # j => req'[k] = req[k]
    BY DEF Refuse, Crash, LeakCheck, LeakRelease, Initialise, Request, genVars,
           IInv, TypeOK
  <1>2. wk[j] = "none"
    BY <1>1 DEF QuietInv, ThreadInv
  <1>3. SuppressInv' /\ ToolInv'
    BY <1>1 DEF QuietInv, SuppressInv, Suppressing, ToolInv
  <1>4. ThreadInv'
    BY <1>1, <1>2 DEF QuietInv, ThreadInv
  <1>5. \A k \in Jobs : k # j => (Inside(k)' <=> Inside(k))
    BY <1>1 DEF Inside
  <1>6. CASE Refuse(j) \/ LeakRelease(j)
    <2>1. /\ Inside(j) /\ ~Suppressing(j) /\ active' = Freed
          /\ req'[j] \in {"erring", "over"}
      BY <1>2, <1>6 DEF Refuse, LeakRelease, Request, Inside, Suppressing, IInv, TypeOK
    <2>2. active' = FALSE
      BY <2>1, ReleaseFrees DEF Freed
    <2>3. ~Inside(j)'
      BY <1>1, <1>2, <2>1 DEF Inside
    <2>4. QED BY <1>1, <1>3, <1>4, <2>1, <2>2, <2>3, LeavesFree DEF QuietInv
  <1>7. CASE Crash(j) \/ Initialise(j)
    <2>1. /\ Inside(j) /\ UNCHANGED active
          /\ req'[j] \in {"erring", "starting"}
      BY <1>7 DEF Crash, Initialise, Request, Inside, IInv, TypeOK, jobVars
    <2>2. InsideHolds'
      BY <1>1, <1>5, <2>1 DEF QuietInv, InsideHolds
    <2>3. BusyIsHeld'
      BY <1>1, <2>1, OneInside DEF BusyIsHeld, Inside
    <2>4. QED BY <1>3, <1>4, <2>2, <2>3 DEF QuietInv
  <1>8. CASE LeakCheck(j)
    <2>1. /\ UNCHANGED active /\ req[j] = "erring"
          /\ req'[j] = IF active /\ gen = claimGen[j] THEN "leaked" ELSE "over"
      BY <1>8 DEF LeakCheck, Request, IInv, TypeOK, jobVars
    <2>2. InsideHolds'
      BY <1>1, <1>2, <1>5, <2>1 DEF QuietInv, InsideHolds, Inside
    <2>3. ASSUME active PROVE BusyIsHeld'
      <3>1. PICK k \in Jobs : /\ claimGen[k] = gen /\ claimGen[k] > 0
                              /\ Inside(k) \/ req[k] = "erring"
        BY <2>3 DEF QuietInv, BusyIsHeld
      <3>2. CASE k = j
        <4>1. Inside(j)'
          BY <2>1, <2>3, <3>1, <3>2 DEF Inside
        <4>2. QED BY <1>1, <3>1, <3>2, <4>1 DEF BusyIsHeld
      <3>3. CASE k # j
        BY <1>1, <1>5, <3>1, <3>3 DEF BusyIsHeld
      <3>4. QED BY <3>2, <3>3
    <2>4. QED BY <1>3, <1>4, <2>1, <2>2, <2>3 DEF QuietInv, BusyIsHeld
  <1>9. QED BY <1>6, <1>7, <1>8

LEMMA SpawnQuiet ==
  ASSUME IInv, QuietInv, NEW j \in Jobs, Spawn(j) PROVE QuietInv'
  <1>1. /\ UNCHANGED <<active, gen, claimGen, suppress, proc, wkGen, runs>>
        /\ req[j] \in {"starting", "validating"} /\ req'[j] = "over"
        /\ wk'[j] = IF j \in Held THEN "suppressing" ELSE "work"
        /\ \A k \in Jobs : k # j => req'[k] = req[k] /\ wk'[k] = wk[k]
    BY DEF Spawn, Request, genVars, jobVars, IInv, TypeOK
  <1>2. wk[j] = "none" /\ wkGen[j] = NoGen /\ Inside(j) /\ Inside(j)'
    BY <1>1 DEF QuietInv, ThreadInv, Inside
  <1>3. \A k \in Jobs : k # j => (Inside(k)' <=> Inside(k))
    BY <1>1 DEF Inside
  <1>4. InsideHolds' /\ BusyIsHeld'
    BY <1>1, <1>2, <1>3, OneInside DEF QuietInv, InsideHolds, BusyIsHeld
  <1>5. \A k \in Jobs : Suppressing(k)' <=> Suppressing(k)
    BY <1>1, <1>2 DEF Suppressing
  <1>6. SuppressInv'
    BY <1>1, <1>5 DEF QuietInv, SuppressInv
  <1>7. ThreadInv'
    BY <1>1, <1>2 DEF QuietInv, ThreadInv
  <1>8. ToolInv'
    BY <1>1, <1>2 DEF QuietInv, ToolInv
  <1>9. QED BY <1>4, <1>6, <1>7, <1>8 DEF QuietInv

(* What a step of a thread that stays inside leaves in place. *)
LEMMA StaysInside ==
  ASSUME IInv, QuietInv, NEW j \in Jobs, Work(j), Inside(j), Inside(j)',
         UNCHANGED active
  PROVE  InsideHolds' /\ BusyIsHeld'
  <1>1. /\ UNCHANGED <<gen, claimGen, req>>
        /\ \A k \in Jobs : k # j => wk'[k] = wk[k]
    BY WorkFrame DEF IInv, genVars
  <1>2. \A k \in Jobs : k # j => ~Inside(k)'
    BY <1>1, OneInside DEF Inside
  <1>3. QED BY <1>1, <1>2, OneInside DEF InsideHolds, BusyIsHeld

(* Threads stay bound to their own claims. *)
LEMMA ThreadsQuiet ==
  ASSUME IInv, QuietInv, NEW j \in Jobs, Work(j), wk'[j] # "none",
         \/ UNCHANGED wkGen /\ wk'[j] \notin {"clear", "drop"}
         \/ UNCHANGED wkGen /\ wk[j] \in {"clear", "drop"}
         \/ Bind(j) /\ Inside(j)
         \/ Bind(j) /\ wk[j] \in {"clear", "drop"},
         wk'[j] \in {"suppressing", "free"} => j \in Held
  PROVE  ThreadInv'
  <1>1. /\ UNCHANGED <<gen, claimGen, req>> /\ wk[j] # "none"
        /\ \A k \in Jobs : k # j => wk'[k] = wk[k] /\ wkGen'[k] = wkGen[k]
    BY WorkFrame DEF IInv, genVars
  <1>2. claimGen[j] \in Nat /\ NoGen \notin Nat
    BY DEF IInv, TypeOK, NoGen
  <1>3. CASE UNCHANGED wkGen /\ (\/ wk'[j] \notin {"clear", "drop"}
                                 \/ wk[j] \in {"clear", "drop"})
    BY <1>1, <1>3 DEF QuietInv, ThreadInv
  <1>4. CASE Bind(j) /\ Inside(j)
    <2>1. wkGen'[j] = claimGen[j]
      BY <1>4, InsideIsCurrent
    <2>2. QED BY <1>1, <1>2, <2>1 DEF QuietInv, ThreadInv
  <1>5. CASE Bind(j) /\ wk[j] \in {"clear", "drop"}
    <2>1. wkGen[j] # NoGen
      BY <1>5 DEF QuietInv, ThreadInv
    <2>2. wkGen'[j] = wkGen[j]
      BY <1>5, <2>1 DEF Bind, IInv, TypeOK
    <2>3. QED BY <1>1, <2>1, <2>2 DEF QuietInv, ThreadInv
  <1>6. QED BY <1>3, <1>4, <1>5

(* A step that launches no tool and does not leave the stream. *)
LEMMA ToolsQuiet ==
  ASSUME IInv, QuietInv, NEW j \in Jobs, Work(j), UNCHANGED <<proc, runs>>,
         wk'[j] = "stream" \/ wk[j] # "stream"
  PROVE  ToolInv'
  <1>1. \A k \in Jobs : k # j => wk'[k] = wk[k]
    BY WorkFrame DEF IInv
  <1>2. QED BY <1>1 DEF QuietInv, ToolInv

(* A step that neither raises nor drops the flag. *)
LEMMA FlagQuiet ==
  ASSUME IInv, QuietInv, NEW j \in Jobs, Work(j), UNCHANGED suppress,
         Suppressing(j)' <=> Suppressing(j)
  PROVE  SuppressInv'
  <1>1. \A k \in Jobs : k # j => (Suppressing(k)' <=> Suppressing(k))
    BY WorkFrame DEF IInv, Suppressing
  <1>2. QED BY <1>1 DEF QuietInv, SuppressInv

(* The steps of a thread, most of them inside. *)
LEMMA WorkQuiet ==
  ASSUME IInv, QuietInv, NEW j \in Jobs, Work(j) PROVE QuietInv'
  <1> USE DEF Worker
  <1>0. wk \in [Jobs -> {"none", "suppressing", "work", "stream", "wait",
                         "report", "clear", "drop", "free", "over"}]
    BY DEF IInv, TypeOK
  <1>1. CASE LogLine(j) \/ (\E s \in Statuses : SetStatus(j, s))
    <2>1. /\ UNCHANGED <<active, suppress, proc, req, wk, runs>> /\ Bind(j)
          /\ wk[j] \in {"work", "stream", "report"}
      BY <1>1 DEF LogLine, WriteLog, SetStatus, WriteStatus, genVars
    <2>2. Inside(j) /\ Inside(j)'
      BY <2>1 DEF Inside
    <2>3. InsideHolds' /\ BusyIsHeld'
      BY <2>1, <2>2, StaysInside
    <2>4. ThreadInv'
      BY <2>1, <2>2, ThreadsQuiet
    <2>5. SuppressInv' /\ ToolInv'
      BY <2>1 DEF QuietInv, SuppressInv, Suppressing, ToolInv
    <2>6. QED BY <2>3, <2>4, <2>5 DEF QuietInv
  <1>2. CASE BeginSuppress(j)
    <2>1. /\ UNCHANGED <<active, proc, req, wkGen, runs>> /\ suppress' = TRUE
          /\ wk[j] = "suppressing" /\ wk'[j] = "work"
      BY <1>0, <1>2 DEF BeginSuppress, jobVars
    <2>2. Inside(j) /\ Inside(j)' /\ j \in Held
      BY <2>1 DEF Inside, QuietInv, ThreadInv
    <2>3. InsideHolds' /\ BusyIsHeld'
      BY <2>1, <2>2, StaysInside
    <2>4. ThreadInv'
      BY <2>1, <2>2, ThreadsQuiet
    <2>5. SuppressInv'
      BY <2>1, <2>2 DEF SuppressInv, Suppressing
    <2>6. ToolInv'
      BY <2>1, ToolsQuiet
    <2>7. QED BY <2>3, <2>4, <2>5, <2>6 DEF QuietInv
  <1>3. CASE StartTool(j)
    <2>1. /\ UNCHANGED <<active, suppress, req, wkGen>>
          /\ wk[j] \in {"work", "report"} /\ wk'[j] = "stream"
          /\ runs' = [runs EXCEPT ![j] = @ + 1]
          /\ proc' = [proc EXCEPT ![<<j, runs[j] + 1>>] = "running"]
      BY <1>0, <1>3 DEF StartTool, jobVars
    <2>2. Inside(j) /\ Inside(j)' /\ (Suppressing(j)' <=> Suppressing(j))
      BY <2>1 DEF Inside, Suppressing
    <2>3. InsideHolds' /\ BusyIsHeld'
      BY <2>1, <2>2, StaysInside
    <2>4. ThreadInv'
      BY <2>1, <2>2, ThreadsQuiet
    <2>5. SuppressInv'
      BY <2>1, <2>2, FlagQuiet
    <2>6. ASSUME NEW k \in Jobs, NEW n \in 1 .. MaxRuns, proc'[<<k, n>>] = "running"
          PROVE  wk'[k] = "stream" /\ n = runs'[k]
      <3>1. <<k, n>> \in Procs /\ <<j, runs[j] + 1>> \in Procs
        BY <1>3, NextRun DEF Procs, IInv
      <3>2. CASE <<k, n>> = <<j, runs[j] + 1>>
        BY <2>1, <3>2 DEF IInv, TypeOK
      <3>3. CASE <<k, n>> # <<j, runs[j] + 1>>
        <4>1. proc[<<k, n>>] = "running"
          BY <2>1, <2>6, <3>1, <3>3 DEF IInv, TypeOK
        <4>2. wk[k] = "stream" /\ n = runs[k]
          BY <4>1 DEF QuietInv, ToolInv
        <4>3. k # j
          BY <2>1, <4>2
        <4>4. wk'[k] = wk[k] /\ runs'[k] = runs[k]
          BY <2>1, <4>3, WorkFrame DEF IInv, TypeOK
        <4>5. QED BY <4>2, <4>4
      <3>4. QED BY <3>2, <3>3
    <2>7. ToolInv'
      BY <2>6 DEF ToolInv
    <2>8. QED BY <2>3, <2>4, <2>5, <2>7 DEF QuietInv
  <1>4. CASE StreamEnds(j) \/ StreamReturns(j)
    <2>1. /\ UNCHANGED <<active, suppress, proc, req, wkGen, runs>>
          /\ wk[j] \in {"stream", "wait"} /\ wk'[j] \in {"wait", "report"}
          /\ wk[j] = "stream" => proc[<<j, runs[j]>>] # "running"
      BY <1>0, <1>4 DEF StreamEnds, StreamReturns, jobVars
    <2>2. Inside(j) /\ Inside(j)' /\ (Suppressing(j)' <=> Suppressing(j))
      BY <2>1 DEF Inside, Suppressing
    <2>3. InsideHolds' /\ BusyIsHeld'
      BY <2>1, <2>2, StaysInside
    <2>4. ThreadInv'
      BY <2>1, <2>2, ThreadsQuiet
    <2>5. SuppressInv'
      BY <2>1, <2>2, FlagQuiet
    <2>6. \A k \in Jobs : k # j => wk'[k] = wk[k]
      BY WorkFrame DEF IInv
    <2>7. ToolInv'
      BY <2>1, <2>6 DEF QuietInv, ToolInv
    <2>8. QED BY <2>3, <2>4, <2>5, <2>7 DEF QuietInv
  <1>5. CASE EndSuppress(j)
    <2>1. /\ UNCHANGED <<active, proc, req, wkGen, runs>> /\ suppress' = FALSE
          /\ wk[j] = "work" /\ wk'[j] = "free" /\ j \in Held
      BY <1>0, <1>5 DEF EndSuppress, jobVars
    <2>2. Inside(j) /\ Inside(j)'
      BY <2>1 DEF Inside
    <2>3. InsideHolds' /\ BusyIsHeld'
      BY <2>1, <2>2, StaysInside
    <2>4. ThreadInv'
      BY <2>1, <2>2, ThreadsQuiet
    <2>5. \A k \in Jobs : k # j => ~Suppressing(k) /\ wk'[k] = wk[k]
      BY <2>2, OneInside, WorkFrame DEF IInv, Inside, Suppressing
    <2>6. SuppressInv'
      BY <2>1, <2>5 DEF SuppressInv, Suppressing
    <2>7. ToolInv'
      BY <2>1, ToolsQuiet
    <2>8. QED BY <2>3, <2>4, <2>6, <2>7 DEF QuietInv
  <1>6. CASE FinalFree(j) \/ (j \notin Held /\ Finally(j))
    <2>1. /\ UNCHANGED <<suppress, proc, req, runs>> /\ WorkerFrees(j) /\ Bind(j)
          /\ wk[j] \in {"work", "report", "free"}
          /\ IF j \in Held THEN wk[j] = "free" /\ wk'[j] = "over"
             ELSE wk'[j] \in {"clear", "over"}
      <3>1. CASE FinalFree(j)
        BY <1>0, <3>1 DEF FinalFree, WorkerFrees, QuietInv, ThreadInv
      <3>2. CASE j \notin Held /\ Finally(j)
        BY <1>0, <3>2 DEF Finally, WorkerFrees, AfterFinally
      <3>3. QED BY <1>6, <3>1, <3>2
    <2>2. Inside(j) /\ ~Suppressing(j) /\ ~Suppressing(j)'
      BY <2>1 DEF Inside, Suppressing
    <2>3. ~Stale(j) /\ suppress = FALSE
      BY <2>1, <2>2, InsideIsCurrent, ReleaseFrees
    <2>4. active' = FALSE
      BY <2>1, <2>3 DEF WorkerFrees, Freed
    <2>5. req[j] = "over"
      BY <2>1 DEF QuietInv, ThreadInv
    <2>6. ~Inside(j)'
      BY <2>1, <2>5 DEF Inside
    <2>7. InsideHolds' /\ BusyIsHeld'
      BY <2>1, <2>2, <2>4, <2>6, WorkFrame, LeavesFree DEF IInv
    <2>8. ThreadInv'
      BY <2>1, <2>2, ThreadsQuiet
    <2>9. SuppressInv'
      BY <2>1, <2>2, FlagQuiet
    <2>10. ToolInv'
      BY <2>1, ToolsQuiet
    <2>11. QED BY <2>7, <2>8, <2>9, <2>10 DEF QuietInv
  <1>7. CASE j \in Held /\ (Finally(j) \/ InnerFinally(j))
    <2>1. /\ UNCHANGED <<suppress, proc, req, runs>> /\ WorkerFrees(j) /\ Bind(j)
          /\ wk[j] \in {"work", "report"} /\ wk'[j] \in {"work", "clear"}
      <3>1. CASE j \in Held /\ Finally(j)
        BY <1>0, <3>1 DEF Finally, WorkerFrees, AfterFinally
      <3>2. CASE InnerFinally(j)
        BY <1>0, <3>2 DEF InnerFinally, WorkerFrees
      <3>3. QED BY <1>7, <3>1, <3>2
    <2>2. /\ Inside(j) /\ Inside(j)' /\ Suppressing(j) /\ Suppressing(j)'
      BY <1>7, <2>1 DEF Inside, Suppressing
    <2>3. active = TRUE /\ suppress = TRUE
      BY <2>2, OneInside DEF QuietInv, SuppressInv, IInv, TypeOK
    <2>4. UNCHANGED active
      BY <2>1, <2>3 DEF WorkerFrees, Freed
    <2>5. InsideHolds' /\ BusyIsHeld'
      BY <2>2, <2>4, StaysInside
    <2>6. ThreadInv'
      BY <2>1, <2>2, ThreadsQuiet
    <2>7. SuppressInv'
      BY <2>1, <2>2, FlagQuiet
    <2>8. ToolInv'
      BY <2>1, ToolsQuiet
    <2>9. QED BY <2>5, <2>6, <2>7, <2>8 DEF QuietInv
  <1>8. CASE ClearCheck(j) \/ ClearDrop(j)
    <2>1. /\ UNCHANGED <<active, suppress, proc, req, runs>>
          /\ wk[j] \in {"clear", "drop"}
          /\ wk'[j] = AfterFinally(j) \/ wk'[j] = "drop"
          /\ Bind(j) \/ (UNCHANGED wkGen /\ wk[j] = "drop")
      BY <1>0, <1>8 DEF ClearCheck, ClearDrop, jobVars
    <2>2. /\ wk'[j] \in {"work", "over", "drop"} /\ (j \in Held => wk'[j] # "over")
          /\ (j \notin Held => wk'[j] # "work")
      BY <2>1 DEF AfterFinally
    <2>3. Suppressing(j)' <=> Suppressing(j)
      BY <2>1, <2>2 DEF Suppressing
    <2>4. SuppressInv'
      BY <2>1, <2>3, FlagQuiet
    <2>5. ThreadInv'
      BY <2>1, <2>2, ThreadsQuiet
    <2>6. ToolInv'
      BY <2>1, <2>2, ToolsQuiet
    <2>7. req[j] = "over"
      BY <2>1 DEF QuietInv, ThreadInv
    <2>8. Inside(j)' <=> Inside(j)
      BY <2>1, <2>2, <2>7 DEF Inside
    <2>9. \A k \in Jobs : Inside(k)' <=> Inside(k)
      BY <2>1, <2>8, WorkFrame DEF IInv, Inside
    <2>10. InsideHolds' /\ BusyIsHeld'
      BY <2>1, <2>9, WorkFrame DEF QuietInv, InsideHolds, BusyIsHeld, IInv, genVars
    <2>11. QED BY <2>4, <2>5, <2>6, <2>10 DEF QuietInv
  <1>9. QED
    BY <1>1, <1>2, <1>3, <1>4, <1>5, <1>6, <1>7, <1>8
    DEF Work, Progress, InnerFinally

LEMMA ToolExitsQuiet ==
  ASSUME IInv, QuietInv, NEW p \in Procs, ToolExits(p) PROVE QuietInv'
  <1>1. UNCHANGED <<active, gen, claimGen, suppress, req, wk, wkGen, runs>>
    BY DEF ToolExits, jobVars, genVars
  <1>2. \A q \in Procs : proc'[q] = "running" => proc[q] = "running"
    BY DEF ToolExits, IInv, TypeOK
  <1>3. \A k \in Jobs : \A n \in 1 .. MaxRuns : <<k, n>> \in Procs
    BY DEF Procs
  <1>4. ToolInv'
    BY <1>1, <1>2, <1>3 DEF QuietInv, ToolInv
  <1>5. (InsideHolds /\ BusyIsHeld)' /\ (SuppressInv /\ ThreadInv)'
    BY <1>1 DEF QuietInv, InsideHolds, BusyIsHeld, Inside, SuppressInv,
                Suppressing, ThreadInv
  <1>6. QED BY <1>4, <1>5 DEF QuietInv

LEMMA NextQuiet ==
  ASSUME Stops = {}, IInv, QuietInv, [Next]_vars PROVE QuietInv'
  <1>1. ASSUME NEW j \in Jobs, Start(j) PROVE QuietInv'
    BY <1>1, ClaimQuiet, RequestQuiet, SpawnQuiet DEF Start
  <1>2. ASSUME NEW j \in Jobs, Work(j) PROVE QuietInv'
    BY <1>2, WorkQuiet
  <1>3. ASSUME NEW p \in Procs, ToolExits(p) PROVE QuietInv'
    BY <1>3, ToolExitsQuiet
  <1>4. CASE UNCHANGED vars
    BY <1>4 DEF vars, QuietInv, InsideHolds, BusyIsHeld, Inside, SuppressInv,
                Suppressing, ThreadInv, ToolInv
  <1>5. QED BY <1>1, <1>2, <1>3, <1>4 DEF Next

(* While nobody presses Stop the invariant holds throughout. *)
THEOREM QuietInvariance ==
  ASSUME Stops = {} PROVE Spec => [](IInv /\ QuietInv)
  <1>1. Init => IInv /\ QuietInv
    BY InitTypeOK, InitGenInv, InitQuietInv DEF IInv
  <1>2. IInv /\ QuietInv /\ [Next]_vars => (IInv /\ QuietInv)'
    BY NextIInv, NextQuiet
  <1>3. QED BY <1>1, <1>2, PTL DEF Spec

(* With no Stop in its way no tool runs beside another job's (the README's *)
(* "only one acquisition/recovery/analysis job ever runs").                *)
THEOREM OneTool == ASSUME Stops = {} PROVE Spec => []OneToolAtATime
  <1>1. IInv /\ QuietInv => OneToolAtATime
    <2> SUFFICES ASSUME IInv, QuietInv, NEW j \in Jobs, NEW k \in Jobs,
                        Running(j), Running(k)
                 PROVE  j = k
      BY DEF OneToolAtATime
    <2>1. Inside(j) /\ Inside(k)
      BY DEF Running, QuietInv, ToolInv, Inside
    <2>2. QED BY <2>1, OneInside
  <1>2. QED BY <1>1, QuietInvariance, PTL

(* With no Stop in its way the slot is never left busy with nobody to      *)
(* release it: refusals, server errors and held runs all reach the release.*)
THEOREM SomebodyReleases == ASSUME Stops = {} PROVE Spec => []NeverLeftBusy
  <1>1. IInv /\ QuietInv => NeverLeftBusy
    BY DEF QuietInv, BusyIsHeld, NeverLeftBusy, Inside, Alive
  <1>2. QED BY <1>1, QuietInvariance, PTL

(* With no Stop between its claim and its first write a thread is bound to *)
(* the generation its own request claimed (_is_stale_worker_thread).       *)
THEOREM BindsToOwnJob == ASSUME Stops = {} PROVE Spec => []WorkerBindsToOwnJob
  <1>1. QuietInv => WorkerBindsToOwnJob
    BY DEF QuietInv, ThreadInv, WorkerBindsToOwnJob, BoundToOwnClaim
  <1>2. QED BY <1>1, QuietInvariance, PTL

-----------------------------------------------------------------------------
(* The slot implements the single slot the README promises.                *)

LEMMA HolderInside ==
  ASSUME IInv, QuietInv, NEW j \in Jobs, Inside(j) PROVE Holder = j
  <1>1. active = TRUE /\ claimGen[j] = gen /\ gen > 0 /\ ~NewerClaim(j)
    BY OneInside
  <1>2. LatestClaim(j)
    BY <1>1 DEF LatestClaim
  <1>3. ASSUME NEW k \in Jobs, LatestClaim(k) PROVE k = j
    <2>1. claimGen[k] \in Nat /\ claimGen[k] =< gen /\ gen \in Nat
      BY DEF IInv, GenInv, TypeOK
    <2>2. claimGen[k] = gen
      BY <1>1, <1>3, <2>1 DEF LatestClaim, NewerClaim
    <2>3. QED BY <2>2, OneInside
  <1>4. QED BY <1>1, <1>2, <1>3 DEF Holder

LEMMA HolderFree == ASSUME active = FALSE PROVE Holder = NoJob
  BY DEF Holder

(* The view of the slot depends on these three alone. *)
LEMMA SameView ==
  ASSUME UNCHANGED <<active, claimGen, proc>>
  PROVE  UNCHANGED <<Holder, Turn, {j \in Jobs : Running(j)}>>
  BY DEF Holder, Turn, LatestClaim, NewerClaim, Running

(* A job that holds the slot and runs no tool gives it back. *)
LEMMA GivesBack ==
  ASSUME IInv, QuietInv, NEW j \in Jobs, Inside(j), wk[j] # "stream",
         active' = FALSE, UNCHANGED <<claimGen, proc>>
  PROVE  Slot!GiveBack(j)
  <1>1. Holder = j /\ Holder' = NoJob
    BY HolderInside, HolderFree DEF Holder
  <1>2. ~Running(j)
    BY DEF Running, QuietInv, ToolInv
  <1>3. claimGen[j] # 0 /\ j # NoJob
    <2>1. claimGen[j] = gen /\ gen > 0
      BY OneInside
    <2>2. gen \in Nat
      BY DEF IInv, TypeOK
    <2>3. QED BY <2>1, <2>2, JobsAssumption
  <1>4. ASSUME NEW k \in Jobs PROVE Turn'[k] = IF k = j THEN "had" ELSE Turn[k]
    BY <1>1, <1>3, JobsAssumption DEF Turn
  <1>5. Turn' = [Turn EXCEPT ![j] = "had"]
    BY <1>4 DEF Turn
  <1>6. UNCHANGED {k \in Jobs : Running(k)}
    BY DEF Running
  <1>7. QED BY <1>1, <1>2, <1>5, <1>6 DEF Slot!GiveBack

LEMMA TakesSlot ==
  ASSUME IInv, QuietInv, NEW j \in Jobs, Claim(j) PROVE Slot!Take(j)
  <1>1. /\ active = FALSE /\ active' = TRUE /\ req[j] = "idle"
        /\ claimGen' = [claimGen EXCEPT ![j] = gen + 1] /\ UNCHANGED proc
    BY DEF Claim, Request, IInv, TypeOK
  <1>2. /\ claimGen'[j] = gen + 1 /\ gen \in Nat
        /\ \A k \in Jobs : k # j => claimGen'[k] = claimGen[k]
        /\ \A k \in Jobs : claimGen[k] =< gen /\ claimGen[k] \in Nat
    BY <1>1 DEF IInv, GenInv, TypeOK
  <1>3. \A k \in Jobs : LatestClaim(k)' <=> k = j
    BY <1>2 DEF LatestClaim, NewerClaim
  <1>4. Holder = NoJob /\ Holder' = j
    BY <1>1, <1>3 DEF Holder
  <1>5. claimGen[j] = 0 /\ Turn[j] = "none"
    BY <1>1 DEF QuietInv, ThreadInv, Turn
  <1>6. ASSUME NEW k \in Jobs PROVE Turn'[k] = IF k = j THEN "holds" ELSE Turn[k]
    BY <1>2, <1>4, JobsAssumption DEF Turn
  <1>7. Turn' = [Turn EXCEPT ![j] = "holds"]
    BY <1>6 DEF Turn
  <1>8. UNCHANGED {k \in Jobs : Running(k)}
    BY <1>1 DEF Running
  <1>9. QED BY <1>4, <1>5, <1>7, <1>8 DEF Slot!Take

LEMMA RunsTool ==
  ASSUME IInv, QuietInv, NEW j \in Jobs, StartTool(j) PROVE Slot!RunTool(j)
  <1>1. /\ UNCHANGED <<active, claimGen>> /\ wk[j] \in {"work", "report"}
        /\ proc' = [proc EXCEPT ![<<j, runs[j] + 1>>] = "running"]
    BY DEF StartTool, Worker, jobVars
  <1>2. Inside(j) /\ ~Running(j)
    BY <1>1 DEF Inside, Running, QuietInv, ToolInv
  <1>3. Holder = j
    BY <1>2, HolderInside
  <1>4. UNCHANGED <<Holder, Turn>>
    BY <1>1 DEF Holder, Turn, LatestClaim, NewerClaim
  <1>5. /\ <<j, runs[j] + 1>> \in Procs /\ runs[j] + 1 \in 1 .. MaxRuns
        /\ proc'[<<j, runs[j] + 1>>] = "running"
    BY <1>1, NextRun DEF IInv, TypeOK, Procs
  <1>6. Running(j)'
    BY <1>5 DEF Running
  <1>7. ASSUME NEW k \in Jobs, k # j PROVE Running(k)' <=> Running(k)
    <2>1. \A n \in 1 .. MaxRuns : proc'[<<k, n>>] = proc[<<k, n>>]
      BY <1>1, <1>7 DEF IInv, TypeOK, Procs
    <2>2. QED BY <2>1 DEF Running
  <1>8. {k \in Jobs : Running(k)}' = {k \in Jobs : Running(k)} \cup {j}
    BY <1>6, <1>7
  <1>9. QED BY <1>2, <1>3, <1>4, <1>8 DEF Slot!RunTool

LEMMA EndsTool ==
  ASSUME IInv, QuietInv, NEW p \in Procs, ToolExits(p)
  PROVE  Slot!ToolEnds(p[1])
  <1>1. PICK j \in Jobs, n \in 1 .. MaxRuns : p = <<j, n>>
    BY DEF Procs
  <1>2. /\ proc[p] = "running" /\ UNCHANGED <<active, claimGen>>
        /\ \E r \in {"ok", "failed"} : proc' = [proc EXCEPT ![p] = r]
    BY DEF ToolExits, jobVars
  <1>3. Running(j) /\ \A m \in 1 .. MaxRuns : proc[<<j, m>>] = "running" => m = n
    BY <1>1, <1>2 DEF Running, QuietInv, ToolInv
  <1>4. UNCHANGED <<Holder, Turn>>
    BY <1>2 DEF Holder, Turn, LatestClaim, NewerClaim
  <1>5. ~Running(j)'
    <2>1. ASSUME NEW m \in 1 .. MaxRuns PROVE proc'[<<j, m>>] # "running"
      BY <1>1, <1>2, <1>3 DEF IInv, TypeOK, Procs
    <2>2. QED BY <2>1 DEF Running
  <1>6. ASSUME NEW k \in Jobs, k # j PROVE Running(k)' <=> Running(k)
    <2>1. \A m \in 1 .. MaxRuns : proc'[<<k, m>>] = proc[<<k, m>>]
      BY <1>1, <1>2, <1>6 DEF IInv, TypeOK, Procs
    <2>2. QED BY <2>1 DEF Running
  <1>7. {k \in Jobs : Running(k)}' = {k \in Jobs : Running(k)} \ {j}
    BY <1>5, <1>6
  <1>8. QED BY <1>1, <1>3, <1>4, <1>7 DEF Slot!ToolEnds

(* A thread that lets go of the slot is inside and streams no tool. *)
LEMMA WorkOnSlot ==
  ASSUME IInv, QuietInv, NEW j \in Jobs, Work(j), ~StartTool(j)
  PROVE  /\ UNCHANGED <<claimGen, proc>>
         /\ UNCHANGED active \/ (active' = FALSE /\ Inside(j) /\ wk[j] # "stream")
  <1>1. UNCHANGED <<claimGen, proc>>
    BY DEF Work, Progress, BeginSuppress, StreamEnds, StreamReturns, Finally,
           InnerFinally, ClearCheck, ClearDrop, EndSuppress, FinalFree, LogLine,
           SetStatus
  <1>2. CASE Finally(j) \/ InnerFinally(j) \/ FinalFree(j)
    <2>1. /\ WorkerFrees(j) /\ Bind(j) /\ wk[j] \in {"work", "report", "free"}
      BY <1>2 DEF Finally, InnerFinally, FinalFree, WorkerFrees, Worker
    <2>2. Inside(j)
      BY <2>1 DEF Inside
    <2>3. active = TRUE /\ active' = suppress /\ suppress \in BOOLEAN
      BY <2>1, <2>2, InsideIsCurrent, OneInside
      DEF WorkerFrees, Freed, IInv, TypeOK
    <2>4. QED BY <1>1, <2>1, <2>2, <2>3
  <1>3. CASE ~(Finally(j) \/ InnerFinally(j) \/ FinalFree(j))
    <2>1. UNCHANGED active
      BY <1>3 DEF Work, Progress, BeginSuppress, StreamEnds, StreamReturns,
         ClearCheck, ClearDrop, EndSuppress, LogLine, SetStatus, jobVars
    <2>2. QED BY <1>1, <2>1
  <1>4. QED BY <1>2, <1>3

LEMMA NextOnSlot ==
  ASSUME Stops = {}, IInv, QuietInv, [Next]_vars
  PROVE  \/ Slot!SlotNext
         \/ UNCHANGED <<Holder, Turn, {j \in Jobs : Running(j)}>>
  <1>1. ASSUME NEW j \in Jobs, Start(j)
        PROVE  Slot!SlotNext \/ UNCHANGED <<active, claimGen, proc>>
    <2>1. CASE Claim(j)
      BY <2>1, TakesSlot DEF Slot!SlotNext
    <2>2. CASE Refuse(j) \/ LeakRelease(j)
      <3>1. /\ req[j] \in {"validating", "leaked"} /\ active' = Freed
            /\ UNCHANGED <<claimGen, proc>>
        BY <2>2 DEF Refuse, LeakRelease, Request
      <3>2. Inside(j) /\ wk[j] = "none"
        BY <3>1 DEF Inside, QuietInv, ThreadInv
      <3>3. active' = FALSE
        BY <3>1, <3>2, ReleaseFrees DEF Freed, Suppressing
      <3>4. QED BY <3>1, <3>2, <3>3, GivesBack DEF Slot!SlotNext
    <2>3. CASE Crash(j) \/ LeakCheck(j) \/ Initialise(j) \/ Spawn(j)
      BY <2>3 DEF Crash, LeakCheck, Initialise, Spawn, jobVars
    <2>4. QED BY <1>1, <2>1, <2>2, <2>3 DEF Start
  <1>2. ASSUME NEW j \in Jobs, Work(j)
        PROVE  Slot!SlotNext \/ UNCHANGED <<active, claimGen, proc>>
    <2>1. CASE StartTool(j)
      BY <2>1, RunsTool DEF Slot!SlotNext
    <2>2. CASE ~StartTool(j)
      BY <1>2, <2>2, WorkOnSlot, GivesBack DEF Slot!SlotNext
    <2>3. QED BY <2>1, <2>2
  <1>3. ASSUME NEW p \in Procs, ToolExits(p) PROVE Slot!SlotNext
    <2>1. p[1] \in Jobs
      BY DEF Procs
    <2>2. QED BY <1>3, <2>1, EndsTool DEF Slot!SlotNext
  <1>4. CASE UNCHANGED vars
    BY <1>4, SameView DEF vars
  <1>5. QED BY <1>1, <1>2, <1>3, <1>4, SameView DEF Next

(* While nobody presses Stop, the slot of core/jobs.py is the single slot  *)
(* of SingleSlot: taken when free, given back by the job that holds it and *)
(* with no tool of that job running, whatever is refused or fails.         *)
THEOREM KeepsPromise == ASSUME Stops = {} PROVE Spec => SlotPromise
  <1>1. Init => Slot!SlotInit
    <2> SUFFICES ASSUME Init PROVE Slot!SlotInit
      OBVIOUS
    <2>1. Holder = NoJob
      BY DEF Init, Holder
    <2>2. Turn = [j \in Jobs |-> "none"]
      BY DEF Init, Turn
    <2>3. {j \in Jobs : Running(j)} = {}
      BY DEF Init, Running, Procs
    <2>4. QED BY <2>1, <2>2, <2>3 DEF Slot!SlotInit
  <1>2. IInv /\ QuietInv /\ [Next]_vars => [Slot!SlotNext]_(Slot!slotVars)
    BY NextOnSlot DEF Slot!slotVars
  <1>3. QED BY <1>1, <1>2, QuietInvariance, PTL DEF Spec, SlotPromise, Slot!SlotSpec

-----------------------------------------------------------------------------
(* The programs on the slot.                                               *)

(* A step of a start route is a step of the slot's request, or none. *)
LEMMA ServeIsStart ==
  ASSUME NEW j \in Jobs, Serve(j) PROVE Start(j) \/ UNCHANGED vars
  BY DEF Serve, RouteClaim, RouteCheck, RouteInit, RouteOpen, RouteSpawn,
         RouteFails, Start

(* Every status a program sets is one the slot's worker may set. *)
LEMMA SetStatusIsWork ==
  ASSUME NEW j, NEW s \in {"Working", "Ended"}, SetStatus(j, s) PROVE Work(j)
  BY DEF Work, Statuses

(* A step of a program is a step of the slot's general worker, or none. *)
LEMMA StepIsWork ==
  ASSUME NEW j \in Jobs, Step(j) \/ Raises(j) \/ OnLine(j)
  PROVE  Work(j) \/ UNCHANGED vars
  <1>1. CASE Say(j) \/ Excepted(j) \/ Conclude(j)
    BY <1>1, SetStatusIsWork DEF Say, Excepted, Conclude
  <1>2. CASE Launch(j)
    BY <1>2 DEF Launch, Work, Progress
  <1>3. CASE Stream(j)
    BY <1>3 DEF Stream, Work, Progress
  <1>4. CASE Close(j)
    BY <1>4 DEF Close, Work, Progress
  <1>5. CASE ClearHandle(j)
    BY <1>5 DEF ClearHandle, Work, Progress
  <1>6. CASE OnLine(j)
    BY <1>6, SetStatusIsWork DEF OnLine, Work
  <1>7. CASE \/ Look(j) \/ Judge(j) \/ Unit(j) \/ Branch(j) \/ WriteRecord(j)
             \/ Take(j) \/ Give(j) \/ Raises(j)
    BY <1>7 DEF Look, Judge, Unit, Branch, WriteRecord, Take, Give, Raises
  <1>8. QED BY <1>1, <1>2, <1>3, <1>4, <1>5, <1>6, <1>7 DEF Step

(* The start routes and workers of the station, whatever their tables say, *)
(* keep the protocol of the job slot.                                      *)
THEOREM KeepsProtocol == WorkersSpec => KeepsSlotProtocol
  <1>1. WorkersInit => Init
    BY DEF WorkersInit
  <1>2. [WorkersNext]_workVars => [Next]_vars
    <2> SUFFICES ASSUME [WorkersNext]_workVars PROVE [Next]_vars
      OBVIOUS
    <2>1. ASSUME NEW j \in Jobs, Serve(j) PROVE [Next]_vars
      BY <2>1, ServeIsStart DEF Next
    <2>2. ASSUME NEW j \in Jobs, Step(j) \/ Raises(j) \/ OnLine(j)
          PROVE  [Next]_vars
      BY <2>2, StepIsWork DEF Next
    <2>3. CASE UNCHANGED workVars
      BY <2>3 DEF workVars
    <2>4. QED BY <2>1, <2>2, <2>3 DEF WorkersNext, Next
  <1>3. QED BY <1>1, <1>2, PTL DEF WorkersSpec, KeepsSlotProtocol, Spec

(* What is proved of the slot's general worker holds of every program: its *)
(* variables keep their types, update_job()'s guard admits one job's       *)
(* worker, and a superseded worker is silent.                              *)
THEOREM ProgramsOnTheSlot ==
  WorkersSpec => []IInv /\ []OneAdmittedWorker /\ SupersededWorkerIsSilent
  BY KeepsProtocol, Invariance, OneAdmitted, SupersededSilent, PTL
  DEF KeepsSlotProtocol

(* So does, while nobody presses Stop, the single slot they implement: the *)
(* tools of two real workers never run side by side.                       *)
THEOREM ProgramsKeepPromise ==
  ASSUME Stops = {} PROVE WorkersSpec => SlotPromise /\ []OneToolAtATime
  BY KeepsProtocol, KeepsPromise, OneTool, PTL DEF KeepsSlotProtocol

-----------------------------------------------------------------------------
(* What a worker takes it gives back.                                      *)

(* The calls that neither take nor give leave what is held as it was. *)
OtherCalls == {"say", "end", "on", "more", "stopped", "cut", "tool", "ok", "bad",
               "unsure", "unit", "turn", "skip", "flaw", "whole", "lacking",
               "judged", "unjudged", "COMPLETED", "FAILED", "STOPPED",
               "noteCompleted", "noteFailed", "write", "raise", "free",
               "freeClear", "suppress", "endSuppress", "finalFree"}

LEMMA OthersKeepHeld ==
  ASSUME NEW call \in OtherCalls, NEW held \in SUBSET Resources
  PROVE  After(call, held) = held
  <1>1. \A r \in Resources : call # r /\ call # GivenBackBy[r]
    BY DEF OtherCalls, Resources, GivenBackBy
  <1>2. QED BY <1>1 DEF After

(* One call of a worker: it follows its table, and what it holds after the *)
(* call is what the call makes of what it held.                            *)
Follows(j) ==
    /\ kind[j] # NoKind
    /\ \E step \in Program[kind[j]].code[at[j]] :
          /\ at' = [at EXCEPT ![j] = step[2]]
          /\ holds' = [holds EXCEPT ![j] = After(step[1], @)]

LEMMA OtherCallFollows ==
  ASSUME NEW j \in Jobs, NEW call \in OtherCalls, Call(j, call),
         holds \in [Jobs -> SUBSET Resources], UNCHANGED holds
  PROVE  Follows(j)
  <1>1. After(call, holds[j]) = holds[j]
    BY OthersKeepHeld
  <1>2. holds' = [holds EXCEPT ![j] = After(call, @)]
    BY <1>1
  <1>3. QED BY <1>2 DEF Call, Follows

LEMMA StepFollows ==
  ASSUME NEW j \in Jobs, Step(j), holds \in [Jobs -> SUBSET Resources]
  PROVE  Follows(j) \/ UNCHANGED <<at, holds>>
  <1>1. CASE Say(j)
    BY <1>1, OtherCallFollows DEF Say, OtherCalls, dataVars
  <1>2. CASE Look(j)
    BY <1>2, OtherCallFollows DEF Look, OtherCalls, dataVars
  <1>3. CASE Launch(j)
    BY <1>3, OtherCallFollows DEF Launch, OtherCalls
  <1>4. CASE Stream(j) \/ ClearHandle(j)
    BY <1>4 DEF Stream, ClearHandle, progVars
  <1>5. CASE Judge(j)
    BY <1>5, OtherCallFollows DEF Judge, OtherCalls, dataVars
  <1>6. CASE Unit(j)
    BY <1>6, OtherCallFollows DEF Unit, OtherCalls
  <1>7. CASE Branch(j)
    BY <1>7, OtherCallFollows DEF Branch, OtherCalls, dataVars
  <1>8. CASE Conclude(j)
    <2>1. \A o \in Final : o \in OtherCalls /\ Noted[o] \in OtherCalls
      BY DEF Final, Noted, OtherCalls
    <2>2. QED BY <1>8, <2>1, OtherCallFollows DEF Conclude, dataVars
  <1>9. CASE WriteRecord(j)
    BY <1>9, OtherCallFollows DEF WriteRecord, OtherCalls
  <1>10. CASE Take(j)
    <2>1. PICK r \in Resources : Call(j, r) /\ holds' = [holds EXCEPT ![j] = @ \cup {r}]
      BY <1>10 DEF Take
    <2>2. After(r, holds[j]) = holds[j] \cup {r}
      BY DEF After, Resources, GivenBackBy
    <2>3. QED BY <2>1, <2>2 DEF Call, Follows
  <1>11. CASE Give(j)
    <2>1. PICK r \in Resources : /\ Call(j, GivenBackBy[r])
                                 /\ holds' = [holds EXCEPT ![j] = @ \ {r}]
      BY <1>11 DEF Give
    <2>2. After(GivenBackBy[r], holds[j]) = holds[j] \ {r}
      BY DEF After, Resources, GivenBackBy
    <2>3. QED BY <2>1, <2>2 DEF Call, Follows
  <1>12. CASE Excepted(j)
    BY <1>12, OtherCallFollows DEF Excepted, OtherCalls, dataVars
  <1>13. CASE Close(j)
    BY <1>13, OtherCallFollows DEF Close, OtherCalls, dataVars
  <1>14. QED
    BY <1>1, <1>2, <1>3, <1>4, <1>5, <1>6, <1>7, <1>8, <1>9, <1>10, <1>11,
       <1>12, <1>13 DEF Step

(* At each label a worker holds no more than the account of its kind says. *)
Within(account) ==
    /\ kind \in Choices
    /\ at \in [Jobs -> Labels \cup {"begin"}]
    /\ holds \in [Jobs -> SUBSET Resources]
    /\ \A j \in Jobs :
         IF kind[j] = NoKind THEN holds[j] = {} /\ at[j] = "begin"
         ELSE /\ at[j] \in DOMAIN Program[kind[j]].code
              /\ holds[j] \subseteq account[kind[j]][at[j]]

(* Accounts of all the kinds of work there are. *)
AreAccounts(account) ==
    \A c \in Choices, j \in Jobs :
        c[j] # NoKind => IsAccount(account[c[j]], Program[c[j]])

LEMMA InitWithin ==
  ASSUME NEW account, AreAccounts(account), WorkersInit PROVE Within(account)
  BY DEF WorkersInit, Within, AreAccounts, IsAccount, IsTable

(* Less held before a call is less held after it. *)
LEMMA AfterGrows ==
  ASSUME NEW call, NEW held, NEW more, held \subseteq more
  PROVE  After(call, held) \subseteq After(call, more)
  BY DEF After

LEMMA FollowsWithin ==
  ASSUME NEW account, AreAccounts(account), Within(account),
         NEW j \in Jobs, Follows(j), UNCHANGED kind
  PROVE  Within(account)'
  <1> DEFINE t == Program[kind[j]]
             held == account[kind[j]]
  <1>1. kind[j] # NoKind /\ kind[j] \in Kinds /\ IsAccount(held, t)
    BY WorkersAssumption DEF Follows, Within, AreAccounts
  <1>2. PICK step \in t.code[at[j]] :
              /\ at' = [at EXCEPT ![j] = step[2]]
              /\ holds' = [holds EXCEPT ![j] = After(step[1], @)]
    BY DEF Follows
  <1>3. at[j] \in DOMAIN t.code /\ holds[j] \subseteq held[at[j]]
    BY <1>1 DEF Within
  <1>4. step[2] \in DOMAIN t.code /\ After(step[1], held[at[j]]) \subseteq held[step[2]]
    BY <1>1, <1>3 DEF IsAccount, IsTable
  <1>5. After(step[1], holds[j]) \subseteq held[step[2]]
    BY <1>3, <1>4, AfterGrows
  <1>6. step[2] \in Labels
    BY <1>1, <1>4 DEF Labels
  <1>7. After(step[1], holds[j]) \in SUBSET Resources
    BY DEF Within, After
  <1>8. /\ at' \in [Jobs -> Labels \cup {"begin"}]
        /\ holds' \in [Jobs -> SUBSET Resources]
    BY <1>2, <1>6, <1>7 DEF Within
  <1>9. ASSUME NEW k \in Jobs
        PROVE  IF kind[k] = NoKind THEN holds'[k] = {} /\ at'[k] = "begin"
               ELSE /\ at'[k] \in DOMAIN Program[kind[k]].code
                    /\ holds'[k] \subseteq account[kind[k]][at'[k]]
    <2>1. CASE k = j
      BY <2>1, <1>1, <1>2, <1>4, <1>5 DEF Within
    <2>2. CASE k # j
      BY <2>2, <1>2 DEF Within
    <2>3. QED BY <2>1, <2>2
  <1>10. QED BY <1>8, <1>9 DEF Within

(* An exception leaves what is held to the handler's account. *)
LEMMA RaisesWithin ==
  ASSUME NEW account, AreAccounts(account), Within(account),
         NEW j \in Jobs, Raises(j), kind[j] # NoKind
  PROVE  Within(account)'
  <1> DEFINE t == Program[kind[j]]
             held == account[kind[j]]
  <1>1. /\ UNCHANGED <<kind, holds>>
        /\ at[j] \in DOMAIN t.catch
        /\ at' = [at EXCEPT ![j] = t.catch[at[j]]]
    BY DEF Raises, dataVars
  <1>2. kind[j] \in Kinds /\ IsAccount(held, t)
    BY WorkersAssumption DEF Within, AreAccounts
  <1>3. at[j] \in DOMAIN t.code /\ holds[j] \subseteq held[at[j]]
    BY DEF Within
  <1>4. /\ t.catch[at[j]] \in DOMAIN t.code
        /\ held[at[j]] \subseteq held[t.catch[at[j]]]
    BY <1>1, <1>2, <1>3 DEF IsAccount, IsTable
  <1>5. t.catch[at[j]] \in Labels
    BY <1>2, <1>4 DEF Labels
  <1>6. /\ at' \in [Jobs -> Labels \cup {"begin"}]
        /\ holds' \in [Jobs -> SUBSET Resources]
    BY <1>1, <1>5 DEF Within
  <1>7. ASSUME NEW k \in Jobs
        PROVE  IF kind[k] = NoKind THEN holds'[k] = {} /\ at'[k] = "begin"
               ELSE /\ at'[k] \in DOMAIN Program[kind[k]].code
                    /\ holds'[k] \subseteq account[kind[k]][at'[k]]
    <2>1. CASE k = j
      BY <2>1, <1>1, <1>3, <1>4 DEF Within
    <2>2. CASE k # j
      BY <2>2, <1>1 DEF Within
    <2>3. QED BY <2>1, <2>2
  <1>8. QED BY <1>1, <1>6, <1>7 DEF Within

(* A job that nobody asks for has no request and no worker. *)
Unasked == \A j \in Jobs : kind[j] = NoKind => req[j] = "idle" /\ wk[j] = "none"

LEMMA StartFrame ==
  ASSUME NEW j \in Jobs, TypeOK, Start(j)
  PROVE  \A k \in Jobs : k # j => req'[k] = req[k] /\ wk'[k] = wk[k]
  BY DEF Start, Claim, Refuse, Crash, LeakCheck, LeakRelease, Initialise, Spawn,
         Request, TypeOK

LEMMA KindStays == ASSUME [WorkersNext]_workVars PROVE UNCHANGED kind
  <1> USE DEF progVars, dataVars
  <1>1. ASSUME NEW j \in Jobs, Serve(j) PROVE UNCHANGED kind
    BY <1>1 DEF Serve, RouteClaim, RouteCheck, RouteInit, RouteOpen, RouteSpawn,
                RouteFails, RouteGoesOn
  <1>2. ASSUME NEW j \in Jobs, Step(j) PROVE UNCHANGED kind
    BY <1>2 DEF Step, Say, Look, Launch, Stream, Judge, Unit, Branch, Conclude,
                WriteRecord, Take, Give, Excepted, Close, ClearHandle
  <1>3. ASSUME NEW j \in Jobs, Raises(j) \/ OnLine(j) PROVE UNCHANGED kind
    BY <1>3 DEF Raises, OnLine
  <1>4. QED BY <1>1, <1>2, <1>3 DEF WorkersNext, workVars

LEMMA NextUnasked ==
  ASSUME TypeOK, Unasked, [WorkersNext]_workVars PROVE Unasked'
  <1>1. UNCHANGED kind
    BY KindStays
  <1>2. ASSUME NEW j \in Jobs, Serve(j) PROVE Unasked'
    <2>1. kind[j] # NoKind
      BY <1>2 DEF Serve, RouteClaim, RouteCheck, RouteInit, RouteOpen,
         RouteSpawn, RouteFails, Initialise, Spawn, Crash, LeakCheck,
         LeakRelease, Request, Unasked
    <2>2. CASE Start(j)
      BY <1>1, <2>1, <2>2, StartFrame DEF Unasked
    <2>3. CASE UNCHANGED vars
      BY <1>1, <2>3 DEF Unasked, vars
    <2>4. QED BY <1>2, <2>2, <2>3, ServeIsStart
  <1>3. ASSUME NEW j \in Jobs, Step(j) \/ Raises(j) \/ OnLine(j) PROVE Unasked'
    <2>1. CASE Work(j)
      BY <1>1, <2>1, WorkFrame DEF Unasked
    <2>2. CASE UNCHANGED vars
      BY <1>1, <2>2 DEF Unasked, vars
    <2>3. QED BY <1>3, <2>1, <2>2, StepIsWork
  <1>4. CASE \/ \E p \in Procs : ToolExits(p)
             \/ \E s \in Stops : StopRequest(s)
    BY <1>1, <1>4 DEF Unasked, ToolExits, StopRequest, StopCheck, StopKill,
       StopKillNamed, StopMark, StopSupersede
  <1>5. CASE UNCHANGED workVars
    BY <1>1, <1>5 DEF Unasked, workVars, vars
  <1>6. QED BY <1>2, <1>3, <1>4, <1>5 DEF WorkersNext

(* A step that leaves the places and the holdings alone keeps the account. *)
LEMMA SameWithin ==
  ASSUME NEW account, Within(account), UNCHANGED <<kind, at, holds>>
  PROVE  Within(account)'
  BY DEF Within

LEMMA NextWithin ==
  ASSUME NEW account, AreAccounts(account), Within(account), Unasked,
         [WorkersNext]_workVars
  PROVE  Within(account)'
  <1>1. UNCHANGED kind
    BY KindStays
  <1>2. ASSUME NEW j \in Jobs, Serve(j) PROVE UNCHANGED <<at, holds>>
    BY <1>2 DEF Serve, RouteClaim, RouteCheck, RouteInit, RouteOpen, RouteSpawn,
                RouteFails, RouteGoesOn, progVars
  <1>3. ASSUME NEW j \in Jobs, Step(j) PROVE Within(account)'
    <2>1. holds \in [Jobs -> SUBSET Resources]
      BY DEF Within
    <2>2. QED BY <1>1, <1>3, <2>1, StepFollows, FollowsWithin, SameWithin
  <1>4. ASSUME NEW j \in Jobs, Raises(j) PROVE Within(account)'
    <2>1. kind[j] # NoKind
      BY <1>4 DEF Raises, Ready, Unasked
    <2>2. QED BY <1>4, <2>1, RaisesWithin
  <1>5. ASSUME NEW j \in Jobs, OnLine(j) PROVE UNCHANGED <<at, holds>>
    BY <1>5 DEF OnLine, progVars
  <1>6. QED BY <1>1, <1>2, <1>3, <1>4, <1>5, SameWithin
        DEF WorkersNext, workVars, progVars

(* Whichever way a worker ends, what it mounted, unlocked, unpacked,       *)
(* installed, granted or took over is put back: for every number of jobs,  *)
(* tools, units and Stops, once the table of each kind of work keeps an    *)
(* account, which TLC finds of the tables of the repository's workers.     *)
THEOREM EverythingGivenBack ==
  ASSUME NEW CONSTANT account, AreAccounts(account)
  PROVE  WorkersSpec => []ResourcesGivenBack
  <1>1. WorkersInit => Within(account) /\ Unasked
    BY InitWithin DEF WorkersInit, Init, Unasked
  <1>2. Within(account) /\ Unasked /\ TypeOK /\ [WorkersNext]_workVars
        => Within(account)' /\ Unasked'
    BY NextWithin, NextUnasked
  <1>3. Within(account) => ResourcesGivenBack
    <2> SUFFICES ASSUME Within(account), NEW j \in Jobs, Done(j) PROVE holds[j] = {}
      BY DEF ResourcesGivenBack
    <2>1. CASE kind[j] = NoKind
      BY <2>1 DEF Within
    <2>2. CASE kind[j] # NoKind
      BY <2>2 DEF Within, AreAccounts, IsAccount, Done
    <2>3. QED BY <2>1, <2>2
  <1>4. WorkersSpec => []IInv
    BY ProgramsOnTheSlot, PTL
  <1>5. IInv => TypeOK
    BY DEF IInv
  <1>6. QED BY <1>1, <1>2, <1>3, <1>4, <1>5, PTL DEF WorkersSpec

-----------------------------------------------------------------------------
(* A stopped worker begins little more.                                    *)

OneStop == \A s, t \in Stops : s = t

(* Lookouts of all the kinds of work that look for a Stop. *)
AreLookouts(begun) ==
    \A c \in Choices, j \in Jobs :
        c[j] \notin Deaf \cup {NoKind} => IsLookout(begun[c[j]], Program[c[j]])

(* What began with a finished Stop on display began after the only one,    *)
(* and its worker has not looked at the status since, while it is there.   *)
LateInv(begun) ==
    /\ kind \in Choices /\ DOMAIN at = Jobs
    /\ late \in [Jobs -> 0 .. 2]
    /\ stopSupGen # NoGen => \A s \in Stops : stop[s] = "over"
    /\ \A j \in Jobs :
         /\ late[j] > 0 => stopSupGen # NoGen
         /\ kind[j] \notin Deaf \cup {NoKind} => at[j] \in DOMAIN Program[kind[j]].code
         /\ kind[j] = NoKind => late[j] = 0
         /\ kind[j] \notin Deaf \cup {NoKind} =>
               /\ late[j] =< 1
               /\ late[j] = 1 /\ StopIsShown => at[j] \in begun[kind[j]]

(* Only a Stop shows a Stop. *)
LEMMA StartShows ==
  ASSUME IInv, NEW j \in Jobs, Start(j), StopIsShown' PROVE StopIsShown
  <1>1. CASE Claim(j)
    <2>1. gen' = gen + 1 /\ stopSupGen' = stopSupGen /\ stopSupGen =< gen
      BY <1>1 DEF Claim, IInv, GenInv
    <2>2. gen \in Nat /\ stopSupGen \in Nat \cup {NoGen}
      BY DEF IInv, TypeOK
    <2>3. stopSupGen # gen + 1
      BY <2>1, <2>2 DEF NoGen
    <2>4. QED BY <2>1, <2>3 DEF StopIsShown
  <1>2. CASE Refuse(j) \/ Crash(j) \/ LeakCheck(j) \/ LeakRelease(j) \/ Initialise(j) \/ Spawn(j)
    BY <1>2 DEF Refuse, Crash, LeakCheck, LeakRelease, Initialise, Spawn, StopIsShown,
       jobVars, genVars
  <1>3. QED BY <1>1, <1>2 DEF Start

LEMMA StatusShows ==
  ASSUME NEW j \in Jobs, NEW s, SetStatus(j, s), StopIsShown' PROVE StopIsShown
  BY DEF SetStatus, WriteStatus, StopIsShown, genVars

LEMMA ProgressShows ==
  ASSUME NEW j \in Jobs, Progress(j) \/ InnerFinally(j) \/ LogLine(j)
  PROVE  UNCHANGED <<status, gen, stopSupGen>>
  BY DEF Progress, InnerFinally, LogLine, BeginSuppress, StartTool, StreamEnds, StreamReturns,
     Finally, ClearCheck, ClearDrop, EndSuppress, FinalFree, jobVars, genVars

LEMMA StepShows ==
  ASSUME NEW j \in Jobs, Step(j) \/ Raises(j) \/ OnLine(j), StopIsShown' PROVE StopIsShown
  <1>1. CASE Say(j) \/ Excepted(j) \/ Conclude(j) \/ OnLine(j)
    BY <1>1, StatusShows, ProgressShows DEF Say, Excepted, Conclude, OnLine, StopIsShown, vars
  <1>2. CASE Launch(j) \/ Stream(j) \/ Close(j) \/ ClearHandle(j)
    BY <1>2, ProgressShows DEF Launch, Stream, Close, ClearHandle, Progress, StopIsShown
  <1>3. CASE \/ Look(j) \/ Judge(j) \/ Unit(j) \/ Branch(j) \/ WriteRecord(j)
             \/ Take(j) \/ Give(j) \/ Raises(j)
    BY <1>3 DEF Look, Judge, Unit, Branch, WriteRecord, Take, Give, Raises, StopIsShown, vars
  <1>4. QED BY <1>1, <1>2, <1>3 DEF Step

(* A call of a worker counts when something begins, and goes on from a     *)
(* look only when no Stop is on display. *)
Counts(j) ==
    \E call : /\ Call(j, call)
              /\ call \in Looked => ~StopIsShown
              /\ IF call \in Counted THEN CountLate(j) ELSE UNCHANGED late

LEMMA StepCounts ==
  ASSUME NEW j \in Jobs, Step(j) PROVE Counts(j) \/ UNCHANGED <<at, late>>
  <1> USE DEF Counts, Counted, Looked
  <1>1. CASE Say(j)
    BY <1>1 DEF Say, dataVars
  <1>2. CASE Look(j)
    BY <1>2 DEF Look, dataVars, StopIsShown
  <1>3. CASE Launch(j)
    BY <1>3 DEF Launch
  <1>4. CASE Stream(j) \/ ClearHandle(j)
    BY <1>4 DEF Stream, ClearHandle, progVars
  <1>5. CASE Judge(j)
    BY <1>5 DEF Judge, dataVars
  <1>6. CASE Unit(j)
    BY <1>6 DEF Unit
  <1>7. CASE Branch(j)
    BY <1>7 DEF Branch, dataVars
  <1>8. CASE Conclude(j)
    BY <1>8 DEF Conclude, dataVars, Final, Noted
  <1>9. CASE WriteRecord(j)
    BY <1>9 DEF WriteRecord
  <1>10. CASE Take(j) \/ Give(j)
    BY <1>10 DEF Take, Give, Resources, GivenBackBy
  <1>11. CASE Excepted(j)
    BY <1>11 DEF Excepted, dataVars
  <1>12. CASE Close(j)
    BY <1>12 DEF Close, dataVars
  <1>13. QED
    BY <1>1, <1>2, <1>3, <1>4, <1>5, <1>6, <1>7, <1>8, <1>9, <1>10, <1>11, <1>12 DEF Step

LEMMA CountsLate ==
  ASSUME NEW begun, AreLookouts(begun), LateInv(begun), NEW j \in Jobs, Counts(j),
         UNCHANGED <<kind, stop, stopSupGen>>, StopIsShown' => StopIsShown,
         gen \in Nat
  PROVE  LateInv(begun)'
  <1>1. kind[j] # NoKind /\ kind \in Choices
    BY DEF Counts, Call, LateInv
  <1>2. PICK call : /\ Call(j, call)
                    /\ call \in Looked => ~StopIsShown
                    /\ IF call \in Counted THEN CountLate(j) ELSE UNCHANGED late
    BY DEF Counts
  <1>3. PICK step \in Program[kind[j]].code[at[j]] :
              step[1] = call /\ at' = [at EXCEPT ![j] = step[2]]
    BY <1>2 DEF Call
  <1>4. /\ DOMAIN at' = Jobs /\ late' \in [Jobs -> 0 .. 2]
        /\ \A k \in Jobs : k # j => at'[k] = at[k] /\ late'[k] = late[k]
        /\ late'[j] > 0 => late[j] > 0 \/ StopIsShown
    BY <1>2, <1>3 DEF LateInv, CountLate
  <1>5. \A k \in Jobs : late'[k] > 0 => stopSupGen' # NoGen
    BY <1>4 DEF LateInv, StopIsShown, NoGen
  <1>6. ASSUME kind[j] \notin Deaf
        PROVE  /\ at'[j] \in DOMAIN Program[kind[j]].code
               /\ late'[j] =< 1
               /\ late'[j] = 1 /\ StopIsShown' => at'[j] \in begun[kind[j]]
    <2>1. /\ IsLookout(begun[kind[j]], Program[kind[j]]) /\ at[j] \in DOMAIN Program[kind[j]].code
          /\ late[j] =< 1 /\ (late[j] = 1 /\ StopIsShown => at[j] \in begun[kind[j]])
      BY <1>1, <1>6 DEF LateInv, AreLookouts
    <2>2. /\ at'[j] = step[2] /\ step[2] \in DOMAIN Program[kind[j]].code
          /\ call \in Counted => at[j] \notin begun[kind[j]] /\ step[2] \in begun[kind[j]]
          /\ at[j] \in begun[kind[j]] => call \in Looked \/ step[2] \in begun[kind[j]]
      BY <1>3, <2>1 DEF IsLookout, IsTable, LateInv
    <2>3. CASE call \in Counted
      <3>1. /\ late[j] \in 0 .. 2
            /\ late'[j] = IF StopIsShown /\ late[j] < 2 THEN late[j] + 1 ELSE late[j]
        BY <1>2, <2>3 DEF CountLate, LateInv
      <3>2. StopIsShown => late[j] = 0
        BY <2>1, <2>2, <2>3, <3>1
      <3>3. late'[j] =< 1
        BY <2>1, <3>1, <3>2
      <3>4. QED BY <2>2, <2>3, <3>3
    <2>4. CASE call \notin Counted
      BY <1>2, <2>1, <2>2, <2>4
    <2>5. QED BY <2>3, <2>4
  <1>7. QED BY <1>1, <1>4, <1>5, <1>6 DEF LateInv

LEMMA RaisesLate ==
  ASSUME NEW begun, AreLookouts(begun), LateInv(begun), NEW j \in Jobs, Raises(j),
         kind[j] # NoKind
  PROVE  LateInv(begun)'
  <1>1. /\ UNCHANGED <<kind, late, stop, stopSupGen, status, gen>>
        /\ at[j] \in DOMAIN Program[kind[j]].catch
        /\ at' = [at EXCEPT ![j] = Program[kind[j]].catch[at[j]]]
    BY DEF Raises, dataVars, vars
  <1>2. kind \in Choices /\ DOMAIN at' = Jobs /\ (\A k \in Jobs : k # j => at'[k] = at[k])
    BY <1>1 DEF LateInv
  <1>3. ASSUME kind[j] \notin Deaf
        PROVE  /\ at'[j] \in DOMAIN Program[kind[j]].code
               /\ at[j] \in begun[kind[j]] => at'[j] \in begun[kind[j]]
    <2>1. IsLookout(begun[kind[j]], Program[kind[j]]) /\ at[j] \in DOMAIN Program[kind[j]].code
      BY <1>2, <1>3 DEF LateInv, AreLookouts
    <2>2. at'[j] = Program[kind[j]].catch[at[j]]
      BY <1>1 DEF LateInv
    <2>3. QED BY <1>1, <2>1, <2>2 DEF IsLookout, IsTable
  <1>4. StopIsShown' = StopIsShown
    BY <1>1 DEF StopIsShown
  <1>5. QED BY <1>1, <1>2, <1>3, <1>4 DEF LateInv

(* A step that leaves the places alone and shows no Stop. *)
LEMMA SameLate ==
  ASSUME NEW begun, LateInv(begun), UNCHANGED <<kind, at, late, stop, stopSupGen>>,
         StopIsShown' => StopIsShown
  PROVE  LateInv(begun)'
  BY DEF LateInv

(* The only Stop shows itself before anything is late. *)
LEMMA StopLate ==
  ASSUME OneStop, NEW begun, LateInv(begun), NEW s \in Stops, StopRequest(s),
         UNCHANGED progVars, stop \in [Stops -> {"idle", "kill", "killNamed", "mark", "supersede", "over"}]
  PROVE  LateInv(begun)'
  <1>1. stop[s] # "over" /\ stopSupGen = NoGen
    BY DEF StopRequest, StopCheck, StopKill, StopKillNamed, StopMark, StopSupersede,
       Stopping, LateInv
  <1>2. \A j \in Jobs : late[j] = 0
    BY <1>1 DEF LateInv
  <1>3. stopSupGen' # NoGen => \A t \in Stops : stop'[t] = "over"
    <2>1. CASE StopSupersede(s)
      BY <2>1 DEF StopSupersede, Stopping, OneStop
    <2>2. CASE ~StopSupersede(s)
      BY <1>1, <2>2 DEF StopRequest, StopCheck, StopKill, StopKillNamed, StopMark, genVars
    <2>3. QED BY <2>1, <2>2
  <1>4. UNCHANGED <<kind, at, late>>
    BY DEF progVars
  <1>5. QED BY <1>2, <1>3, <1>4 DEF LateInv

LEMMA NextLate ==
  ASSUME OneStop, NEW begun, AreLookouts(begun), LateInv(begun), Unasked, IInv,
         [WorkersNext]_workVars
  PROVE  LateInv(begun)'
  <1>1. UNCHANGED kind
    BY KindStays
  <1>2. gen \in Nat /\ TypeOK
    BY DEF IInv, TypeOK
  <1>3. ASSUME NEW j \in Jobs, Serve(j) PROVE LateInv(begun)'
    <2>1. UNCHANGED <<at, late>>
      BY <1>3 DEF Serve, RouteClaim, RouteCheck, RouteInit, RouteOpen, RouteSpawn,
                  RouteFails, RouteGoesOn, progVars
    <2>2. /\ UNCHANGED <<stop, stopSupGen>>
          /\ StopIsShown' => StopIsShown
      <3>1. CASE Start(j)
        BY <1>2, <3>1, StartShows DEF Start, Claim, Refuse, Crash, LeakCheck, LeakRelease,
           Initialise, Spawn, genVars, stopVars
      <3>2. CASE UNCHANGED vars
        BY <3>2 DEF vars, StopIsShown
      <3>3. QED BY <1>3, <3>1, <3>2, ServeIsStart
    <2>3. QED BY <1>1, <2>1, <2>2, SameLate
  <1>4. ASSUME NEW j \in Jobs, Step(j) \/ Raises(j) \/ OnLine(j)
        PROVE  /\ UNCHANGED <<stop, stopSupGen>>
               /\ StopIsShown' => StopIsShown
    <2>1. Work(j) => UNCHANGED <<stop, stopSupGen>>
      BY DEF Work, Progress, InnerFinally, LogLine, BeginSuppress, StartTool, StreamEnds,
         StreamReturns, Finally, ClearCheck, ClearDrop, EndSuppress, FinalFree, SetStatus,
         genVars, stopVars
    <2>2. UNCHANGED vars => UNCHANGED <<stop, stopSupGen>>
      BY DEF vars
    <2>3. QED BY <1>4, <2>1, <2>2, StepIsWork, StepShows
  <1>5. ASSUME NEW j \in Jobs, Step(j) PROVE LateInv(begun)'
    BY <1>1, <1>2, <1>4, <1>5, StepCounts, CountsLate, SameLate
  <1>6. ASSUME NEW j \in Jobs, Raises(j) PROVE LateInv(begun)'
    <2>1. kind[j] # NoKind
      BY <1>6 DEF Raises, Ready, Unasked
    <2>2. QED BY <1>6, <2>1, RaisesLate
  <1>7. ASSUME NEW j \in Jobs, OnLine(j) PROVE LateInv(begun)'
    <2>1. UNCHANGED <<kind, at, late>>
      BY <1>7 DEF OnLine, progVars
    <2>2. QED BY <1>4, <1>7, <2>1, SameLate
  <1>8. ASSUME NEW p \in Procs, ToolExits(p), UNCHANGED progVars PROVE LateInv(begun)'
    BY <1>8, SameLate DEF ToolExits, progVars, jobVars, genVars, stopVars, StopIsShown
  <1>9. ASSUME NEW s \in Stops, StopRequest(s), UNCHANGED progVars PROVE LateInv(begun)'
    BY <1>2, <1>9, StopLate DEF TypeOK
  <1>10. CASE UNCHANGED workVars
    BY <1>10, SameLate DEF workVars, progVars, vars, StopIsShown
  <1>11. QED BY <1>3, <1>5, <1>6, <1>7, <1>8, <1>9, <1>10 DEF WorkersNext

LEMMA NextsUnasked ==
  IInv /\ Unasked /\ [WorkersNext]_workVars => Unasked'
  BY NextUnasked DEF IInv

(* With a finished Stop on display a worker begins at most one more tool   *)
(* or unit of work, for any number of jobs, tools and units and a single   *)
(* Stop: once the table of each kind that looks for a Stop looks between   *)
(* any two beginnings, which TLC finds of the repository's workers.        *)
THEOREM StopsSoon ==
  ASSUME OneStop, NEW CONSTANT begun, AreLookouts(begun)
  PROVE  WorkersSpec => []WorkStopsSoon
  <1>1. WorkersInit => LateInv(begun) /\ Unasked
    BY DEF WorkersInit, Init, Unasked, LateInv, AreLookouts, IsLookout, IsTable
  <1>2. LateInv(begun) /\ Unasked /\ IInv /\ [WorkersNext]_workVars
        => LateInv(begun)' /\ Unasked'
    BY NextLate, NextsUnasked
  <1>3. LateInv(begun) => WorkStopsSoon
    BY DEF LateInv, WorkStopsSoon
  <1>4. WorkersSpec => []IInv
    BY ProgramsOnTheSlot, PTL
  <1>5. QED BY <1>1, <1>2, <1>3, <1>4, PTL DEF WorkersSpec

-----------------------------------------------------------------------------
(* COMPLETED means whole.                                                  *)

(* A Stop lets the next job start while the stopped worker still streams,  *)
(* so: nobody stops, or only one job is asked for.                         *)
Asked(j) == kind[j] # NoKind
Alone(choice) == \A i, j \in Jobs : choice[i] # NoKind /\ choice[j] # NoKind => i = j
Undivided == Stops = {} \/ \A c \in Choices : Alone(c)

LEMMA OnlyOneAsked ==
  ASSUME Undivided, Stops # {}, kind \in Choices,
         NEW i \in Jobs, NEW j \in Jobs, Asked(i), Asked(j)
  PROVE  i = j
  BY DEF Undivided, Alone, Asked

LEMMA WorkIsAsked ==
  ASSUME Unasked, NEW j \in Jobs PROVE (wk[j] # "none" \/ req[j] # "idle") => Asked(j)
  BY DEF Unasked, Asked

Streaming(j) == wk[j] \in {"stream", "wait"}

(* What a worker streams and judges is its own last tool. *)
OwnInv ==
    \A j \in Jobs :
        /\ Streaming(j) => activeProc \in {NoProc, <<j, runs[j]>>}
        /\ wk[j] = "wait" => got[j] = <<j, runs[j]>>
        /\ wk[j] = "report" => got[j] \in {NoProc, <<j, runs[j]>>}
        /\ wk[j] # "none" => req[j] = "over"

(* Nobody starts a tool beside one that is streamed. *)
LEMMA OneStarts ==
  ASSUME Undivided, IInv, Stops = {} => QuietInv, kind \in Choices, Unasked,
         NEW j \in Jobs, NEW k \in Jobs, StartTool(k), Streaming(j)
  PROVE  j = k
  <1>1. CASE Stops = {}
    <2>1. Inside(j) /\ Inside(k)
      BY DEF Inside, Streaming, StartTool, Worker
    <2>2. QED BY <1>1, <2>1, OneInside
  <1>2. CASE Stops # {}
    <2>1. Asked(j) /\ Asked(k)
      BY WorkIsAsked DEF Streaming, StartTool, Worker
    <2>2. QED BY <1>2, <2>1, OnlyOneAsked
  <1>3. QED BY <1>1, <1>2

LEMMA WorkOwn ==
  ASSUME Undivided, IInv, Stops = {} => QuietInv, kind \in Choices, Unasked, OwnInv,
         NEW k \in Jobs, Work(k)
  PROVE  OwnInv'
  <1> USE DEF OwnInv, Streaming, IInv, TypeOK, Worker, Bind
  <1>1. CASE StartTool(k)
    <2>1. \A j \in Jobs : Streaming(j) => j = k
      BY <1>1, OneStarts
    <2>2. QED BY <1>1, <2>1 DEF StartTool
  <1>2. CASE StreamEnds(k)
    BY <1>2 DEF StreamEnds
  <1>3. CASE StreamReturns(k)
    BY <1>3 DEF StreamReturns
  <1>4. CASE Finally(k)
    BY <1>4 DEF Finally, AfterFinally
  <1>5. CASE InnerFinally(k)
    BY <1>5 DEF InnerFinally
  <1>6. CASE ClearCheck(k) \/ ClearDrop(k)
    BY <1>6 DEF ClearCheck, ClearDrop, AfterFinally
  <1>7. CASE BeginSuppress(k) \/ EndSuppress(k) \/ FinalFree(k)
    BY <1>7 DEF BeginSuppress, EndSuppress, FinalFree
  <1>8. CASE LogLine(k) \/ \E s \in Statuses : SetStatus(k, s)
    BY <1>8 DEF LogLine, SetStatus
  <1>9. QED
    BY <1>1, <1>2, <1>3, <1>4, <1>5, <1>6, <1>7, <1>8 DEF Work, Progress

LEMMA NextOwn ==
  ASSUME Undivided, IInv, Stops = {} => QuietInv, kind \in Choices, Unasked, OwnInv,
         [Next]_vars
  PROVE  OwnInv'
  <1>1. ASSUME NEW k \in Jobs, Start(k) PROVE OwnInv'
    BY <1>1 DEF Start, Claim, Refuse, Crash, LeakCheck, LeakRelease, Initialise, Spawn, Request,
       OwnInv, Streaming, IInv, TypeOK
  <1>2. CASE \/ \E p \in Procs : ToolExits(p)
             \/ \E s \in Stops : StopRequest(s)
    BY <1>2 DEF ToolExits, StopRequest, StopCheck, StopKill, StopKillNamed, StopMark,
       StopSupersede, OwnInv, Streaming
  <1>3. CASE UNCHANGED vars
    BY <1>3 DEF vars, OwnInv, Streaming
  <1>4. QED BY <1>1, <1>2, <1>3, WorkOwn DEF Next

(* What a grade says of a worker. *)
Describes(j, grade) ==
    /\ grade = "whole" => j \notin flawed /\ \A n \in 1 .. runs[j] : proc[<<j, n>>] = "ok"
    /\ grade = "unjudged" => j \notin flawed /\ \A n \in 1 .. runs[j] - 1 : proc[<<j, n>>] = "ok"
    /\ grade = "cut" => status = "Stopped" /\ wk[j] # "none" /\ ~Streaming(j)

(* Tools that succeeded stay so; only a worker itself starts one. *)
LEMMA WorkTools ==
  ASSUME TypeOK, NEW j \in Jobs, Work(j)
  PROVE  /\ wk[j] # "none" /\ wk'[j] # "none"
         /\ \A k \in Jobs : k # j => /\ runs'[k] = runs[k] /\ wk'[k] = wk[k]
                                     /\ \A n \in 1 .. runs[k] : proc'[<<k, n>>] = proc[<<k, n>>]
         /\ StartTool(j) \/ (UNCHANGED <<runs, proc>> /\ (Streaming(j)' => Streaming(j)))
  <1> USE DEF TypeOK, Worker, Streaming
  <1>1. CASE StartTool(j)
    BY <1>1, JobsAssumption DEF StartTool, Procs
  <1>2. CASE StreamEnds(j) \/ StreamReturns(j)
    BY <1>2 DEF StreamEnds, StreamReturns
  <1>3. CASE Finally(j) \/ InnerFinally(j)
    BY <1>3 DEF Finally, InnerFinally, AfterFinally
  <1>4. CASE ClearCheck(j) \/ ClearDrop(j)
    BY <1>4 DEF ClearCheck, ClearDrop, AfterFinally
  <1>5. CASE BeginSuppress(j) \/ EndSuppress(j) \/ FinalFree(j)
    BY <1>5 DEF BeginSuppress, EndSuppress, FinalFree
  <1>6. CASE LogLine(j) \/ \E s \in Statuses : SetStatus(j, s)
    BY <1>6 DEF LogLine, SetStatus
  <1>7. QED BY <1>1, <1>2, <1>3, <1>4, <1>5, <1>6 DEF Work, Progress

Concluded == Final \cup {"none", "raised"}

(* What each call concludes: the others, nothing. *)
LEMMA VerdictOf ==
  ASSUME NEW v
  PROVE  /\ VerdictAfter("raise", v) = "raised"
         /\ VerdictAfter("STOPPED", v) = "STOPPED"
         /\ VerdictAfter("COMPLETED", v) = "COMPLETED" /\ VerdictAfter("noteCompleted", v) = "COMPLETED"
         /\ VerdictAfter("FAILED", v) = "FAILED" /\ VerdictAfter("noteFailed", v) = "FAILED"
  BY DEF VerdictAfter, Verdicts

LEMMA NoVerdict ==
  ASSUME NEW j \in Jobs, outcome \in [Jobs -> Concluded], UNCHANGED outcome, NEW call,
         call \notin {"COMPLETED", "FAILED", "STOPPED", "noteCompleted", "noteFailed", "raise"}
  PROVE  outcome' = [outcome EXCEPT ![j] = VerdictAfter(call, @)]
  <1>1. VerdictAfter(call, outcome[j]) = outcome[j]
    BY DEF VerdictAfter, Verdicts
  <1>2. outcome = [outcome EXCEPT ![j] = outcome[j]]
    OBVIOUS
  <1>3. QED BY <1>1, <1>2

(* Assessments of all the kinds of work there are. *)
AreAssessments(seen) ==
    \A c \in Choices, j \in Jobs :
        c[j] # NoKind => IsAssessment(seen[c[j]], Program[c[j]])

(* What a worker has concluded and seen is among what the assessment of    *)
(* its kind has at its label.                                              *)
JudgedOf(seen, j) ==
    IF kind[j] = NoKind THEN outcome[j] = "none"
    ELSE /\ at[j] \in DOMAIN Program[kind[j]].code
         /\ \E grade \in Grades : /\ <<outcome[j], grade>> \in seen[kind[j]][at[j]]
                                  /\ Describes(j, grade)

JudgedInv(seen) ==
    /\ kind \in Choices /\ DOMAIN at = Jobs
    /\ outcome \in [Jobs -> Concluded]
    /\ Stops = {} => status # "Stopped"
    /\ \A j \in Jobs : JudgedOf(seen, j)

(* One call, what it concludes and what it makes of what was seen. *)
Judges(j) ==
    \E call : /\ Call(j, call)
              /\ outcome' = [outcome EXCEPT ![j] = VerdictAfter(call, @)]
              /\ \A grade, next \in Grades :
                    Describes(j, grade) /\ next = GradeAfter(call, grade)
                    => Allowed(call, outcome[j], grade) /\ Describes(j, next)'

LEMMA JudgesBy ==
  ASSUME NEW j, NEW call, Call(j, call), outcome' = [outcome EXCEPT ![j] = VerdictAfter(call, @)],
         \A grade, next \in Grades :
            Describes(j, grade) /\ next = GradeAfter(call, grade)
            => Allowed(call, outcome[j], grade) /\ Describes(j, next)'
  PROVE  Judges(j)
  BY DEF Judges

Keeps(j) == /\ UNCHANGED <<at, outcome>>
            /\ \A grade \in Grades : Describes(j, grade) => Describes(j, grade)'

(* Calls that launch nothing, and say nothing or something. *)
Quietly == {"stopped", "skip", "whole", "lacking", "judged", "unjudged", "on", "more", "unit",
            "turn", "noteCompleted", "noteFailed", "STOPPED", "write", "free", "freeClear",
            "suppress", "endSuppress", "finalFree"}
           \cup Resources \cup {GivenBackBy[r] : r \in Resources}

LEMMA QuietGrade ==
  ASSUME NEW grade, NEW call \in Quietly
  PROVE  /\ GradeAfter(call, grade) = grade
         /\ call \notin {"noteCompleted", "noteFailed", "STOPPED"} =>
               \A v : VerdictAfter(call, v) = v
         /\ call \in Resources \cup {GivenBackBy[r] : r \in Resources} =>
               \A v : Allowed(call, v, grade)
  BY DEF Quietly, GradeAfter, Displaying, VerdictAfter, Verdicts, Allowed, Resources, GivenBackBy

(* What is seen of a worker that launches nothing stays, and a cut with    *)
(* the status.                                                             *)
LEMMA StillSeen ==
  ASSUME NEW j, NEW grade, Describes(j, grade), UNCHANGED <<flawed, runs, proc>>,
         wk'[j] = "none" => wk[j] = "none", Streaming(j)' => Streaming(j)
  PROVE  /\ grade # "cut" \/ UNCHANGED status => Describes(j, grade)'
         /\ grade = "cut" => Describes(j, "spoiled")'
  BY DEF Describes

LEMMA Spoiled == ASSUME NEW j PROVE Describes(j, "spoiled")' /\ Describes(j, "spoiled")
  BY DEF Describes

(* ... as it does of a worker that says something, unless it was cut. *)
LEMMA SaidSeen ==
  ASSUME NEW j, NEW call \in Displaying, NEW grade, Describes(j, grade),
         UNCHANGED <<flawed, runs, proc>>, wk'[j] # "none", Streaming(j)' => Streaming(j),
         NEW next, next = GradeAfter(call, grade)
  PROVE  /\ Describes(j, next)'
         /\ \A v : Allowed(call, v, grade)
  <1>1. GradeAfter(call, grade) = IF grade = "cut" THEN "spoiled" ELSE grade
    BY DEF GradeAfter, Displaying
  <1>2. \A v : Allowed(call, v, grade)
    BY DEF Allowed, Displaying
  <1>3. QED BY <1>1, <1>2, StillSeen

LEMMA SayJudges ==
  ASSUME TypeOK, outcome \in [Jobs -> Concluded], NEW j \in Jobs, Say(j) \/ Excepted(j)
  PROVE  Judges(j)
  <1>1. PICK call \in {"say", "end", "raise"} :
              /\ Call(j, call) /\ UNCHANGED flawed
              /\ \E s \in {"Working", "Ended"} : SetStatus(j, s)
              /\ IF call = "raise" THEN outcome' = [outcome EXCEPT ![j] = "raised"]
                 ELSE UNCHANGED outcome
    BY DEF Say, Excepted
  <1>2. UNCHANGED <<runs, proc, wk>> /\ wk[j] # "none"
    BY <1>1 DEF SetStatus
  <1>3. call \in Displaying /\ (Streaming(j)' => Streaming(j)) /\ wk'[j] # "none"
    BY <1>2 DEF Displaying, Streaming
  <1>4. outcome' = [outcome EXCEPT ![j] = VerdictAfter(call, @)]
    <2>1. CASE call = "raise"
      BY <1>1, <2>1, VerdictOf
    <2>2. CASE call # "raise"
      BY <1>1, <2>2, NoVerdict
    <2>3. QED BY <2>1, <2>2
  <1>5. \A grade, next \in Grades :
            Describes(j, grade) /\ next = GradeAfter(call, grade)
            => Allowed(call, outcome[j], grade) /\ Describes(j, next)'
    BY <1>1, <1>2, <1>3, SaidSeen
  <1>6. QED BY <1>1, <1>4, <1>5, JudgesBy

LEMMA ConcludeJudges ==
  ASSUME TypeOK, outcome \in [Jobs -> Concluded], NEW j \in Jobs, Conclude(j)
  PROVE  Judges(j)
  <1>1. PICK o \in Final :
              /\ outcome' = [outcome EXCEPT ![j] = o] /\ UNCHANGED flawed
              /\ \/ o # "STOPPED" /\ Call(j, o) /\ SetStatus(j, "Ended")
                 \/ Ready(j) /\ Call(j, Noted[o]) /\ UNCHANGED vars
    BY DEF Conclude
  <1>2. CASE o # "STOPPED" /\ Call(j, o) /\ SetStatus(j, "Ended")
    <2>1. UNCHANGED <<runs, proc, wk>> /\ wk[j] # "none"
      BY <1>2 DEF SetStatus
    <2>2. o \in Displaying /\ (Streaming(j)' => Streaming(j)) /\ wk'[j] # "none"
      BY <1>2, <2>1 DEF Displaying, Streaming, Final
    <2>3. outcome' = [outcome EXCEPT ![j] = VerdictAfter(o, @)]
      BY <1>1, <1>2, VerdictOf DEF Final
    <2>4. \A grade, next \in Grades :
              Describes(j, grade) /\ next = GradeAfter(o, grade)
              => Allowed(o, outcome[j], grade) /\ Describes(j, next)'
      BY <1>1, <2>1, <2>2, SaidSeen
    <2>5. QED BY <1>2, <2>3, <2>4, JudgesBy
  <1>3. CASE Ready(j) /\ Call(j, Noted[o]) /\ UNCHANGED vars
    <2>1. Noted[o] \in {"noteCompleted", "noteFailed", "STOPPED"}
      BY DEF Noted, Final
    <2>2. outcome' = [outcome EXCEPT ![j] = VerdictAfter(Noted[o], @)]
      <3>1. \/ o = "COMPLETED" /\ Noted[o] = "noteCompleted"
            \/ o = "FAILED" /\ Noted[o] = "noteFailed"
            \/ o = "STOPPED" /\ Noted[o] = "STOPPED"
        BY DEF Final, Noted
      <3>2. VerdictAfter(Noted[o], outcome[j]) = o
        BY <3>1, VerdictOf
      <3>3. QED BY <1>1, <3>2
    <2>3. UNCHANGED <<runs, proc, wk, status>> /\ wk'[j] # "none" /\ (Streaming(j)' => Streaming(j))
      BY <1>3 DEF vars, Ready, Streaming
    <2>4. \A v, grade : Allowed(Noted[o], v, grade)
      BY <2>1 DEF Allowed
    <2>5. \A grade : GradeAfter(Noted[o], grade) = grade
      BY <2>1, QuietGrade DEF Quietly
    <2>6. \A grade, next \in Grades :
              Describes(j, grade) /\ next = GradeAfter(Noted[o], grade)
              => Allowed(Noted[o], outcome[j], grade) /\ Describes(j, next)'
      BY <1>1, <2>3, <2>4, <2>5, StillSeen
    <2>7. QED BY <1>3, <2>2, <2>6, JudgesBy
  <1>4. QED BY <1>1, <1>2, <1>3

LEMMA LookJudges ==
  ASSUME outcome \in [Jobs -> Concluded], NEW j \in Jobs, Look(j) PROVE Judges(j)
  <1>1. UNCHANGED <<runs, proc, wk, status, outcome>> /\ wk'[j] # "none"
        /\ ~Streaming(j) /\ ~Streaming(j)'
    BY DEF Look, vars, Ready, Streaming
  <1>2. CASE status = "Stopped" /\ Call(j, "cut")
    <2>1. \A grade : GradeAfter("cut", grade) = "cut" /\ (\A v : Allowed("cut", v, grade))
      BY DEF GradeAfter, Allowed
    <2>2. Describes(j, "cut")'
      BY <1>1, <1>2 DEF Describes
    <2>3. outcome' = [outcome EXCEPT ![j] = VerdictAfter("cut", @)]
      BY <1>1, NoVerdict
    <2>4. QED BY <1>2, <2>1, <2>2, <2>3, JudgesBy
  <1>3. ASSUME NEW call \in {"on", "more", "stopped"}, Call(j, call), UNCHANGED flawed,
               call # "stopped" => status # "Stopped"
        PROVE  Judges(j)
    <2>1. outcome' = [outcome EXCEPT ![j] = VerdictAfter(call, @)]
      BY <1>1, NoVerdict
    <2>2. \A grade \in Grades : Describes(j, grade) => Allowed(call, outcome[j], grade)
      BY <1>3 DEF Describes, Allowed
    <2>3. \A grade : GradeAfter(call, grade) = grade
      BY QuietGrade DEF Quietly
    <2>4. \A grade, next \in Grades :
              Describes(j, grade) /\ next = GradeAfter(call, grade)
              => Allowed(call, outcome[j], grade) /\ Describes(j, next)'
      BY <1>1, <1>3, <2>2, <2>3, StillSeen
    <2>5. QED BY <1>3, <2>1, <2>4, JudgesBy
  <1>4. QED BY <1>2, <1>3 DEF Look

LEMMA LaunchJudges ==
  ASSUME TypeOK, outcome \in [Jobs -> Concluded], NEW j \in Jobs, Launch(j) PROVE Judges(j)
  <1>1. Call(j, "tool") /\ UNCHANGED <<flawed, outcome>> /\ StartTool(j)
    BY DEF Launch
  <1>2. /\ runs'[j] = runs[j] + 1 /\ runs[j] \in 0 .. MaxRuns
        /\ \A n \in 1 .. runs[j] : proc'[<<j, n>>] = proc[<<j, n>>]
    BY <1>1, JobsAssumption DEF StartTool, TypeOK, Procs
  <1>3. 1 .. runs'[j] - 1 = 1 .. runs[j]
    BY <1>2, JobsAssumption
  <1>4. Describes(j, "whole") => Describes(j, "unjudged")'
    BY <1>1, <1>2, <1>3 DEF Describes
  <1>5. \A grade : GradeAfter("tool", grade) = IF grade = "whole" THEN "unjudged" ELSE "spoiled"
    BY DEF GradeAfter
  <1>6. \A grade, v : Allowed("tool", v, grade)
    BY DEF Allowed
  <1>7. outcome' = [outcome EXCEPT ![j] = VerdictAfter("tool", @)]
    BY <1>1, NoVerdict
  <1>8. \A grade, next \in Grades :
            Describes(j, grade) /\ next = GradeAfter("tool", grade)
            => Allowed("tool", outcome[j], grade) /\ Describes(j, next)'
    <2>1. \A grade, next \in Grades :
              Describes(j, grade) /\ next = GradeAfter("tool", grade) => Describes(j, next)'
      BY <1>4, <1>5, Spoiled
    <2>2. QED BY <1>6, <2>1
  <1>9. QED BY <1>1, <1>7, <1>8, JudgesBy

LEMMA JudgeJudges ==
  ASSUME TypeOK, OwnInv, outcome \in [Jobs -> Concluded], NEW j \in Jobs, Judge(j) PROVE Judges(j)
  <1>1. /\ UNCHANGED <<runs, proc, wk, status, outcome>> /\ wk'[j] # "none"
        /\ ~Streaming(j) /\ ~Streaming(j)'
    BY DEF Judge, vars, Streaming
  <1>2. got[j] = <<j, runs[j]>>
    BY DEF Judge, OwnInv
  <1>3. CASE proc[got[j]] = "ok" /\ Call(j, "ok") /\ UNCHANGED flawed
    <2>1. Describes(j, "unjudged") => Describes(j, "whole")'
      <3>1. runs[j] \in Nat
        BY JobsAssumption DEF TypeOK
      <3>2. \A n \in 1 .. runs[j] : n \in 1 .. runs[j] - 1 \/ n = runs[j]
        BY <3>1
      <3>3. QED BY <1>1, <1>2, <1>3, <3>2 DEF Describes
    <2>2. \A grade : GradeAfter("ok", grade) = IF grade = "unjudged" THEN "whole" ELSE grade
      BY DEF GradeAfter
    <2>3. \A grade, v : Allowed("ok", v, grade)
      BY DEF Allowed
    <2>4. outcome' = [outcome EXCEPT ![j] = VerdictAfter("ok", @)]
      BY <1>1, NoVerdict
    <2>5. \A grade, next \in Grades :
              Describes(j, grade) /\ next = GradeAfter("ok", grade)
              => Allowed("ok", outcome[j], grade) /\ Describes(j, next)'
      BY <1>1, <1>3, <2>1, <2>2, <2>3, StillSeen
    <2>6. QED BY <1>3, <2>4, <2>5, JudgesBy
  <1>4. ASSUME NEW call \in {"unsure", "bad"}, Call(j, call) PROVE Judges(j)
    <2>1. \A grade : GradeAfter(call, grade) = "spoiled" /\ (\A v : Allowed(call, v, grade))
      BY DEF GradeAfter, Allowed
    <2>2. outcome' = [outcome EXCEPT ![j] = VerdictAfter(call, @)]
      BY <1>1, NoVerdict
    <2>3. QED BY <1>4, <2>1, <2>2, Spoiled, JudgesBy
  <1>5. QED BY <1>3, <1>4 DEF Judge

LEMMA BranchJudges ==
  ASSUME outcome \in [Jobs -> Concluded], NEW j \in Jobs, Branch(j) PROVE Judges(j)
  <1>1. UNCHANGED <<runs, proc, wk, status, outcome>> /\ wk'[j] # "none"
        /\ (Streaming(j)' => Streaming(j))
    BY DEF Branch, vars, Ready, Streaming
  <1>2. CASE Call(j, "flaw")
    <2>1. \A grade : GradeAfter("flaw", grade) = "spoiled" /\ (\A v : Allowed("flaw", v, grade))
      BY DEF GradeAfter, Allowed
    <2>2. outcome' = [outcome EXCEPT ![j] = VerdictAfter("flaw", @)]
      BY <1>1, NoVerdict
    <2>3. QED BY <1>2, <2>1, <2>2, Spoiled, JudgesBy
  <1>3. ASSUME NEW call \in {"skip", "whole", "lacking", "judged", "unjudged"},
               Call(j, call), UNCHANGED flawed, \A grade : Allowed(call, outcome[j], grade)
        PROVE  Judges(j)
    <2>1. outcome' = [outcome EXCEPT ![j] = VerdictAfter(call, @)]
      BY <1>1, NoVerdict
    <2>2. \A grade : GradeAfter(call, grade) = grade
      BY QuietGrade DEF Quietly
    <2>3. \A grade, next \in Grades :
              Describes(j, grade) /\ next = GradeAfter(call, grade)
              => Allowed(call, outcome[j], grade) /\ Describes(j, next)'
      BY <1>1, <1>3, <2>2, StillSeen
    <2>4. QED BY <1>3, <2>1, <2>3, JudgesBy
  <1>4. \E call \in {"skip", "whole", "lacking", "judged", "unjudged", "flaw"} :
           /\ Call(j, call) /\ (call # "flaw" => UNCHANGED flawed)
           /\ \A grade : Allowed(call, outcome[j], grade)
    BY DEF Branch, Allowed
  <1>5. QED BY <1>2, <1>3, <1>4

(* A step that launches nothing and says nothing. *)
LEMMA QuietJudges ==
  ASSUME outcome \in [Jobs -> Concluded], NEW j \in Jobs, NEW call \in Quietly, Call(j, call),
         call \notin {"on", "more", "whole", "lacking", "judged", "unjudged",
                      "noteCompleted", "noteFailed", "STOPPED"},
         UNCHANGED <<flawed, runs, proc, status, outcome>>,
         wk'[j] = "none" => wk[j] = "none", Streaming(j)' => Streaming(j)
  PROVE  Judges(j)
  <1>1. outcome' = [outcome EXCEPT ![j] = VerdictAfter(call, @)]
    <2>1. VerdictAfter(call, outcome[j]) = outcome[j]
      BY QuietGrade
    <2>2. QED BY <2>1
  <1>2. \A grade, v : Allowed(call, v, grade)
    BY DEF Allowed
  <1>3. \A grade : GradeAfter(call, grade) = grade
    BY QuietGrade
  <1>4. \A grade, next \in Grades :
            Describes(j, grade) /\ next = GradeAfter(call, grade)
            => Allowed(call, outcome[j], grade) /\ Describes(j, next)'
    BY <1>2, <1>3, StillSeen
  <1>5. QED BY <1>1, <1>4, JudgesBy

LEMMA KeepsJudging ==
  ASSUME NEW j, UNCHANGED <<at, outcome, flawed, runs, proc>>, wk'[j] # "none",
         Streaming(j)' => Streaming(j), Streaming(j) \/ UNCHANGED status
  PROVE  Keeps(j)
  <1>1. ASSUME NEW grade \in Grades, Describes(j, grade) PROVE Describes(j, grade)'
    <2>1. grade = "cut" => UNCHANGED status
      BY <1>1 DEF Describes
    <2>2. QED BY <1>1, <2>1, StillSeen
  <1>2. QED BY <1>1 DEF Keeps

LEMMA StepJudges ==
  ASSUME TypeOK, OwnInv, outcome \in [Jobs -> Concluded], NEW j \in Jobs,
         Step(j) \/ OnLine(j)
  PROVE  Judges(j) \/ Keeps(j)
  <1>1. CASE Say(j) \/ Excepted(j)
    BY <1>1, SayJudges
  <1>2. CASE Conclude(j)
    BY <1>2, ConcludeJudges
  <1>3. CASE Look(j) \/ Judge(j) \/ Branch(j) \/ Launch(j)
    BY <1>3, LookJudges, JudgeJudges, BranchJudges, LaunchJudges
  <1>4. CASE Unit(j) \/ WriteRecord(j) \/ Take(j) \/ Give(j)
    <2>1. PICK call \in {"unit", "turn", "write"} \cup Resources \cup {GivenBackBy[r] : r \in Resources} :
                Call(j, call)
      BY <1>4 DEF Unit, WriteRecord, Take, Give
    <2>2. call \in Quietly
          /\ call \notin {"on", "more", "whole", "lacking", "judged", "unjudged",
                          "noteCompleted", "noteFailed", "STOPPED"}
      BY <2>1 DEF Quietly, Resources, GivenBackBy
    <2>3. UNCHANGED <<flawed, runs, proc, status, outcome, wk>>
      BY <1>4 DEF Unit, WriteRecord, Take, Give, vars
    <2>4. QED BY <2>1, <2>2, <2>3, QuietJudges DEF Streaming
  <1>5. CASE Close(j)
    <2>1. PICK call \in {"free", "freeClear", "suppress", "endSuppress", "finalFree"} : Call(j, call)
      BY <1>5 DEF Close
    <2>2. Work(j) /\ ~StartTool(j) /\ UNCHANGED <<flawed, outcome, status>>
      BY <1>5 DEF Close, Work, Progress, Finally, InnerFinally, BeginSuppress, EndSuppress,
         FinalFree, StartTool, Worker, jobVars, AfterFinally, TypeOK
    <2>3. UNCHANGED <<runs, proc>> /\ wk'[j] # "none" /\ (Streaming(j)' => Streaming(j))
      BY <2>2, WorkTools
    <2>4. call \in Quietly
      BY DEF Quietly
    <2>5. QED BY <2>1, <2>2, <2>3, <2>4, QuietJudges
  <1>6. CASE Stream(j) \/ ClearHandle(j) \/ OnLine(j)
    <2>1. UNCHANGED <<at, outcome, flawed>>
      BY <1>6 DEF Stream, ClearHandle, OnLine, progVars
    <2>2. Work(j) /\ ~StartTool(j) /\ (Streaming(j) \/ UNCHANGED status)
      <3>1. CASE Stream(j)
        BY <3>1 DEF Stream, StreamEnds, StreamReturns, Work, Progress, Worker, StartTool,
           Streaming, TypeOK
      <3>2. CASE ClearHandle(j)
        BY <3>2 DEF ClearHandle, ClearCheck, ClearDrop, Work, Progress, Worker, StartTool,
           jobVars
      <3>3. CASE OnLine(j)
        BY <3>3, SetStatusIsWork DEF OnLine, LogLine, SetStatus, Work, StartTool, Worker, Streaming
      <3>4. QED BY <1>6, <3>1, <3>2, <3>3
    <2>3. UNCHANGED <<runs, proc>> /\ wk'[j] # "none" /\ (Streaming(j)' => Streaming(j))
      BY <2>2, WorkTools
    <2>4. QED BY <2>1, <2>2, <2>3, KeepsJudging
  <1>7. QED BY <1>1, <1>2, <1>3, <1>4, <1>5, <1>6 DEF Step

(* A worker's judgement follows its table. *)
LEMMA OwnJudged ==
  ASSUME NEW seen, AreAssessments(seen), kind \in Choices, DOMAIN at = Jobs,
         outcome \in [Jobs -> Concluded], NEW j \in Jobs, JudgedOf(seen, j),
         UNCHANGED kind, Judges(j) \/ Keeps(j)
  PROVE  JudgedOf(seen, j)'
  <1> DEFINE t == Program[kind[j]]
             S == seen[kind[j]]
  <1>1. CASE Keeps(j)
    BY <1>1 DEF Keeps, JudgedOf
  <1>2. CASE Judges(j)
    <2>1. PICK call : /\ Call(j, call)
                      /\ outcome' = [outcome EXCEPT ![j] = VerdictAfter(call, @)]
                      /\ \A grade, next \in Grades :
                            Describes(j, grade) /\ next = GradeAfter(call, grade)
                            => Allowed(call, outcome[j], grade) /\ Describes(j, next)'
      BY <1>2 DEF Judges
    <2>2. kind[j] # NoKind /\ IsAssessment(S, t) /\ at[j] \in DOMAIN t.code
      BY <2>1 DEF Call, AreAssessments, JudgedOf
    <2>3. PICK grade \in Grades : <<outcome[j], grade>> \in S[at[j]] /\ Describes(j, grade)
      BY <2>2 DEF JudgedOf
    <2>4. PICK step \in t.code[at[j]] : step[1] = call /\ at' = [at EXCEPT ![j] = step[2]]
      BY <2>1 DEF Call
    <2> DEFINE next == GradeAfter(call, grade)
               verdict == VerdictAfter(call, outcome[j])
    <2>5. next \in Grades
      BY <2>3 DEF Grades, GradeAfter
    <2>6. at'[j] = step[2] /\ outcome'[j] = verdict /\ step[2] \in DOMAIN t.code
      BY <2>1, <2>2, <2>4 DEF IsAssessment, IsTable
    <2>7. Allowed(call, outcome[j], grade) /\ Describes(j, next)'
      <3> HIDE DEF next
      <3>1. \A n \in Grades : n = GradeAfter(call, grade)
               => Allowed(call, outcome[j], grade) /\ Describes(j, n)'
        BY <2>1, <2>3
      <3>2. QED BY <2>5, <3>1 DEF next
    <2>8. <<verdict, next>> \in AssessedAfter(call, S[at[j]])
      <3>1. \E a \in {b \in S[at[j]] : Allowed(call, b[1], b[2])} :
               <<verdict, next>> = <<VerdictAfter(call, a[1]), GradeAfter(call, a[2])>>
        <4>1. <<outcome[j], grade>>[1] = outcome[j] /\ <<outcome[j], grade>>[2] = grade
          OBVIOUS
        <4>2. QED BY <2>3, <2>7, <4>1
      <3>2. QED BY <3>1 DEF AssessedAfter
    <2>9. <<verdict, next>> \in S[step[2]]
      BY <2>2, <2>4, <2>8 DEF IsAssessment
    <2> HIDE DEF next, verdict
    <2>10. <<outcome'[j], next>> \in seen[kind'[j]][at'[j]]
      BY <2>6, <2>9
    <2>11. \E g \in Grades : <<outcome'[j], g>> \in seen[kind'[j]][at'[j]] /\ Describes(j, g)'
      BY <2>5, <2>7, <2>10
    <2>12. QED BY <2>2, <2>6, <2>11 DEF JudgedOf
  <1>3. QED BY <1>1, <1>2

(* What is seen of a job that does not move. *)
LEMMA RestJudged ==
  ASSUME NEW seen, NEW j, JudgedOf(seen, j), kind'[j] = kind[j], at'[j] = at[j],
         outcome'[j] = outcome[j],
         \A grade \in Grades : Describes(j, grade) => Describes(j, grade)'
  PROVE  JudgedOf(seen, j)'
  BY DEF JudgedOf

LEMMA StepIsAsked ==
  ASSUME Unasked, NEW j \in Jobs, Step(j) \/ Raises(j) \/ OnLine(j) PROVE Asked(j)
  <1>1. CASE \E call : Call(j, call)
    BY <1>1 DEF Call, Asked
  <1>2. CASE wk[j] # "none"
    BY <1>2, WorkIsAsked
  <1>3. Step(j) => (\E call : Call(j, call)) \/ wk[j] # "none"
    BY DEF Step, Say, Look, Launch, Stream, Judge, Unit, Branch, Conclude, WriteRecord, Take,
       Give, Excepted, Close, ClearHandle, StreamEnds, StreamReturns, ClearCheck, ClearDrop,
       Worker
  <1>4. QED BY <1>1, <1>2, <1>3 DEF Raises, OnLine, Ready

(* ... while others do. *)
LEMMA OthersJudged ==
  ASSUME Undivided, TypeOK, Unasked, NEW seen, JudgedInv(seen), NEW j \in Jobs,
         Step(j) \/ Raises(j) \/ OnLine(j), NEW k \in Jobs, k # j
  PROVE  JudgedOf(seen, k)'
  <1>1. ~Describes(k, "cut")
    <2>1. CASE Stops = {}
      BY <2>1 DEF JudgedInv, Describes
    <2>2. CASE Stops # {}
      <3>1. Asked(j)
        BY StepIsAsked
      <3>2. wk[k] # "none" => Asked(k)
        BY WorkIsAsked
      <3>3. QED BY <2>2, <3>1, <3>2, OnlyOneAsked DEF JudgedInv, Describes
    <2>3. QED BY <2>1, <2>2
  <1>2. /\ runs'[k] = runs[k]
        /\ \A n \in 1 .. runs[k] : proc'[<<k, n>>] = proc[<<k, n>>]
    BY StepIsWork, WorkTools DEF vars
  <1>3. /\ kind'[k] = kind[k] /\ at'[k] = at[k] /\ outcome'[k] = outcome[k]
        /\ k \in flawed' => k \in flawed
    <2> USE DEF JudgedInv, Call, dataVars, progVars
    <2>1. CASE Say(j) \/ Look(j) \/ Launch(j) \/ Stream(j) \/ Judge(j) \/ Unit(j)
      BY <2>1 DEF Say, Look, Launch, Stream, Judge, Unit
    <2>2. CASE Branch(j) \/ Conclude(j) \/ WriteRecord(j) \/ Take(j) \/ Give(j)
      BY <2>2 DEF Branch, Conclude, WriteRecord, Take, Give
    <2>3. CASE Excepted(j) \/ Close(j) \/ ClearHandle(j) \/ Raises(j) \/ OnLine(j)
      BY <2>3 DEF Excepted, Close, ClearHandle, Raises, OnLine
    <2>4. QED BY <2>1, <2>2, <2>3 DEF Step
  <1>4. \A grade \in Grades : Describes(k, grade) => Describes(k, grade)'
    <2>1. runs[k] \in Nat
      BY JobsAssumption DEF TypeOK
    <2>2. 1 .. runs[k] - 1 \subseteq 1 .. runs[k]
      BY <2>1
    <2>3. QED BY <1>1, <1>2, <1>3, <2>2 DEF Describes
  <1>5. JudgedOf(seen, k)
    BY DEF JudgedInv
  <1>6. QED BY <1>3, <1>4, <1>5, RestJudged

(* An exception takes the judgement to the handler. *)
LEMMA RaisesJudged ==
  ASSUME NEW seen, AreAssessments(seen), kind \in Choices, DOMAIN at = Jobs,
         NEW j \in Jobs, JudgedOf(seen, j), Raises(j), kind[j] # NoKind
  PROVE  JudgedOf(seen, j)'
  <1> DEFINE t == Program[kind[j]]
             S == seen[kind[j]]
  <1>1. /\ UNCHANGED <<kind, outcome, status, wk, flawed, runs, proc>>
        /\ at[j] \in DOMAIN t.catch
        /\ at' = [at EXCEPT ![j] = t.catch[at[j]]]
    BY DEF Raises, dataVars, vars
  <1>2. IsAssessment(S, t) /\ at[j] \in DOMAIN t.code
    BY DEF AreAssessments, JudgedOf
  <1>3. PICK grade \in Grades : <<outcome[j], grade>> \in S[at[j]] /\ Describes(j, grade)
    BY DEF JudgedOf
  <1>4. at'[j] = t.catch[at[j]] /\ at'[j] \in DOMAIN t.code /\ S[at[j]] \subseteq S[at'[j]]
    BY <1>1, <1>2 DEF IsAssessment, IsTable
  <1>5. Describes(j, grade)'
    BY <1>1, <1>3 DEF Describes, Streaming
  <1>6. QED BY <1>1, <1>3, <1>4, <1>5 DEF JudgedOf

(* A worker shows no Stop that nobody asked for. *)
LEMMA SetStatusStops ==
  ASSUME NEW j, NEW s \in {"Working", "Ended"}, SetStatus(j, s), status' = "Stopped"
  PROVE  status = "Stopped"
  BY DEF SetStatus, WriteStatus

LEMMA StepStops ==
  ASSUME NEW j \in Jobs, Step(j) \/ Raises(j) \/ OnLine(j), status' = "Stopped"
  PROVE  status = "Stopped"
  <1>1. CASE Say(j) \/ Excepted(j) \/ Conclude(j) \/ OnLine(j)
    BY <1>1, SetStatusStops, ProgressShows DEF Say, Excepted, Conclude, OnLine, vars
  <1>2. CASE Launch(j) \/ Stream(j) \/ Close(j) \/ ClearHandle(j)
    BY <1>2, ProgressShows DEF Launch, Stream, Close, ClearHandle, Progress
  <1>3. CASE \/ Look(j) \/ Judge(j) \/ Unit(j) \/ Branch(j) \/ WriteRecord(j)
             \/ Take(j) \/ Give(j) \/ Raises(j)
    BY <1>3 DEF Look, Judge, Unit, Branch, WriteRecord, Take, Give, Raises, vars
  <1>4. QED BY <1>1, <1>2, <1>3 DEF Step

LEMMA StartStops ==
  ASSUME NEW j \in Jobs, Start(j)
  PROVE  UNCHANGED <<runs, proc>> /\ (status' = "Stopped" => status = "Stopped")
  BY DEF Start, Claim, Refuse, Crash, LeakCheck, LeakRelease, Initialise, Spawn, jobVars

(* A request starts its job while no worker sees a cut. *)
LEMMA ServeJudged ==
  ASSUME Undivided, OwnInv, Unasked, NEW seen, JudgedInv(seen), NEW j \in Jobs, Serve(j),
         UNCHANGED kind
  PROVE  JudgedInv(seen)'
  <1>1. UNCHANGED <<at, outcome, flawed>>
    BY DEF Serve, RouteClaim, RouteCheck, RouteInit, RouteOpen, RouteSpawn, RouteFails,
       RouteGoesOn, progVars
  <1>2. CASE Start(j)
    <2>1. \A k \in Jobs : ~Describes(k, "cut")
      <3>1. CASE Stops = {}
        BY <3>1 DEF JudgedInv, Describes
      <3>2. CASE Stops # {}
        <4>1. req[j] # "over"
          BY <1>2 DEF Start, Claim, Refuse, Crash, LeakCheck, LeakRelease, Initialise, Spawn,
             Request
        <4>2. Asked(j)
          BY WorkIsAsked DEF Serve, RouteClaim, RouteCheck, RouteInit, RouteOpen, RouteSpawn,
             RouteFails, Initialise, Spawn, Crash, LeakCheck, LeakRelease, Request, Asked
        <4>3. \A k \in Jobs : Describes(k, "cut") => Asked(k)
          BY WorkIsAsked DEF Describes
        <4>4. QED BY <3>2, <4>1, <4>2, <4>3, OnlyOneAsked DEF OwnInv, Describes, JudgedInv
      <3>3. QED BY <3>1, <3>2
    <2>2. UNCHANGED <<runs, proc>> /\ (status' = "Stopped" => status = "Stopped")
      BY <1>2, StartStops
    <2>3. \A k \in Jobs : \A grade \in Grades : Describes(k, grade) => Describes(k, grade)'
      BY <1>1, <2>1, <2>2 DEF Describes
    <2>4. \A k \in Jobs : JudgedOf(seen, k)'
      BY <1>1, <2>3, RestJudged DEF JudgedInv
    <2>5. QED BY <1>1, <2>2, <2>4 DEF JudgedInv
  <1>3. CASE UNCHANGED vars
    <2>1. UNCHANGED <<status, wk, runs, proc>>
      BY <1>3 DEF vars
    <2>2. QED BY <1>1, <2>1 DEF JudgedInv, JudgedOf, Describes, Streaming
  <1>4. QED BY <1>2, <1>3, ServeIsStart

(* Tools end, and Stops go on, beside what was seen. *)
LEMMA WorldJudged ==
  ASSUME NEW seen, JudgedInv(seen), TypeOK,
         \/ \E p \in Procs : ToolExits(p)
         \/ \E s \in Stops : StopRequest(s),
         UNCHANGED progVars
  PROVE  JudgedInv(seen)'
  <1>1. UNCHANGED <<kind, at, outcome, flawed>>
    BY DEF progVars
  <1>2. /\ UNCHANGED <<wk, runs>>
        /\ \A p \in Procs : proc[p] = "ok" => proc'[p] = "ok"
        /\ status' = status \/ (status' = "Stopped" /\ Stops # {})
    BY DEF ToolExits, StopRequest, StopCheck, StopKill, StopKillNamed, StopMark, StopSupersede,
       Kill, jobVars, TypeOK
  <1>3. \A k \in Jobs : \A n \in 1 .. runs[k] : <<k, n>> \in Procs
    BY JobsAssumption DEF TypeOK, Procs
  <1>4. \A k \in Jobs : 1 .. runs[k] - 1 \subseteq 1 .. runs[k]
    BY JobsAssumption DEF TypeOK
  <1>5. \A k \in Jobs : \A grade \in Grades : Describes(k, grade) => Describes(k, grade)'
    BY <1>1, <1>2, <1>3, <1>4 DEF Describes, Streaming
  <1>6. \A k \in Jobs : JudgedOf(seen, k)'
    BY <1>1, <1>5, RestJudged DEF JudgedInv
  <1>7. QED BY <1>1, <1>2, <1>6 DEF JudgedInv

(* Every step keeps the labels and the conclusions in their sets. *)
LEMMA StepConcludes ==
  ASSUME DOMAIN at = Jobs, outcome \in [Jobs -> Concluded], NEW j \in Jobs,
         Judges(j) \/ Keeps(j)
  PROVE  DOMAIN at' = Jobs /\ outcome' \in [Jobs -> Concluded]
  <1>1. \A call : VerdictAfter(call, outcome[j]) \in Concluded
    BY DEF VerdictAfter, Verdicts, Concluded, Final
  <1>2. QED BY <1>1 DEF Judges, Keeps, Call

LEMMA NextJudged ==
  ASSUME Undivided, NEW seen, AreAssessments(seen), JudgedInv(seen), IInv, OwnInv, Unasked,
         [WorkersNext]_workVars
  PROVE  JudgedInv(seen)'
  <1>1. UNCHANGED kind /\ TypeOK
    BY KindStays DEF IInv
  <1>2. /\ kind \in Choices /\ DOMAIN at = Jobs /\ outcome \in [Jobs -> Concluded]
        /\ \A k \in Jobs : JudgedOf(seen, k)
    BY DEF JudgedInv
  <1>3. ASSUME NEW j \in Jobs, Serve(j) PROVE JudgedInv(seen)'
    BY <1>1, <1>3, ServeJudged
  <1>4. ASSUME NEW j \in Jobs, Step(j) \/ Raises(j) \/ OnLine(j),
               DOMAIN at' = Jobs /\ outcome' \in [Jobs -> Concluded], JudgedOf(seen, j)'
        PROVE  JudgedInv(seen)'
    <2>1. \A k \in Jobs : JudgedOf(seen, k)'
      BY <1>1, <1>4, OthersJudged
    <2>2. Stops = {} => status' # "Stopped"
      BY <1>4, StepStops DEF JudgedInv
    <2>3. QED BY <1>1, <1>2, <1>4, <2>1, <2>2 DEF JudgedInv
  <1>5. ASSUME NEW j \in Jobs, Step(j) \/ OnLine(j) PROVE JudgedInv(seen)'
    <2>1. Judges(j) \/ Keeps(j)
      BY <1>1, <1>2, <1>5, StepJudges
    <2>2. QED BY <1>1, <1>2, <1>4, <1>5, <2>1, OwnJudged, StepConcludes
  <1>6. ASSUME NEW j \in Jobs, Raises(j) PROVE JudgedInv(seen)'
    <2>1. kind[j] # NoKind
      BY <1>6 DEF Raises, Ready, Unasked
    <2>2. DOMAIN at' = Jobs /\ outcome' \in [Jobs -> Concluded]
      BY <1>2, <1>6 DEF Raises
    <2>3. JudgedOf(seen, j)'
      BY <1>2, <1>6, <2>1, RaisesJudged
    <2>4. QED BY <1>4, <1>6, <2>2, <2>3
  <1>7. CASE /\ \/ \E p \in Procs : ToolExits(p)
                \/ \E s \in Stops : StopRequest(s)
             /\ UNCHANGED progVars
    BY <1>1, <1>7, WorldJudged
  <1>8. CASE UNCHANGED workVars
    BY <1>8 DEF workVars, vars, progVars, JudgedInv, JudgedOf, Describes, Streaming
  <1>9. QED BY <1>3, <1>5, <1>6, <1>7, <1>8 DEF WorkersNext

LEMMA InitJudged ==
  ASSUME NEW seen, AreAssessments(seen), WorkersInit PROVE JudgedInv(seen)
  <1>1. /\ kind \in Choices /\ at = [j \in Jobs |-> "begin"]
        /\ outcome = [j \in Jobs |-> "none"] /\ flawed = {}
        /\ runs = [j \in Jobs |-> 0] /\ status # "Stopped"
    BY DEF WorkersInit, Init
  <1>2. ASSUME NEW j \in Jobs PROVE JudgedOf(seen, j)
    <2>1. Describes(j, "whole") /\ "whole" \in Grades
      BY <1>1 DEF Describes, Grades
    <2>2. QED BY <1>1, <2>1 DEF JudgedOf, AreAssessments, IsAssessment, IsTable
  <1>3. QED BY <1>1, <1>2 DEF JudgedInv, Concluded

(* A verdict the assessment has is a sound one. *)
LEMMA JudgedIsWhole ==
  ASSUME NEW seen, AreAssessments(seen), JudgedInv(seen) PROVE CompletedMeansWhole
  <1> SUFFICES ASSUME NEW j \in Jobs, outcome[j] = "COMPLETED" PROVE Describes(j, "whole")
    BY DEF CompletedMeansWhole, Describes
  <1>1. JudgedOf(seen, j) /\ kind \in Choices
    BY DEF JudgedInv
  <1>2. kind[j] # NoKind
    BY <1>1 DEF JudgedOf
  <1>3. IsAssessment(seen[kind[j]], Program[kind[j]])
    BY <1>1, <1>2 DEF AreAssessments
  <1>4. PICK grade \in Grades : <<outcome[j], grade>> \in seen[kind[j]][at[j]] /\ Describes(j, grade)
    BY <1>1, <1>2 DEF JudgedOf
  <1>5. grade = "whole"
    <2>1. at[j] \in DOMAIN Program[kind[j]].code
      BY <1>1, <1>2 DEF JudgedOf
    <2>2. <<outcome[j], grade>>[1] = "COMPLETED" => <<outcome[j], grade>>[2] = "whole"
      BY <1>3, <1>4, <2>1 DEF IsAssessment
    <2>3. QED BY <2>2
  <1>6. QED BY <1>4, <1>5

LEMMA InitOwn == ASSUME Init PROVE OwnInv
  BY DEF Init, OwnInv, Streaming

LEMMA NextJudges ==
  ASSUME Undivided, NEW seen, AreAssessments(seen)
  PROVE  /\ IInv /\ (Stops = {} => QuietInv) /\ OwnInv /\ Unasked /\ JudgedInv(seen)
         /\ [WorkersNext]_workVars /\ [Next]_vars
         => OwnInv' /\ Unasked' /\ JudgedInv(seen)'
  BY NextOwn, NextsUnasked, NextJudged DEF JudgedInv

(* A job is judged COMPLETED only when every tool it ran succeeded and     *)
(* nothing of its evidence was cut, missing or unconfirmed: for any number *)
(* of tools and units, of jobs that nobody stops, or of Stops of the only  *)
(* job asked for; once the table of each kind of work has an assessment,   *)
(* which TLC finds of the repository's workers.                            *)
THEOREM WholeIfCompleted ==
  ASSUME Undivided, NEW CONSTANT seen, AreAssessments(seen)
  PROVE  WorkersSpec => []CompletedMeansWhole
  <1>1. WorkersInit => OwnInv /\ Unasked /\ JudgedInv(seen)
    BY InitOwn, InitJudged DEF WorkersInit, Init, Unasked
  <1>2. WorkersSpec => []IInv /\ [][Next]_vars
    BY ProgramsOnTheSlot, KeepsProtocol, PTL DEF KeepsSlotProtocol, Spec
  <1>3. WorkersSpec => [](Stops = {} => QuietInv)
    <2>1. CASE Stops = {}
      <3>1. Spec => [](IInv /\ QuietInv)
        BY <2>1, QuietInvariance
      <3>2. QED BY <3>1, KeepsProtocol, PTL DEF KeepsSlotProtocol
    <2>2. CASE Stops # {}
      <3>1. TRUE => (Stops = {} => QuietInv)
        BY <2>2
      <3>2. QED BY <3>1, PTL
    <2>3. QED BY <2>1, <2>2
  <1>4. JudgedInv(seen) => CompletedMeansWhole
    BY JudgedIsWhole
  <1>5. QED BY <1>1, <1>2, <1>3, <1>4, NextJudges, PTL DEF WorkersSpec

-----------------------------------------------------------------------------
(* Records are settled.                                                    *)

(* Books of all the kinds of work there are, balanced but for the kinds    *)
(* whose record may stay as it was opened.                                 *)
AreAllBooks(books) ==
    \A c \in Choices, j \in Jobs :
        c[j] # NoKind => /\ AreBooks(books[c[j]], Program[c[j]], Opens(Route[c[j]]))
                         /\ c[j] \notin Open => Balanced(books[c[j]])

Records == Final \cup {"none", "IN_PROGRESS"}

(* The record is not left as it was opened, but for a loss on the log. *)
Settled(j) == record[j] # "IN_PROGRESS" \/ j \in lost

EnteredOf(books, j) ==
    /\ wk[j] = "none" => at[j] = "begin" /\ outcome[j] = "none"
    /\ wk[j] # "none" => req[j] = "over"
    /\ kind[j] = NoKind => wk[j] = "none"
    /\ kind[j] # NoKind =>
          /\ at[j] \in DOMAIN Program[kind[j]].code
          /\ wk[j] = "none" => (record[j] # "none" => Opens(Route[kind[j]]))
          /\ wk[j] # "none" =>
                \E settled \in BOOLEAN : /\ <<outcome[j], settled>> \in books[kind[j]][at[j]]
                                         /\ settled => Settled(j)

BookInv(books) ==
    /\ kind \in Choices /\ rpc \in [Jobs -> Nat \ {0}]
    /\ at \in [Jobs -> Labels \cup {"begin"}]
    /\ outcome \in [Jobs -> Concluded]
    /\ record \in [Jobs -> Records]
    /\ \A j \in Jobs : EnteredOf(books, j)

(* One call, what it concludes and what it writes. *)
Enters(j) ==
    \E call : /\ Call(j, call)
              /\ outcome' = [outcome EXCEPT ![j] = VerdictAfter(call, @)]
              /\ Allowed(call, outcome[j], "whole")
              /\ IF call = "write"
                 THEN Put(j, IF outcome[j] = "none" THEN "IN_PROGRESS" ELSE outcome[j])
                 ELSE UNCHANGED <<record, lost>>

LEMMA EntersBy ==
  ASSUME NEW j, NEW call, Call(j, call), outcome' = [outcome EXCEPT ![j] = VerdictAfter(call, @)],
         Allowed(call, outcome[j], "whole"),
         IF call = "write"
         THEN Put(j, IF outcome[j] = "none" THEN "IN_PROGRESS" ELSE outcome[j])
         ELSE UNCHANGED <<record, lost>>
  PROVE  Enters(j)
  BY DEF Enters

LEMMA StepEnters ==
  ASSUME outcome \in [Jobs -> Concluded], NEW j \in Jobs, Step(j)
  PROVE  Enters(j) \/ UNCHANGED <<at, outcome, record, lost>>
  <1> USE DEF dataVars
  <1>1. CASE Say(j) \/ Look(j) \/ Launch(j) \/ Judge(j) \/ Unit(j) \/ Give(j) \/ Take(j)
    <2>1. PICK call : /\ Call(j, call) /\ call \notin DOMAIN Verdicts
                      /\ call \notin {"write", "whole", "lacking", "judged", "unjudged"}
      BY <1>1 DEF Say, Look, Launch, Judge, Unit, Give, Take, Verdicts, Resources, GivenBackBy
    <2>2. UNCHANGED <<outcome, record, lost>>
      BY <1>1 DEF Say, Look, Launch, Judge, Unit, Give, Take
    <2>3. outcome' = [outcome EXCEPT ![j] = VerdictAfter(call, @)]
      BY <2>1, <2>2, NoVerdict DEF Verdicts
    <2>4. Allowed(call, outcome[j], "whole")
      BY <2>1 DEF Allowed
    <2>5. QED BY <2>1, <2>2, <2>3, <2>4, EntersBy
  <1>2. CASE Branch(j)
    <2>1. PICK call \in {"skip", "flaw", "whole", "lacking", "judged", "unjudged"} :
                Call(j, call) /\ Allowed(call, outcome[j], "whole")
      BY <1>2 DEF Branch, Allowed
    <2>2. UNCHANGED <<outcome, record, lost>>
      BY <1>2 DEF Branch
    <2>3. outcome' = [outcome EXCEPT ![j] = VerdictAfter(call, @)]
      BY <2>1, <2>2, NoVerdict
    <2>4. QED BY <2>1, <2>2, <2>3, EntersBy
  <1>3. CASE Conclude(j)
    <2>1. PICK o \in Final : /\ outcome' = [outcome EXCEPT ![j] = o]
                             /\ \/ o # "STOPPED" /\ Call(j, o)
                                \/ Call(j, Noted[o])
      BY <1>3 DEF Conclude
    <2>2. PICK call \in {"COMPLETED", "FAILED", "STOPPED", "noteCompleted", "noteFailed"} :
                Call(j, call) /\ VerdictAfter(call, outcome[j]) = o
      BY <2>1, VerdictOf DEF Final, Noted
    <2>3. Allowed(call, outcome[j], "whole") /\ UNCHANGED <<record, lost>>
      BY <1>3, <2>2 DEF Allowed, Conclude
    <2>4. outcome' = [outcome EXCEPT ![j] = VerdictAfter(call, @)]
      BY <2>1, <2>2
    <2>5. QED BY <2>2, <2>3, <2>4, EntersBy
  <1>4. CASE Excepted(j)
    <2>1. outcome' = [outcome EXCEPT ![j] = VerdictAfter("raise", @)] /\ Call(j, "raise")
      BY <1>4, VerdictOf DEF Excepted
    <2>2. Allowed("raise", outcome[j], "whole") /\ UNCHANGED <<record, lost>>
      BY <1>4 DEF Excepted, Allowed
    <2>3. QED BY <2>1, <2>2, EntersBy
  <1>5. CASE WriteRecord(j)
    <2>1. /\ Call(j, "write") /\ UNCHANGED outcome
          /\ Put(j, IF outcome[j] = "none" THEN "IN_PROGRESS" ELSE outcome[j])
      BY <1>5 DEF WriteRecord
    <2>2. outcome' = [outcome EXCEPT ![j] = VerdictAfter("write", @)]
      BY <2>1, NoVerdict
    <2>3. Allowed("write", outcome[j], "whole")
      BY DEF Allowed
    <2>4. QED BY <2>1, <2>2, <2>3, EntersBy
  <1>6. CASE Close(j)
    <2>1. PICK call \in {"free", "freeClear", "suppress", "endSuppress", "finalFree"} : Call(j, call)
      BY <1>6 DEF Close
    <2>2. UNCHANGED <<outcome, record, lost>>
      BY <1>6 DEF Close
    <2>3. outcome' = [outcome EXCEPT ![j] = VerdictAfter(call, @)]
      BY <2>1, <2>2, NoVerdict
    <2>4. Allowed(call, outcome[j], "whole")
      BY <2>1 DEF Allowed
    <2>5. QED BY <2>1, <2>2, <2>3, <2>4, EntersBy
  <1>7. CASE Stream(j) \/ ClearHandle(j)
    BY <1>7 DEF Stream, ClearHandle, progVars
  <1>8. QED BY <1>1, <1>2, <1>3, <1>4, <1>5, <1>6, <1>7 DEF Step

(* A step of a worker's own that moves on at all is one of a worker that   *)
(* has been spawned.                                                       *)
LEMMA StepIsSpawned ==
  ASSUME TypeOK, NEW j \in Jobs, Step(j) \/ Raises(j) \/ OnLine(j)
  PROVE  wk[j] # "none" /\ wk'[j] # "none" /\ UNCHANGED req
  <1>1. Work(j) => wk[j] # "none" /\ wk'[j] # "none" /\ UNCHANGED req
    BY WorkTools DEF Work, Progress, StartTool, StreamEnds, StreamReturns, Finally, InnerFinally,
       ClearCheck, ClearDrop, BeginSuppress, EndSuppress, FinalFree, LogLine, SetStatus
  <1>2. CASE UNCHANGED vars
    <2>1. wk[j] # "none"
      <3>1. CASE Say(j) \/ Excepted(j) \/ Conclude(j)
        BY <3>1 DEF Say, Excepted, Conclude, SetStatus, Ready
      <3>2. CASE Launch(j) \/ Stream(j) \/ Close(j) \/ ClearHandle(j)
        BY <3>2, <1>1 DEF Launch, Stream, Close, ClearHandle, Work, Progress
      <3>3. CASE \/ Look(j) \/ Judge(j) \/ Unit(j) \/ Branch(j) \/ WriteRecord(j)
                 \/ Take(j) \/ Give(j) \/ Raises(j) \/ OnLine(j)
        BY <3>3 DEF Look, Judge, Unit, Branch, WriteRecord, Take, Give, Raises, OnLine, Ready
      <3>4. QED BY <3>1, <3>2, <3>3 DEF Step
    <2>2. QED BY <1>2, <2>1 DEF vars
  <1>3. QED BY <1>1, <1>2, StepIsWork

(* A job's entries after a call are among those its books have there. *)
LEMMA EntersEntered ==
  ASSUME NEW books, AreAllBooks(books), BookInv(books), NEW j \in Jobs, Enters(j),
         wk[j] # "none", wk'[j] # "none", UNCHANGED <<kind, req>>
  PROVE  EnteredOf(books, j)'
  <1> DEFINE t == Program[kind[j]]
             B == books[kind[j]]
  <1>1. PICK call : /\ Call(j, call)
                    /\ outcome' = [outcome EXCEPT ![j] = VerdictAfter(call, @)]
                    /\ Allowed(call, outcome[j], "whole")
                    /\ IF call = "write"
                       THEN Put(j, IF outcome[j] = "none" THEN "IN_PROGRESS" ELSE outcome[j])
                       ELSE UNCHANGED <<record, lost>>
    BY DEF Enters
  <1>2. /\ kind \in Choices /\ DOMAIN at = Jobs /\ outcome \in [Jobs -> Concluded]
        /\ record \in [Jobs -> Records] /\ EnteredOf(books, j)
    BY DEF BookInv
  <1>3. kind[j] # NoKind
    BY <1>1 DEF Call
  <1>4. AreBooks(B, t, Opens(Route[kind[j]])) /\ at[j] \in DOMAIN t.code
    BY <1>2, <1>3 DEF AreAllBooks, EnteredOf
  <1>5. PICK settled \in BOOLEAN : /\ <<outcome[j], settled>> \in B[at[j]]
                                   /\ settled => Settled(j)
    BY <1>2, <1>3 DEF EnteredOf
  <1>6. PICK step \in t.code[at[j]] : step[1] = call /\ at' = [at EXCEPT ![j] = step[2]]
    BY <1>1 DEF Call
  <1> DEFINE verdict == VerdictAfter(call, outcome[j])
             next == IF call = "write" THEN outcome[j] \in Final ELSE settled
  <1>7. at'[j] = step[2] /\ outcome'[j] = verdict /\ step[2] \in DOMAIN t.code
    BY <1>1, <1>2, <1>4, <1>6 DEF AreBooks, IsTable
  <1>8. <<verdict, next>> \in EnteredAfter(call, B[at[j]])
    <2>1. <<outcome[j], settled>>[1] = outcome[j] /\ <<outcome[j], settled>>[2] = settled
      OBVIOUS
    <2>2. <<outcome[j], settled>> \in {c \in B[at[j]] : Allowed(call, c[1], "whole")}
      BY <1>1, <1>5, <2>1
    <2>3. \E b \in {c \in B[at[j]] : Allowed(call, c[1], "whole")} :
             <<verdict, next>> = <<VerdictAfter(call, b[1]),
                                   IF call = "write" THEN b[1] \in Final ELSE b[2]>>
      BY <2>1, <2>2
    <2>4. QED BY <2>3 DEF EnteredAfter
  <1>9. <<verdict, next>> \in B[step[2]]
    BY <1>4, <1>6, <1>8 DEF AreBooks
  <1>10. next => Settled(j)'
    <2>1. CASE call = "write"
      <3>1. outcome[j] \in Final => outcome[j] # "none" /\ outcome[j] # "IN_PROGRESS"
        BY DEF Final
      <3>2. outcome[j] \in Final => record'[j] = outcome[j] \/ j \in lost'
        BY <1>1, <1>2, <2>1, <3>1 DEF Put
      <3>3. QED BY <2>1, <3>1, <3>2 DEF Settled
    <2>2. CASE call # "write"
      BY <1>1, <1>5, <2>2 DEF Settled
    <2>3. QED BY <2>1, <2>2
  <1>11. next \in BOOLEAN
    <2>1. (outcome[j] \in Final) \in BOOLEAN
      OBVIOUS
    <2>2. QED BY <1>5, <2>1
  <1> HIDE DEF next, verdict
  <1>12. \E s \in BOOLEAN : /\ <<outcome'[j], s>> \in books[kind'[j]][at'[j]]
                            /\ s => Settled(j)'
    BY <1>7, <1>9, <1>10, <1>11
  <1>13. req[j] = "over" /\ kind' = kind /\ req' = req
    BY <1>2 DEF EnteredOf
  <1>14. QED BY <1>3, <1>7, <1>12, <1>13 DEF EnteredOf

(* What a write may leave in the record. *)
LEMMA EntersRecord ==
  ASSUME NEW books, AreAllBooks(books), BookInv(books), NEW j \in Jobs, Enters(j),
         wk[j] # "none"
  PROVE  /\ at' \in [Jobs -> Labels \cup {"begin"}] /\ outcome' \in [Jobs -> Concluded]
         /\ record' \in [Jobs -> Records]
         /\ \A k \in Jobs : k # j => /\ at'[k] = at[k] /\ outcome'[k] = outcome[k]
                                     /\ record'[k] = record[k] /\ (k \in lost => k \in lost')
  <1>1. PICK call : /\ Call(j, call)
                    /\ outcome' = [outcome EXCEPT ![j] = VerdictAfter(call, @)]
                    /\ IF call = "write"
                       THEN Put(j, IF outcome[j] = "none" THEN "IN_PROGRESS" ELSE outcome[j])
                       ELSE UNCHANGED <<record, lost>>
    BY DEF Enters
  <1>2. /\ kind \in Choices /\ at \in [Jobs -> Labels \cup {"begin"}]
        /\ outcome \in [Jobs -> Concluded] /\ record \in [Jobs -> Records] /\ EnteredOf(books, j)
    BY DEF BookInv
  <1>3. VerdictAfter(call, outcome[j]) \in Concluded
    BY <1>2 DEF VerdictAfter, Verdicts, Concluded, Final
  <1>4. call = "write" => outcome[j] # "raised"
    <2>1. SUFFICES ASSUME call = "write" PROVE outcome[j] # "raised"
      OBVIOUS
    <2>2. kind[j] # NoKind /\ \E step \in Program[kind[j]].code[at[j]] : step[1] = "write"
      BY <1>1, <2>1 DEF Call
    <2>3. /\ AreBooks(books[kind[j]], Program[kind[j]], Opens(Route[kind[j]]))
          /\ at[j] \in DOMAIN Program[kind[j]].code
      BY <1>2, <2>2 DEF AreAllBooks, EnteredOf
    <2>4. PICK settled \in BOOLEAN : <<outcome[j], settled>> \in books[kind[j]][at[j]]
      BY <1>2, <2>2 DEF EnteredOf
    <2>5. <<outcome[j], settled>>[1] # "raised"
      BY <2>2, <2>3, <2>4 DEF AreBooks
    <2>6. QED BY <2>5
  <1>5. call = "write" => (IF outcome[j] = "none" THEN "IN_PROGRESS" ELSE outcome[j]) \in Records
    BY <1>2, <1>4 DEF Concluded, Records
  <1>6. record' \in [Jobs -> Records]
    BY <1>1, <1>2, <1>5 DEF Put
  <1>7. at' \in [Jobs -> Labels \cup {"begin"}]
    <2>1. kind[j] # NoKind
      BY <1>1 DEF Call
    <2>2. /\ IsTable(Program[kind[j]]) /\ at[j] \in DOMAIN Program[kind[j]].code
          /\ kind[j] \in Kinds
      <3>1. kind[j] \in Kinds
        BY <1>2, <2>1, WorkersAssumption
      <3>2. AreBooks(books[kind[j]], Program[kind[j]], Opens(Route[kind[j]]))
        BY <1>2, <2>1 DEF AreAllBooks
      <3>3. QED BY <1>2, <2>1, <3>1, <3>2 DEF AreBooks, EnteredOf
    <2>3. PICK step \in Program[kind[j]].code[at[j]] : at' = [at EXCEPT ![j] = step[2]]
      BY <1>1 DEF Call
    <2>4. step[2] \in DOMAIN Program[kind[j]].code
      BY <2>2, <2>3 DEF IsTable
    <2>5. step[2] \in Labels
      BY <2>2, <2>4 DEF Labels
    <2>6. QED BY <1>2, <2>3, <2>5
  <1>8. QED BY <1>1, <1>2, <1>3, <1>6, <1>7 DEF Call, Put

LEMMA RaisesEntered ==
  ASSUME NEW books, AreAllBooks(books), BookInv(books), NEW j \in Jobs, Raises(j),
         wk[j] # "none"
  PROVE  EnteredOf(books, j)' /\ at' \in [Jobs -> Labels \cup {"begin"}]
  <1> DEFINE t == Program[kind[j]]
             B == books[kind[j]]
  <1>1. /\ UNCHANGED <<kind, outcome, record, lost, wk, req>>
        /\ at[j] \in DOMAIN t.catch
        /\ at' = [at EXCEPT ![j] = t.catch[at[j]]]
    BY DEF Raises, dataVars, vars
  <1>2. EnteredOf(books, j) /\ kind \in Choices /\ DOMAIN at = Jobs
    BY DEF BookInv
  <1>3. kind[j] # NoKind
    BY <1>2 DEF EnteredOf
  <1>4. AreBooks(B, t, Opens(Route[kind[j]])) /\ at[j] \in DOMAIN t.code
    BY <1>2, <1>3 DEF AreAllBooks, EnteredOf
  <1>5. PICK settled \in BOOLEAN : /\ <<outcome[j], settled>> \in B[at[j]]
                                   /\ settled => Settled(j)
    BY <1>2, <1>3 DEF EnteredOf
  <1>6. at'[j] = t.catch[at[j]] /\ at'[j] \in DOMAIN t.code /\ B[at[j]] \subseteq B[at'[j]]
    BY <1>1, <1>2, <1>4 DEF AreBooks, IsTable
  <1>7. Settled(j)' = Settled(j)
    BY <1>1 DEF Settled
  <1>8. kind[j] \in Kinds /\ at'[j] \in Labels /\ at \in [Jobs -> Labels \cup {"begin"}]
    BY <1>2, <1>3, <1>6, WorkersAssumption DEF Labels, BookInv
  <1>9. at' \in [Jobs -> Labels \cup {"begin"}]
    BY <1>1, <1>2, <1>6, <1>8
  <1>10. QED BY <1>1, <1>2, <1>3, <1>5, <1>6, <1>7, <1>9 DEF EnteredOf

(* A job whose own variables do not move, but for losses on the log. *)
LEMMA RestEntered ==
  ASSUME NEW books, NEW j, EnteredOf(books, j),
         kind'[j] = kind[j], at'[j] = at[j], outcome'[j] = outcome[j], record'[j] = record[j],
         j \in lost => j \in lost', (wk'[j] = "none") = (wk[j] = "none"),
         wk[j] # "none" => req'[j] = "over"
  PROVE  EnteredOf(books, j)'
  BY DEF EnteredOf, Settled

(* A start route opens a record before it spawns the worker, or never. *)
LEMMA ServeEntered ==
  ASSUME NEW books, AreAllBooks(books), BookInv(books), TypeOK, Unasked, UNCHANGED kind,
         NEW j \in Jobs, Serve(j)
  PROVE  BookInv(books)'
  <1>1. /\ UNCHANGED <<at, outcome>> /\ rpc' \in [Jobs -> Nat \ {0}]
        /\ \/ UNCHANGED <<record, lost>>
           \/ RouteOpen(j)
    BY DEF Serve, RouteClaim, RouteCheck, RouteInit, RouteOpen, RouteSpawn, RouteFails,
       RouteGoesOn, progVars, BookInv
  <1>2. /\ record' \in [Jobs -> Records]
        /\ \A k \in Jobs : (k \in lost => k \in lost') /\ (k # j => record'[k] = record[k])
    BY <1>1 DEF RouteOpen, Put, Records, BookInv
  <1>3. \A k \in Jobs : k # j => req'[k] = req[k] /\ wk'[k] = wk[k]
    BY ServeIsStart, StartFrame DEF vars
  <1>4. EnteredOf(books, j) /\ kind[j] # NoKind
    BY WorkIsAsked DEF BookInv, Asked, Serve, RouteClaim, RouteCheck, RouteInit, RouteOpen,
       RouteSpawn, RouteFails, Initialise, Spawn, Crash, LeakCheck, LeakRelease, Request
  <1>5. req[j] # "over" /\ wk[j] = "none"
    <2>1. req[j] # "over"
      BY DEF Serve, RouteClaim, RouteCheck, RouteInit, RouteOpen, RouteSpawn, RouteFails,
         Claim, Refuse, Initialise, Spawn, Crash, LeakCheck, LeakRelease, Request
    <2>2. QED BY <1>4, <2>1 DEF EnteredOf
  <1>6. AreBooks(books[kind[j]], Program[kind[j]], Opens(Route[kind[j]]))
    BY <1>4 DEF AreAllBooks, BookInv
  <1>7. \/ wk'[j] = "none" /\ (record'[j] # "none" => Opens(Route[kind[j]]))
        \/ wk'[j] # "none" /\ req'[j] = "over" /\ UNCHANGED record
    <2>1. CASE RouteOpen(j)
      <3>1. rpc[j] \in Nat \ {0} /\ rpc[j] =< Len(Route[kind[j]]) /\ Route[kind[j]][rpc[j]] = "open"
        BY <2>1 DEF RouteOpen, RouteCall, BookInv
      <3>2. Route[kind[j]] \in Seq(STRING)
        BY <1>4, WorkersAssumption DEF BookInv
      <3>3. rpc[j] \in DOMAIN Route[kind[j]]
        BY <3>1, <3>2
      <3>4. QED BY <1>5, <2>1, <3>1, <3>3 DEF Opens, RouteOpen, vars
    <2>2. CASE RouteSpawn(j)
      BY <1>5, <2>2 DEF RouteSpawn, Spawn, Request, TypeOK, progVars
    <2>3. CASE ~RouteOpen(j) /\ ~RouteSpawn(j)
      <3>1. UNCHANGED <<wk, record>>
        BY <1>1, <2>3 DEF Serve, RouteClaim, RouteCheck, RouteInit, RouteFails, Claim, Refuse,
           Initialise, Crash, LeakCheck, LeakRelease, vars
      <3>2. QED BY <1>4, <1>5, <3>1 DEF EnteredOf
    <2>4. QED BY <2>1, <2>2, <2>3
  <1>8. EnteredOf(books, j)'
    <2>1. /\ at'[j] = "begin" /\ outcome'[j] = "none"
          /\ at'[j] \in DOMAIN Program[kind'[j]].code
      BY <1>1, <1>4, <1>5, <1>6 DEF EnteredOf, AreBooks, IsTable
    <2>2. CASE wk'[j] = "none"
      BY <1>4, <1>7, <2>1, <2>2 DEF EnteredOf
    <2>3. CASE wk'[j] # "none"
      <3>1. ~Opens(Route[kind[j]]) => Settled(j)'
        BY <1>4, <1>5, <1>7, <2>3 DEF EnteredOf, Settled
      <3>2. (~Opens(Route[kind[j]])) \in BOOLEAN
        BY DEF Opens
      <3>3. \E s \in BOOLEAN : /\ <<outcome'[j], s>> \in books[kind'[j]][at'[j]]
                               /\ s => Settled(j)'
        BY <1>6, <2>1, <3>1, <3>2 DEF AreBooks
      <3>4. QED BY <1>4, <1>7, <2>1, <2>3, <3>3 DEF EnteredOf
    <2>4. QED BY <2>2, <2>3
  <1>9. ASSUME NEW k \in Jobs, k # j PROVE EnteredOf(books, k)'
    <2>1. EnteredOf(books, k)
      BY DEF BookInv
    <2>2. wk[k] # "none" => req'[k] = "over"
      BY <1>3, <1>9, <2>1 DEF EnteredOf
    <2>3. QED BY <1>1, <1>2, <1>3, <1>9, <2>1, <2>2, RestEntered
  <1>10. QED BY <1>1, <1>2, <1>8, <1>9 DEF BookInv

LEMMA NextBooks ==
  ASSUME NEW books, AreAllBooks(books), BookInv(books), TypeOK, Unasked, [WorkersNext]_workVars
  PROVE  BookInv(books)'
  <1>1. UNCHANGED kind
    BY KindStays
  <1>2. /\ outcome \in [Jobs -> Concluded]
        /\ \A k \in Jobs : EnteredOf(books, k)
    BY DEF BookInv
  <1>3. ASSUME NEW j \in Jobs, Step(j) \/ Raises(j) \/ OnLine(j)
        PROVE  /\ wk[j] # "none" /\ wk'[j] # "none" /\ UNCHANGED <<req, rpc>>
               /\ \A k \in Jobs : k # j => wk'[k] = wk[k]
    <2>1. wk[j] # "none" /\ wk'[j] # "none" /\ UNCHANGED req
      BY <1>3, StepIsSpawned
    <2>2. \A k \in Jobs : k # j => wk'[k] = wk[k]
      BY <1>3, StepIsWork, WorkTools DEF vars
    <2>3. UNCHANGED rpc
      BY <1>3 DEF Step, Say, Look, Launch, Stream, Judge, Unit, Branch, Conclude, WriteRecord,
         Take, Give, Excepted, Close, ClearHandle, Raises, OnLine, dataVars, progVars
    <2>4. QED BY <2>1, <2>2, <2>3
  <1>4. ASSUME NEW j \in Jobs, Step(j) \/ Raises(j) \/ OnLine(j),
               UNCHANGED <<at, outcome, record, lost>>
        PROVE  BookInv(books)'
    <2>1. \A k \in Jobs : EnteredOf(books, k)'
      <3>1. ASSUME NEW k \in Jobs PROVE EnteredOf(books, k)'
        <4>1. (wk'[k] = "none") = (wk[k] = "none")
          BY <1>3, <1>4
        <4>2. wk[k] # "none" => req'[k] = "over"
          BY <1>2, <1>3, <1>4 DEF EnteredOf
        <4>3. QED BY <1>1, <1>2, <1>4, <4>1, <4>2, RestEntered
      <3>2. QED BY <3>1
    <2>2. QED BY <1>1, <1>3, <1>4, <2>1 DEF BookInv
  <1>5. ASSUME NEW j \in Jobs, Step(j) \/ Raises(j), EnteredOf(books, j)',
               at' \in [Jobs -> Labels \cup {"begin"}], outcome' \in [Jobs -> Concluded],
               record' \in [Jobs -> Records],
               \A k \in Jobs : k # j => /\ at'[k] = at[k] /\ outcome'[k] = outcome[k]
                                        /\ record'[k] = record[k] /\ (k \in lost => k \in lost')
        PROVE  BookInv(books)'
    <2>1. ASSUME NEW k \in Jobs, k # j PROVE EnteredOf(books, k)'
      <3>1. wk'[k] = wk[k] /\ (wk[k] # "none" => req'[k] = "over")
        BY <1>2, <1>3, <1>5, <2>1 DEF EnteredOf
      <3>2. QED BY <1>1, <1>2, <1>5, <2>1, <3>1, RestEntered
    <2>2. \A k \in Jobs : EnteredOf(books, k)'
      BY <1>5, <2>1
    <2>3. QED BY <1>1, <1>3, <1>5, <2>2 DEF BookInv
  <1>6. ASSUME NEW j \in Jobs, Step(j) PROVE BookInv(books)'
    <2>1. CASE Enters(j)
      BY <1>1, <1>3, <1>5, <1>6, <2>1, EntersEntered, EntersRecord
    <2>2. CASE UNCHANGED <<at, outcome, record, lost>>
      BY <1>4, <1>6, <2>2
    <2>3. QED BY <1>2, <1>6, <2>1, <2>2, StepEnters
  <1>7. ASSUME NEW j \in Jobs, Raises(j) PROVE BookInv(books)'
    <2>1. /\ UNCHANGED <<outcome, record, lost>>
          /\ \A k \in Jobs : k # j => at'[k] = at[k]
      BY <1>7 DEF Raises, dataVars, BookInv
    <2>2. EnteredOf(books, j)' /\ at' \in [Jobs -> Labels \cup {"begin"}]
      BY <1>3, <1>7, RaisesEntered
    <2>3. outcome' \in [Jobs -> Concluded] /\ record' \in [Jobs -> Records]
      BY <2>1 DEF BookInv
    <2>4. QED BY <1>5, <1>7, <2>1, <2>2, <2>3
  <1>8. ASSUME NEW j \in Jobs, OnLine(j) PROVE BookInv(books)'
    <2>1. UNCHANGED <<at, outcome, record, lost>>
      BY <1>8 DEF OnLine, progVars
    <2>2. QED BY <1>4, <1>8, <2>1
  <1>9. ASSUME NEW j \in Jobs, Serve(j) PROVE BookInv(books)'
    BY <1>1, <1>9, ServeEntered
  <1>10. CASE /\ \/ \E p \in Procs : ToolExits(p)
                 \/ \E s \in Stops : StopRequest(s)
              /\ UNCHANGED progVars
    <2>1. UNCHANGED <<wk, req>> /\ UNCHANGED progVars
      BY <1>10 DEF ToolExits, StopRequest, StopCheck, StopKill, StopKillNamed, StopMark,
         StopSupersede
    <2>2. QED BY <2>1 DEF progVars, BookInv, EnteredOf, Settled
  <1>11. CASE UNCHANGED workVars
    BY <1>11 DEF workVars, vars, progVars, BookInv, EnteredOf, Settled
  <1>12. QED BY <1>6, <1>7, <1>8, <1>9, <1>10, <1>11 DEF WorkersNext

LEMMA InitBooks ==
  ASSUME NEW books, AreAllBooks(books), WorkersInit PROVE BookInv(books)
  <1>1. /\ kind \in Choices /\ rpc = [j \in Jobs |-> 1] /\ at = [j \in Jobs |-> "begin"]
        /\ outcome = [j \in Jobs |-> "none"] /\ record = [j \in Jobs |-> "none"]
        /\ \A j \in Jobs : wk[j] = "none"
    BY DEF WorkersInit, Init
  <1>2. \A j \in Jobs : kind[j] # NoKind => "begin" \in DOMAIN Program[kind[j]].code
    BY <1>1 DEF AreAllBooks, AreBooks, IsTable
  <1>3. \A j \in Jobs : EnteredOf(books, j)
    BY <1>1, <1>2 DEF EnteredOf
  <1>4. QED BY <1>1, <1>3 DEF BookInv, Concluded, Records

LEMMA NextsBooks ==
  ASSUME NEW books, AreAllBooks(books)
  PROVE  IInv /\ Unasked /\ BookInv(books) /\ [WorkersNext]_workVars => Unasked' /\ BookInv(books)'
  BY NextBooks, NextsUnasked DEF IInv

THEOREM BooksKept ==
  ASSUME NEW CONSTANT books, AreAllBooks(books)
  PROVE  WorkersSpec => [](BookInv(books) /\ Unasked)
  <1>1. WorkersInit => BookInv(books) /\ Unasked
    BY InitBooks DEF WorkersInit, Init, Unasked
  <1>2. WorkersSpec => []IInv
    BY ProgramsOnTheSlot, PTL
  <1>3. QED BY <1>1, <1>2, NextsBooks, PTL DEF WorkersSpec

(* A worker that ran to its end leaves the record it opened settled, by    *)
(* its verdict or, if the write is lost, by an entry of the custody log,   *)
(* unless an exception ended it: for any number of jobs, tools, units and  *)
(* Stops, once the table of each kind of work keeps books that balance,    *)
(* which TLC finds of the repository's workers.                            *)
THEOREM RecordsSettled ==
  ASSUME NEW CONSTANT books, AreAllBooks(books)
  PROVE  WorkersSpec => []RecordIsSettled
  <1>1. BookInv(books) => RecordIsSettled
    <2> SUFFICES ASSUME BookInv(books), NEW j \in Jobs, Done(j), kind[j] \notin Open,
                        record[j] = "IN_PROGRESS"
                 PROVE  outcome[j] = "raised" \/ j \in lost
      BY DEF RecordIsSettled
    <2>1. EnteredOf(books, j) /\ at[j] = "end" /\ kind \in Choices
      BY DEF BookInv, Done
    <2>2. wk[j] # "none" /\ kind[j] # NoKind
      BY <2>1 DEF EnteredOf
    <2>3. Balanced(books[kind[j]])
      BY <2>1, <2>2 DEF AreAllBooks
    <2>4. PICK settled \in BOOLEAN : /\ <<outcome[j], settled>> \in books[kind[j]]["end"]
                                     /\ settled => Settled(j)
      BY <2>1, <2>2 DEF EnteredOf
    <2>5. <<outcome[j], settled>>[2] \/ <<outcome[j], settled>>[1] = "raised"
      BY <2>3, <2>4 DEF Balanced
    <2>6. QED BY <2>4, <2>5 DEF Settled
  <1>2. QED BY <1>1, BooksKept, PTL

(* The other variables of the programs. *)
CountsTyped ==
    /\ lost \subseteq Jobs /\ flawed \subseteq Jobs
    /\ holds \in [Jobs -> SUBSET Resources]
    /\ units \in [Jobs -> 0 .. MaxUnits]
    /\ late \in [Jobs -> 0 .. 2]

LEMMA NextCounts == ASSUME CountsTyped, [WorkersNext]_workVars PROVE CountsTyped'
  <1> USE DEF dataVars, progVars, CountsTyped
  <1>1. ASSUME NEW j \in Jobs, Serve(j) PROVE CountsTyped'
    BY <1>1 DEF Serve, RouteClaim, RouteCheck, RouteInit, RouteOpen, RouteSpawn, RouteFails,
       RouteGoesOn, Put
  <1>2. ASSUME NEW j \in Jobs, Step(j) PROVE CountsTyped'
    <2>1. CASE Say(j) \/ Look(j) \/ Stream(j) \/ Judge(j) \/ Branch(j) \/ Conclude(j) \/ Excepted(j)
      BY <2>1 DEF Say, Look, Stream, Judge, Branch, Conclude, Excepted
    <2>2. CASE Launch(j)
      BY <2>2 DEF Launch, CountLate
    <2>3. CASE Unit(j)
      <3>1. units' \in [Jobs -> 0 .. MaxUnits]
        BY <2>3, WorkersAssumption DEF Unit
      <3>2. late' \in [Jobs -> 0 .. 2]
        BY <2>3 DEF Unit, CountLate
      <3>3. QED BY <2>3, <3>1, <3>2 DEF Unit
    <2>4. CASE WriteRecord(j)
      BY <2>4 DEF WriteRecord, Put
    <2>5. CASE Take(j) \/ Give(j)
      BY <2>5 DEF Take, Give
    <2>6. CASE Close(j) \/ ClearHandle(j)
      BY <2>6 DEF Close, ClearHandle
    <2>7. QED BY <1>2, <2>1, <2>2, <2>3, <2>4, <2>5, <2>6 DEF Step
  <1>3. ASSUME NEW j \in Jobs, Raises(j) \/ OnLine(j) PROVE CountsTyped'
    BY <1>3 DEF Raises, OnLine
  <1>4. CASE UNCHANGED progVars
    BY <1>4
  <1>5. QED BY <1>1, <1>2, <1>3, <1>4 DEF WorkersNext, workVars

(* The variables of the programs keep their types; in particular no        *)
(* worker writes an exception into the record as if it were a verdict, for *)
(* any number of jobs, tools, units and Stops.                             *)
THEOREM WorkersTypeCorrect ==
  ASSUME "begin" \in Labels, NEW CONSTANT books, AreAllBooks(books)
  PROVE  WorkersSpec => []WorkersTypeOK
  <1>1. WorkersInit => CountsTyped
    BY WorkersAssumption DEF WorkersInit, CountsTyped
  <1>2. CountsTyped /\ [WorkersNext]_workVars => CountsTyped'
    BY NextCounts
  <1>3. BookInv(books) /\ CountsTyped => WorkersTypeOK
    BY DEF BookInv, CountsTyped, WorkersTypeOK, Concluded, Records
  <1>4. QED BY <1>1, <1>2, <1>3, BooksKept, PTL DEF WorkersSpec

=============================================================================
