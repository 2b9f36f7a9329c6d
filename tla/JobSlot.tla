------------------------------ MODULE JobSlot ------------------------------
(***************************************************************************)
(* core/jobs.py: the one shared background-job slot of the station.        *)
(*                                                                         *)
(* A job is one start request (a pooled Flask request thread) and the      *)
(* background thread it spawns.  Requests claim, refuse, leak or hand over *)
(* the slot; the worker writes the shared job record and drives external   *)
(* tools; Stop requests kill the tool, mark the job Stopped and supersede  *)
(* its generation.  Only the statements under job_lock are atomic.         *)
(*                                                                         *)
(* The worker here is the most general one: it makes every job-record call *)
(* the execution_worker_* functions make, in any order their common        *)
(* skeleton allows.  Workers gives the real programs.                      *)
(***************************************************************************)
EXTENDS Integers

CONSTANTS
    Jobs,       \* one element per start request, with the worker it may spawn
    Held,       \* the jobs that hold the slot across several inner workers
    Stops,      \* Stop requests, each made once
    Named,      \* the jobs whose tool the kill-by-name list of Stop contains
    MaxRuns,    \* how many external tools one worker may run
    NoJob       \* no job

ASSUME JobsAssumption == /\ NoJob \notin Jobs
                         /\ Held \subseteq Jobs
                         /\ Named \subseteq Jobs
                         /\ MaxRuns \in Nat \ {0}

VARIABLES
    active,      \* current_job["active"]
    status,      \* current_job["status"]
    log,         \* the job whose buffer current_job["log"] shows
    gen,         \* current_job["_slot_generation"]
    stoppedGen,  \* current_job["_stopped_generation"]
    stopSupGen,  \* current_job["_stop_superseded_generation"]
    suppress,    \* _suppress_active_false
    activeProc,  \* the process active_proc refers to
    proc,        \* the external processes: how each one fares
    req,         \* where each start request is
    claimGen,    \* g._job_slot_generation of each request, 0 before its claim
    wk,          \* where each worker thread is
    wkGen,       \* _worker_generation.gen of each worker
    runs,        \* how many tools each worker has launched
    got,         \* the process the worker's last _stream_subprocess refers to
    stop,        \* where each Stop request is
    stopLog      \* the log each Stop request read before it marks the job

jobVars == <<active, status, log>>
genVars == <<gen, stoppedGen, stopSupGen>>
vars == <<active, status, log, gen, stoppedGen, stopSupGen, suppress,
          activeProc, proc, req, claimGen, wk, wkGen, runs, got, stop, stopLog>>

stopVars == <<stop, stopLog>>

NoGen  == -1                       \* None: never set
Procs  == Jobs \X (1 .. MaxRuns)   \* the n-th tool a job launches
NoProc == <<NoJob, 0>>

Statuses == {"IDLE", "Initializing", "Working", "Ended", "Stopped",
             "Failed to start"}   \* "Ended": Completed..., Failed and the like

TypeOK ==
    /\ active \in BOOLEAN
    /\ status \in Statuses
    /\ log \in Jobs \cup {NoJob}
    /\ gen \in Nat
    /\ stoppedGen \in Nat \cup {NoGen}
    /\ stopSupGen \in Nat \cup {NoGen}
    /\ suppress \in BOOLEAN
    /\ activeProc \in Procs \cup {NoProc}
    /\ proc \in [Procs -> {"none", "running", "ok", "failed"}]
    /\ req \in [Jobs -> {"idle", "validating", "starting", "erring",
                         "leaked", "over"}]
    /\ claimGen \in [Jobs -> Nat]
    /\ wk \in [Jobs -> {"none", "suppressing", "work", "stream", "wait",
                        "report", "clear", "drop", "free", "over"}]
    /\ wkGen \in [Jobs -> Nat \cup {NoGen}]
    /\ runs \in [Jobs -> 0 .. MaxRuns]
    /\ got \in [Jobs -> Procs \cup {NoProc}]
    /\ stop \in [Stops -> {"idle", "kill", "killNamed", "mark", "supersede",
                           "over"}]
    /\ stopLog \in [Stops -> Jobs \cup {NoJob}]

Init ==
    /\ active = FALSE
    /\ status = "IDLE"
    /\ log = NoJob
    /\ gen = 0
    /\ stoppedGen = NoGen
    /\ stopSupGen = NoGen
    /\ suppress = FALSE
    /\ activeProc = NoProc
    /\ proc = [p \in Procs |-> "none"]
    /\ req = [j \in Jobs |-> "idle"]
    /\ claimGen = [j \in Jobs |-> 0]
    /\ wk = [j \in Jobs |-> "none"]
    /\ wkGen = [j \in Jobs |-> NoGen]
    /\ runs = [j \in Jobs |-> 0]
    /\ got = [j \in Jobs |-> NoProc]
    /\ stop = [s \in Stops |-> "idle"]
    /\ stopLog = [s \in Stops |-> NoJob]

-----------------------------------------------------------------------------
(* update_job() and the stale-worker guard.  A worker's first call binds   *)
(* its thread to the generation of that moment.                            *)

Bind(j) == wkGen' = [wkGen EXCEPT ![j] = IF @ = NoGen THEN gen ELSE @]

\* Mutant: no stale-worker guard.
Stale_Never(j) == FALSE

Stale(j) == wkGen[j] # NoGen /\ wkGen[j] # gen

\* Mutants: the guard before it knew Stop from a newer claim, and with the
\* newer claim forgotten.
SupersededByStopOnly_Never(j) == FALSE
SupersededByStopOnly_AnyClaim(j) == wkGen[j] = stoppedGen

SupersededByStopOnly(j) == wkGen[j] = stoppedGen /\ gen = stopSupGen

(* What update_job(active=False) leaves of the slot for a thread it admits. *)
Freed == active /\ suppress

WriteStatus(j, s) ==
    /\ Bind(j)
    /\ status' = IF Stale(j) THEN status ELSE s

WriteLog(j) ==
    /\ Bind(j)
    /\ log' = IF Stale(j) /\ ~SupersededByStopOnly(j) THEN log ELSE j

WorkerFrees(j) ==
    /\ Bind(j)
    /\ active' = IF Stale(j) /\ ~SupersededByStopOnly(j) THEN active ELSE Freed

-----------------------------------------------------------------------------
(* The start request.                                                      *)

Request(j, from, to) == req[j] = from /\ req' = [req EXCEPT ![j] = to]

(* Check and claim, one critical section. *)
Claim(j) ==
    /\ Request(j, "idle", "validating")
    /\ ~active
    /\ active' = TRUE
    /\ gen' = gen + 1
    /\ claimGen' = [claimGen EXCEPT ![j] = gen + 1]
    /\ UNCHANGED <<status, log, stoppedGen, stopSupGen, suppress, activeProc,
                   proc, wk, wkGen, runs, got, stopVars>>

(* A validation step refuses the job: the request gives the slot back      *)
(* itself, with no generation check, and answers 4xx.                      *)
Refuse(j) ==
    /\ Request(j, "validating", "erring")
    /\ active' = Freed
    /\ UNCHANGED <<status, log, genVars, suppress, activeProc, proc, claimGen,
                   wk, wkGen, runs, got, stopVars>>

(* The request raises after its claim and answers 5xx. *)
Crash(j) ==
    /\ \/ Request(j, "validating", "erring")
       \/ Request(j, "starting", "erring")
    /\ UNCHANGED <<jobVars, genVars, suppress, activeProc, proc, claimGen, wk,
                   wkGen, runs, got, stopVars>>

(* release_leaked_job_slot(): the test, which takes no lock, ... *)
LeakCheck(j) ==
    /\ Request(j, "erring", IF active /\ gen = claimGen[j] THEN "leaked" ELSE "over")
    /\ UNCHANGED <<jobVars, genVars, suppress, activeProc, proc, claimGen, wk,
                   wkGen, runs, got, stopVars>>

(* ... and the release. *)
LeakRelease(j) ==
    /\ Request(j, "leaked", "over")
    /\ active' = Freed
    /\ status' = "Failed to start"
    /\ log' = NoJob
    /\ UNCHANGED <<genVars, suppress, activeProc, proc, claimGen, wk, wkGen,
                   runs, got, stopVars>>

(* The start-of-job record every route writes once validation has passed. *)
Initialise(j) ==
    /\ Request(j, "validating", "starting")
    /\ status' = "Initializing"
    /\ log' = j
    /\ UNCHANGED <<active, genVars, suppress, activeProc, proc, claimGen, wk,
                   wkGen, runs, got, stopVars>>

(* The worker thread starts; the Auto Analyze routes spawn it without a     *)
(* start-of-job record.                                                    *)
Spawn(j) ==
    /\ \/ Request(j, "starting", "over")
       \/ Request(j, "validating", "over")
    /\ wk' = [wk EXCEPT ![j] = IF j \in Held THEN "suppressing" ELSE "work"]
    /\ UNCHANGED <<jobVars, genVars, suppress, activeProc, proc, claimGen,
                   wkGen, runs, got, stopVars>>

Start(j) == \/ Claim(j) \/ Refuse(j) \/ Crash(j) \/ LeakCheck(j)
            \/ LeakRelease(j) \/ Initialise(j) \/ Spawn(j)

-----------------------------------------------------------------------------
(* The worker thread.                                                      *)

Worker(j, from, to) == wk[j] = from /\ wk' = [wk EXCEPT ![j] = to]

\* Mutant: the orchestrator does not hold its slot.
BeginSuppress_Not(j) ==
    /\ Worker(j, "suppressing", "work")
    /\ UNCHANGED <<jobVars, genVars, suppress, activeProc, proc, req, claimGen,
                   wkGen, runs, got, stopVars>>

(* begin_suppress_active_false(), no lock taken and no generation bound. *)
BeginSuppress(j) ==
    /\ Worker(j, "suppressing", "work")
    /\ suppress' = TRUE
    /\ UNCHANGED <<jobVars, genVars, activeProc, proc, req, claimGen, wkGen,
                   runs, got, stopVars>>

(* update_job(log=...): every worker rebuilds the log from its own buffer. *)
LogLine(j) ==
    /\ wk[j] \in {"work", "stream", "report"}
    /\ WriteLog(j)
    /\ UNCHANGED <<active, status, genVars, suppress, activeProc, proc, req,
                   claimGen, wk, runs, got, stopVars>>

(* update_job(status=...) while the job runs and for its outcome. *)
SetStatus(j, s) ==
    /\ \/ wk[j] \in {"work", "stream", "report"} /\ s = "Working"
       \/ wk[j] \in {"work", "report"} /\ s = "Ended"
    /\ WriteStatus(j, s)
    /\ UNCHANGED <<active, log, genVars, suppress, activeProc, proc, req,
                   claimGen, wk, runs, got, stopVars>>


(* _stream_subprocess(): the tool starts and active_proc refers to it, ... *)
StartTool(j) ==
    /\ runs[j] < MaxRuns
    /\ \/ Worker(j, "work", "stream")
       \/ Worker(j, "report", "stream")
    /\ LET p == <<j, runs[j] + 1>> IN
       /\ activeProc' = p
       /\ proc' = [proc EXCEPT ![p] = "running"]
    /\ runs' = [runs EXCEPT ![j] = @ + 1]
    /\ UNCHANGED <<jobVars, genVars, suppress, req, claimGen, wkGen, got, stopVars>>

(* ... the read loop ends once that process has exited, and                *)
(* active_proc.wait() then reads the global again: when it is None by now, *)
(* the call raises, ...                                                    *)
StreamEnds(j) ==
    /\ Worker(j, "stream", IF activeProc = NoProc THEN "report" ELSE "wait")
    /\ proc[<<j, runs[j]>>] # "running"
    /\ got' = [got EXCEPT ![j] = activeProc]
    /\ UNCHANGED <<jobVars, genVars, suppress, activeProc, proc, req, claimGen,
                   wkGen, runs, stopVars>>

(* ... and when the process it names exits, `return active_proc' reads the *)
(* global a last time.                                                     *)
StreamReturns(j) ==
    /\ Worker(j, "wait", "report")
    /\ proc[got[j]] # "running"
    /\ got' = [got EXCEPT ![j] = activeProc]
    /\ UNCHANGED <<jobVars, genVars, suppress, activeProc, proc, req, claimGen,
                   wkGen, runs, stopVars>>

(* Where a worker goes on after its `finally': the orchestrator of a held  *)
(* run continues, any other thread ends.                                   *)
AfterFinally(j) == IF j \in Held THEN "work" ELSE "over"

(* The `finally' of an execution_worker: update_job(active=False), and for *)
(* most of them clear_active_proc().                                       *)
Finally(j) ==
    /\ \/ Worker(j, "report", "clear")
       \/ Worker(j, "report", AfterFinally(j))
       \/ j \notin Held /\ Worker(j, "work", "clear")
       \/ j \notin Held /\ Worker(j, "work", "over")
    /\ WorkerFrees(j)
    /\ got' = [got EXCEPT ![j] = NoProc]
    /\ UNCHANGED <<status, log, genVars, suppress, activeProc, proc, req,
                   claimGen, runs, stopVars>>

(* The same of an inner worker of a held run that has launched no tool. *)
InnerFinally(j) ==
    /\ j \in Held
    /\ \/ Worker(j, "work", "work")
       \/ Worker(j, "work", "clear")
    /\ WorkerFrees(j)
    /\ UNCHANGED <<status, log, genVars, suppress, activeProc, proc, req,
                   claimGen, runs, got, stopVars>>

(* clear_active_proc(): the staleness test under job_lock, ... *)
ClearCheck(j) ==
    /\ Worker(j, "clear", IF Stale(j) THEN AfterFinally(j) ELSE "drop")
    /\ Bind(j)
    /\ UNCHANGED <<jobVars, genVars, suppress, activeProc, proc, req, claimGen,
                   runs, got, stopVars>>

(* ... and the assignment after the lock is released. *)
ClearDrop(j) ==
    /\ Worker(j, "drop", AfterFinally(j))
    /\ activeProc' = NoProc
    /\ UNCHANGED <<jobVars, genVars, suppress, proc, req, claimGen, wkGen, runs,
                   got, stopVars>>

\* Mutant: the flag is still set when the held slot is released.
EndSuppress_Late(j) ==
    /\ j \in Held
    /\ Worker(j, "work", "free")
    /\ UNCHANGED <<jobVars, genVars, suppress, activeProc, proc, req, claimGen,
                   wkGen, runs, got, stopVars>>

(* The orchestrator's `finally': end_suppress_active_false(), then the     *)
(* release it held back.                                                   *)
EndSuppress(j) ==
    /\ j \in Held
    /\ Worker(j, "work", "free")
    /\ suppress' = FALSE
    /\ UNCHANGED <<jobVars, genVars, activeProc, proc, req, claimGen, wkGen,
                   runs, got, stopVars>>

FinalFree(j) ==
    /\ Worker(j, "free", "over")
    /\ WorkerFrees(j)
    /\ UNCHANGED <<status, log, genVars, suppress, activeProc, proc, req,
                   claimGen, runs, got, stopVars>>

(* The steps that take a worker towards its end, and all of its steps. *)
Progress(j) == \/ BeginSuppress(j) \/ StartTool(j) \/ StreamEnds(j)
               \/ StreamReturns(j) \/ Finally(j) \/ ClearCheck(j)
               \/ ClearDrop(j) \/ EndSuppress(j) \/ FinalFree(j)

Work(j) == \/ Progress(j)
           \/ InnerFinally(j)
           \/ LogLine(j)
           \/ \E s \in Statuses : SetStatus(j, s)

(* The external process ends by itself. *)
ToolExits(p) ==
    /\ proc[p] = "running"
    /\ \E r \in {"ok", "failed"} : proc' = [proc EXCEPT ![p] = r]
    /\ UNCHANGED <<jobVars, genVars, suppress, activeProc, req, claimGen, wk,
                   wkGen, runs, got, stopVars>>

-----------------------------------------------------------------------------
(* stop_imaging().                                                         *)

Stopping(s, from, to) == stop[s] = from /\ stop' = [stop EXCEPT ![s] = to]

Kill(P) == proc' = [p \in Procs |-> IF p \in P /\ proc[p] = "running"
                                    THEN "failed" ELSE proc[p]]

(* current_job["active"] is read without the lock; no job, 400. *)
StopCheck(s) ==
    /\ Stopping(s, "idle", IF active THEN "kill" ELSE "over")
    /\ UNCHANGED <<jobVars, genVars, suppress, activeProc, proc, req, claimGen,
                   wk, wkGen, runs, got, stopLog>>

(* The process group of the process active_proc refers to. *)
StopKill(s) ==
    /\ Stopping(s, "kill", "killNamed")
    /\ Kill({activeProc})
    /\ UNCHANGED <<jobVars, genVars, suppress, activeProc, req, claimGen, wk,
                   wkGen, runs, got, stopLog>>

(* Every tool on the list by its name, active_proc's group once more       *)
(* through the privileged helper, then the log is read to be added to.     *)
StopKillNamed(s) ==
    /\ Stopping(s, "killNamed", "mark")
    /\ Kill({p \in Procs : p[1] \in Named} \cup {activeProc})
    /\ stopLog' = [stopLog EXCEPT ![s] = log]
    /\ UNCHANGED <<jobVars, genVars, suppress, activeProc, req, claimGen, wk,
                   wkGen, runs, got>>

(* update_job(status="Stopped", active=False): a request is never gated, a *)
(* held slot is not given back.                                            *)
StopMark(s) ==
    /\ Stopping(s, "mark", "supersede")
    /\ status' = "Stopped"
    /\ active' = Freed
    /\ log' = stopLog[s]
    /\ stopLog' = [stopLog EXCEPT ![s] = NoJob]
    /\ UNCHANGED <<genVars, suppress, activeProc, proc, req, claimGen, wk,
                   wkGen, runs, got>>

(* supersede_stopped_job(); a second Stop of one job changes nothing. *)
StopSupersede(s) ==
    /\ Stopping(s, "supersede", "over")
    /\ IF stopSupGen = gen THEN UNCHANGED genVars
       ELSE /\ stoppedGen' = gen
            /\ gen' = gen + 1
            /\ stopSupGen' = gen + 1
    /\ UNCHANGED <<jobVars, suppress, activeProc, proc, req, claimGen, wk, wkGen,
                   runs, got, stopLog>>

StopRequest(s) == \/ StopCheck(s) \/ StopKill(s) \/ StopKillNamed(s)
                  \/ StopMark(s) \/ StopSupersede(s)

-----------------------------------------------------------------------------
Next == \/ \E j \in Jobs : Start(j) \/ Work(j)
        \/ \E p \in Procs : ToolExits(p)
        \/ \E s \in Stops : StopRequest(s)

Spec == Init /\ [][Next]_vars

(* A claimed request runs to its answer, a spawned thread to its end, an   *)
(* external tool exits, and a Stop once begun finishes; a held run goes    *)
(* through a finite list of inner workers.  Whether anyone starts a job or *)
(* presses Stop is not assumed.                                            *)
Fairness ==
    /\ \A j \in Jobs : WF_vars(Start(j) /\ req[j] # "idle") /\ WF_vars(Progress(j))
    /\ \A j \in Held : SF_vars(EndSuppress(j))
    /\ \A p \in Procs : WF_vars(ToolExits(p))
    /\ \A s \in Stops : WF_vars(StopRequest(s) /\ stop[s] # "idle")

FairSpec == Spec /\ Fairness

-----------------------------------------------------------------------------
(* Properties.                                                             *)

NewerClaim(j) == \E k \in Jobs : claimGen[k] > claimGen[j]

LatestClaim(j) == claimGen[j] > 0 /\ ~NewerClaim(j)

BoundToOwnClaim(j) == wkGen[j] # NoGen /\ wkGen[j] = claimGen[j]

(* update_job() would let this worker release the slot or write the log. *)
Admitted(j) == ~Stale(j) \/ SupersededByStopOnly(j)

Alive(j) == wk[j] \notin {"none", "over"}

Running(j) == \E n \in 1 .. MaxRuns : proc[<<j, n>>] = "running"

(* Whatever was stopped, refused or claimed in between, the guard never    *)
(* admits the workers of two different jobs, each bound to the generation  *)
(* of its own claim (_is_stale_worker_thread, _superseded_by_stop_only).   *)
OneAdmittedWorker ==
    \A j, k \in Jobs :
        BoundToOwnClaim(j) /\ Admitted(j) /\ BoundToOwnClaim(k) /\ Admitted(k)
        => j = k

(* Once a newer job has claimed the slot, a worker bound to an older claim *)
(* changes nothing of the job record: it neither releases the newer job's  *)
(* slot nor overwrites its status or log (update_job's early return).      *)
SupersededWorkerIsSilent ==
    [][\A j \in Jobs : Work(j) /\ BoundToOwnClaim(j) /\ NewerClaim(j)
                         => UNCHANGED jobVars]_vars

(* The slot is never left busy with nobody to release it: while active,    *)
(* some start request or worker thread is still on its way.                *)
NeverLeftBusy ==
    active => \E j \in Jobs : req[j] \notin {"idle", "over"} \/ Alive(j)

(* With nobody pressing Stop, every claim of the slot is followed by its   *)
(* release, through refusals, server errors and held runs alike.           *)
SlotComesFree == active ~> ~active

(* Stop or no Stop, the slot of a job whose worker lives comes free or     *)
(* passes to a newer claim (the 2026-10-02 comment in update_job).         *)
LiveWorkerFreesItsSlot ==
    \A j \in Jobs : active /\ LatestClaim(j) /\ Alive(j) ~> ~active \/ NewerClaim(j)

(* A job that runs one worker and has the latest claim gives the slot back *)
(* when that worker ends: no other run's suppression swallows the release  *)
(* ("there is never a second thread that could race this flag").           *)
PlainJobFreesItsSlot ==
    [][\A j \in Jobs \ Held : Finally(j) /\ BoundToOwnClaim(j) /\ LatestClaim(j)
                               => ~active']_vars

(* A worker thread is bound to the job it belongs to (the docstring of     *)
(* _is_stale_worker_thread).                                               *)
WorkerBindsToOwnJob == \A j \in Jobs : wkGen[j] # NoGen => BoundToOwnClaim(j)

(* release_leaked_job_slot() never frees a job another request claimed     *)
(* (the comment above it in app.py).                                       *)
LeakReleaseFreesOwnClaim ==
    [][\A j \in Jobs : LeakRelease(j) /\ active /\ ~active' => ~NewerClaim(j)]_vars

(* Stop can reach the tool of the job that runs: a tool that a worker      *)
(* streams is the one active_proc refers to (clear_active_proc's comment). *)
RunningToolIsTracked ==
    \A j \in Jobs : wk[j] = "stream" /\ proc[<<j, runs[j]>>] = "running"
                     => activeProc = <<j, runs[j]>>

(* Only one job's external tool runs on the station (README). *)
OneToolAtATime == \A j, k \in Jobs : Running(j) /\ Running(k) => j = k

(* The abstract slot: held by the latest claim while active. *)
Holder == IF active /\ \E j \in Jobs : LatestClaim(j)
          THEN CHOOSE j \in Jobs : LatestClaim(j) ELSE NoJob

Turn == [j \in Jobs |-> IF claimGen[j] = 0 THEN "none"
                        ELSE IF Holder = j THEN "holds" ELSE "had"]

Slot == INSTANCE SingleSlot WITH holder <- Holder, turn <- Turn,
                                 busy <- {j \in Jobs : Running(j)}

(* The job slot implements the single slot the README promises. *)
SlotPromise == Slot!SlotSpec

=============================================================================
