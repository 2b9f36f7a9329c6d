------------------------------ MODULE Workers ------------------------------
(***************************************************************************)
(* The background work of the station as programs on the job slot.         *)
(*                                                                         *)
(* Every start route and every execution_worker_* of routes/ is built from *)
(* the same few calls: checks that refuse, update_job(), the streamed      *)
(* external tool, a look at the shared status, a unit of work of its own,  *)
(* a mount or an unlock, the verdict, the case record, the `finally'.      *)
(* Those calls are the actions here; which of them a kind of work makes,   *)
(* in which order and with which early returns, is a table per kind        *)
(* (the Programs modules):                                                 *)
(*                                                                         *)
(*   Route[k]         the steps of its start route between claim and spawn *)
(*   Program[k].code  label |-> the <<call, next label>> pairs it may take *)
(*   Program[k].catch label |-> where an exception raised there leads      *)
(*                                                                         *)
(* A step conjoins the JobSlot action it is, so that the specification     *)
(* implements JobSlot's with the same variables (KeepsSlotProtocol).       *)
(***************************************************************************)
EXTENDS JobSlot, Sequences, FiniteSets

CONSTANTS
    Kinds,      \* the kinds of background work
    Program,    \* the worker of each kind
    Route,      \* the start route of each kind
    Choices,    \* which jobs there are, and of what kind: job |-> kind or NoKind
    NoKind,     \* of a job that is never asked for
    Open,       \* the kinds whose record may stay IN_PROGRESS after a Stop
    Deaf,       \* the kinds that do not look for a Stop between two units
    MaxUnits    \* units of work (files, chunks, plugins) a job has at most

ASSUME WorkersAssumption ==
    /\ NoKind \notin Kinds
    /\ Choices \subseteq [Jobs -> Kinds \cup {NoKind}]
    /\ Route \in [Kinds -> Seq(STRING)]
    /\ MaxUnits \in Nat

VARIABLES
    kind,      \* the kind of each job
    rpc,       \* the next step of each start route
    at,        \* the label each worker is at
    outcome,   \* report_data["acquisition_status"] as the worker has it
    record,    \* acquisition_status in the case record on disk
    lost,      \* jobs with a case_record_write_failed entry in the custody log
    flawed,    \* jobs of whose evidence a part is missing, cut or unconfirmed
    holds,     \* the mounts, unlocked drives and staging folders of each job
    units,     \* units of work each job has done
    late       \* how many tools and units it began with a finished Stop on display

progVars == <<kind, rpc, at, outcome, record, lost, flawed, holds, units, late>>
workVars == <<vars, progVars>>

Final == {"COMPLETED", "FAILED", "STOPPED"}

\* What a call of a table takes, and which call gives it back.
GivenBackBy ==
    [mount |-> "unmount", unlock |-> "relock", stage |-> "unstage",
     install |-> "uninstall", grant |-> "revoke", role |-> "restore"]
Resources == DOMAIN GivenBackBy

Labels == UNION {DOMAIN Program[k].code : k \in Kinds}

WorkersTypeOK ==
    /\ kind \in Choices
    /\ rpc \in [Jobs -> Nat \ {0}]
    /\ at \in [Jobs -> Labels]
    /\ outcome \in [Jobs -> Final \cup {"none", "raised"}]
    /\ record \in [Jobs -> Final \cup {"none", "IN_PROGRESS"}]
    /\ lost \subseteq Jobs /\ flawed \subseteq Jobs
    /\ holds \in [Jobs -> SUBSET Resources]
    /\ units \in [Jobs -> 0 .. MaxUnits]
    /\ late \in [Jobs -> 0 .. 2]

WorkersInit ==
    /\ Init
    /\ kind \in Choices
    /\ rpc = [j \in Jobs |-> 1]
    /\ at = [j \in Jobs |-> "begin"]
    /\ outcome = [j \in Jobs |-> "none"]
    /\ record = [j \in Jobs |-> "none"]
    /\ lost = {} /\ flawed = {}
    /\ holds = [j \in Jobs |-> {}]
    /\ units = [j \in Jobs |-> 0]
    /\ late = [j \in Jobs |-> 0]

-----------------------------------------------------------------------------
(* The case record.                                                        *)


(* The case record takes the write, or a custody log entry names the loss  *)
(* (_record_lost_case_write); the job goes on either way.                  *)
Put(j, what) ==
    \/ /\ record' = [record EXCEPT ![j] = what]
       /\ UNCHANGED lost
    \/ /\ lost' = lost \cup {j}
       /\ UNCHANGED record

-----------------------------------------------------------------------------
(* The start route.                                                        *)

RouteCall(j) == IF rpc[j] <= Len(Route[kind[j]]) THEN Route[kind[j]][rpc[j]] ELSE "spawn"

RouteGoesOn(j) ==
    /\ rpc' = [rpc EXCEPT ![j] = @ + 1]
    /\ UNCHANGED <<kind, at, outcome, flawed, holds, units, late>>

RouteClaim(j) ==
    /\ kind[j] # NoKind
    /\ Claim(j)
    /\ UNCHANGED progVars

(* One of the route's tests: it passes, or the request gives the slot back *)
(* and answers with an error.                                              *)
RouteCheck(j) ==
    /\ req[j] \in {"validating", "starting"}
    /\ RouteCall(j) \notin {"init", "open", "spawn"}
    /\ \/ RouteGoesOn(j) /\ UNCHANGED <<vars, record, lost>>
       \/ Refuse(j) /\ UNCHANGED progVars

(* The start-of-job record, and the first write to the case record. *)
RouteInit(j) ==
    /\ Initialise(j)
    /\ RouteCall(j) = "init"
    /\ RouteGoesOn(j) /\ UNCHANGED <<record, lost>>

RouteOpen(j) ==
    /\ req[j] \in {"validating", "starting"}
    /\ RouteCall(j) = "open"
    /\ Put(j, "IN_PROGRESS")
    /\ RouteGoesOn(j) /\ UNCHANGED vars

RouteSpawn(j) ==
    /\ Spawn(j)
    /\ RouteCall(j) = "spawn"
    /\ UNCHANGED progVars

(* The request raises anywhere after its claim. *)
RouteFails(j) ==
    /\ Crash(j) \/ LeakCheck(j) \/ LeakRelease(j)
    /\ UNCHANGED progVars

Serve(j) == \/ RouteClaim(j) \/ RouteCheck(j) \/ RouteInit(j) \/ RouteOpen(j)
            \/ RouteSpawn(j) \/ RouteFails(j)

-----------------------------------------------------------------------------
(* The worker: one action per call of the tables.                          *)

Call(j, call) ==
    /\ kind[j] # NoKind
    /\ \E step \in Program[kind[j]].code[at[j]] :
          /\ step[1] = call
          /\ at' = [at EXCEPT ![j] = step[2]]

(* Between two calls, not inside the streaming helper or the `finally'. *)
Ready(j) == wk[j] \in {"work", "report"}

dataVars == <<kind, rpc, record, lost, holds, units, late>>

(* "say", "end": a status for the browser. *)
Say(j) ==
    /\ \/ Call(j, "say") /\ SetStatus(j, "Working")
       \/ Call(j, "end") /\ SetStatus(j, "Ended")
    /\ UNCHANGED <<outcome, flawed, dataVars>>

\* Mutant: a loop looks for a Stop before its first unit only.
Look_Once(j) ==
    /\ Ready(j)
    /\ \/ status # "Stopped" /\ Call(j, "on") /\ UNCHANGED flawed
       \/ (status # "Stopped" \/ units[j] > 0) /\ units[j] < MaxUnits
          /\ Call(j, "more") /\ UNCHANGED flawed
       \/ status = "Stopped" /\ Call(j, "stopped") /\ UNCHANGED flawed
       \/ status = "Stopped" /\ Call(j, "cut") /\ flawed' = flawed \cup {j}
    /\ UNCHANGED <<vars, outcome, dataVars>>
(* snapshot_job()["status"] against "Stopped": "on" it is not, "more" it   *)
(* is not and the loop has something left, "stopped" it is, "cut" it is    *)
(* and what the loop had left to copy is left out.                         *)
Look(j) ==
    /\ Ready(j)
    /\ \/ status # "Stopped" /\ Call(j, "on") /\ UNCHANGED flawed
       \/ status # "Stopped" /\ units[j] < MaxUnits /\ Call(j, "more") /\ UNCHANGED flawed
       \/ status = "Stopped" /\ Call(j, "stopped") /\ UNCHANGED flawed
       \/ status = "Stopped" /\ Call(j, "cut") /\ flawed' = flawed \cup {j}
    /\ UNCHANGED <<vars, outcome, dataVars>>

(* Whether a finished Stop is on display as the job begins something. *)
StopIsShown == status = "Stopped" /\ stopSupGen = gen

CountLate(j) ==
    late' = [late EXCEPT ![j] = IF StopIsShown /\ @ < 2 THEN @ + 1 ELSE @]

(* "tool": the streamed external tool, with its lines. *)
Launch(j) ==
    /\ Call(j, "tool")
    /\ StartTool(j)
    /\ CountLate(j)
    /\ UNCHANGED <<kind, rpc, outcome, record, lost, flawed, holds, units>>

OnLine(j) ==
    /\ wk[j] = "stream"
    /\ LogLine(j) \/ SetStatus(j, "Working")
    /\ UNCHANGED progVars

Stream(j) ==
    /\ StreamEnds(j) \/ StreamReturns(j)
    /\ UNCHANGED progVars

\* Mutant: a zero exit code is believed, whatever else the tool or the
\* write confirmation said.
Judge_Trusting(j) ==
    /\ wk[j] = "report" /\ got[j] # NoProc
    /\ \/ proc[got[j]] = "ok" /\ Call(j, "ok")
       \/ proc[got[j]] = "failed" /\ Call(j, "bad")
    /\ flawed' \in {flawed, flawed \cup {j}}
    /\ UNCHANGED <<vars, outcome, dataVars>>
(* The exit code of the process that the streaming helper returned: "ok",  *)
(* "bad", and "unsure" for a zero exit with an error reported by the tool  *)
(* itself, an output that is not there or a write that is not confirmed.   *)
Judge(j) ==
    /\ wk[j] = "report" /\ got[j] # NoProc
    /\ \/ proc[got[j]] = "ok" /\ Call(j, "ok") /\ UNCHANGED flawed
       \/ proc[got[j]] = "ok" /\ Call(j, "unsure") /\ flawed' = flawed \cup {j}
       \/ proc[got[j]] = "failed" /\ Call(j, "bad") /\ UNCHANGED flawed
    /\ UNCHANGED <<vars, outcome, dataVars>>

(* "unit": a file, chunk, plugin or step the worker does itself; "turn":   *)
(* a turn of a loop that leaves the work to a tool; "skip": a branch       *)
(* taken on data; "flaw": one that leaves a part missing; "whole",         *)
(* "lacking", "judged", "unjudged": one on the verdict of the job itself.  *)
Unit(j) ==
    /\ Ready(j)
    /\ units[j] < MaxUnits
    /\ \/ Call(j, "unit") /\ CountLate(j)
       \/ Call(j, "turn") /\ UNCHANGED late
    /\ units' = [units EXCEPT ![j] = @ + 1]
    /\ UNCHANGED <<vars, kind, rpc, outcome, record, lost, flawed, holds>>

Branch(j) ==
    /\ Ready(j)
    /\ \/ Call(j, "skip") /\ UNCHANGED flawed
       \/ Call(j, "flaw") /\ flawed' = flawed \cup {j}
       \/ outcome[j] = "COMPLETED" /\ Call(j, "whole") /\ UNCHANGED flawed
       \/ outcome[j] # "COMPLETED" /\ Call(j, "lacking") /\ UNCHANGED flawed
       \/ outcome[j] \in {"COMPLETED", "FAILED"} /\ Call(j, "judged") /\ UNCHANGED flawed
       \/ outcome[j] \notin {"COMPLETED", "FAILED"} /\ Call(j, "unjudged") /\ UNCHANGED flawed
    /\ UNCHANGED <<vars, outcome, dataVars>>

\* A verdict whose status is displayed later, or never: a Stop has set its own.
Noted == [COMPLETED |-> "noteCompleted", FAILED |-> "noteFailed", STOPPED |-> "STOPPED"]

(* The verdict, with the status that goes with it or without.              *)
Conclude(j) ==
    /\ \E o \in Final :
          /\ outcome' = [outcome EXCEPT ![j] = o]
          /\ \/ o # "STOPPED" /\ Call(j, o) /\ SetStatus(j, "Ended")
             \/ Ready(j) /\ Call(j, Noted[o]) /\ UNCHANGED vars
    /\ UNCHANGED <<flawed, dataVars>>

(* _write_report(): the verdict, or the record as it was opened if none    *)
(* was reached.                                                            *)
WriteRecord(j) ==
    /\ Ready(j)
    /\ Call(j, "write")
    /\ Put(j, IF outcome[j] = "none" THEN "IN_PROGRESS" ELSE outcome[j])
    /\ UNCHANGED <<vars, kind, rpc, outcome, flawed, holds, units, late>>

(* What a worker mounts, unlocks or unpacks, and puts back; the MTP pull   *)
(* does that after its `finally'.                                          *)
Take(j) ==
    /\ Ready(j)
    /\ \E r \in Resources : Call(j, r) /\ holds' = [holds EXCEPT ![j] = @ \cup {r}]
    /\ UNCHANGED <<vars, kind, rpc, outcome, record, lost, flawed, units, late>>

\* Mutant: the clean-up returns early when the job was stopped.
Give_UnlessStopped(j) ==
    /\ wk[j] # "none"
    /\ \E r \in Resources :
          /\ Call(j, GivenBackBy[r])
          /\ holds' = IF StopIsShown THEN holds ELSE [holds EXCEPT ![j] = @ \ {r}]
    /\ UNCHANGED <<vars, kind, rpc, outcome, record, lost, flawed, units, late>>
Give(j) ==
    /\ wk[j] # "none"
    /\ \E r \in Resources : /\ Call(j, GivenBackBy[r])
                            /\ holds' = [holds EXCEPT ![j] = @ \ {r}]
    /\ UNCHANGED <<vars, kind, rpc, outcome, record, lost, flawed, units, late>>

\* Mutant: an exception ends the thread without its `finally'.
Raises_Uncaught(j) ==
    /\ Ready(j)
    /\ at[j] \in DOMAIN Program[kind[j]].catch
    /\ at' = [at EXCEPT ![j] = "end"]
    /\ wk' = [wk EXCEPT ![j] = "over"]
    /\ UNCHANGED <<jobVars, genVars, suppress, activeProc, proc, req, claimGen,
                   wkGen, runs, got, stopVars, outcome, flawed, dataVars>>
(* An exception inside a `try': the handler's label, and its "raise", the  *)
(* except clause that sets the status Failed.                              *)
Raises(j) ==
    /\ Ready(j)
    /\ at[j] \in DOMAIN Program[kind[j]].catch
    /\ at' = [at EXCEPT ![j] = Program[kind[j]].catch[at[j]]]
    /\ UNCHANGED <<vars, outcome, flawed, dataVars>>

Excepted(j) ==
    /\ Call(j, "raise")
    /\ SetStatus(j, "Ended")
    /\ outcome' = [outcome EXCEPT ![j] = "raised"]
    /\ UNCHANGED <<flawed, dataVars>>

(* The `finally': update_job(active=False), with clear_active_proc() after *)
(* it or without; and the orchestrator's.                                  *)
Close(j) ==
    /\ \/ /\ Finally(j) \/ InnerFinally(j)
          /\ \/ Call(j, "free") /\ wk'[j] = AfterFinally(j)
             \/ Call(j, "freeClear") /\ wk'[j] = "clear"
       \/ Call(j, "suppress") /\ BeginSuppress(j)
       \/ Call(j, "endSuppress") /\ EndSuppress(j)
       \/ Call(j, "finalFree") /\ FinalFree(j)
    /\ UNCHANGED <<outcome, flawed, dataVars>>

ClearHandle(j) ==
    /\ ClearCheck(j) \/ ClearDrop(j)
    /\ UNCHANGED progVars

Step(j) == \/ Say(j) \/ Look(j) \/ Launch(j) \/ Stream(j) \/ Judge(j) \/ Unit(j)
           \/ Branch(j) \/ Conclude(j) \/ WriteRecord(j) \/ Take(j) \/ Give(j)
           \/ Excepted(j) \/ Close(j) \/ ClearHandle(j)

WorkersNext ==
    \/ \E j \in Jobs : Serve(j) \/ Step(j) \/ Raises(j) \/ OnLine(j)
    \/ (\E p \in Procs : ToolExits(p)) /\ UNCHANGED progVars
    \/ (\E s \in Stops : StopRequest(s)) /\ UNCHANGED progVars

WorkersSpec == WorkersInit /\ [][WorkersNext]_workVars

(* The fairness of JobSlot, for the programs: a thread goes on, a tool     *)
(* ends, a begun request and a begun Stop are finished.                    *)
WorkersFairSpec ==
    /\ WorkersSpec
    /\ \A j \in Jobs : /\ WF_workVars(Serve(j) /\ req[j] # "idle")
                       /\ WF_workVars(Step(j))
    /\ \A p \in Procs : WF_workVars(ToolExits(p) /\ UNCHANGED progVars)
    /\ \A s \in Stops : WF_workVars(StopRequest(s) /\ stop[s] # "idle" /\ UNCHANGED progVars)

-----------------------------------------------------------------------------
(* What a table lets its worker hold, conclude, begin and record.          *)

(* Table t leads from its start to labels of its own. *)
IsTable(t) ==
    /\ {"begin", "end"} \subseteq DOMAIN t.code
    /\ \A m \in DOMAIN t.code : \A step \in t.code[m] : step[2] \in DOMAIN t.code
    /\ \A m \in DOMAIN t.catch \cap DOMAIN t.code : t.catch[m] \in DOMAIN t.code

(* The things that some path over table t, of no more steps than it has    *)
(* labels, leads to at each label: first at its start, and after a call    *)
(* those that Leaves makes of the ones before it.                          *)
Reached(t, first, Leaves(_, _)) ==
    LET labels == DOMAIN t.code
        pairs[n \in Nat] ==
            IF n = 0 THEN {"begin"} \X first
            ELSE LET known == pairs[n - 1]
                     there(m) == {p[2] : p \in {q \in known : q[1] = m}}
                 IN  known
                     \cup UNION {UNION {{step[2]} \X Leaves(step[1], there(m))
                                          : step \in t.code[m]} : m \in labels}
                     \cup UNION {{t.catch[m]} \X there(m) : m \in labels \cap DOMAIN t.catch}
        found == pairs[Cardinality(labels)]
    IN  [l \in labels |-> {p[2] : p \in {q \in found : q[1] = l}}]

(* What is held after a call, of what was held before it. *)
After(call, held) ==
    {r \in held : call # GivenBackBy[r]} \cup {r \in Resources : call = r}

(* An account of table t: what its worker holds at most at each label, and *)
(* nothing at the start and the end.                                       *)
IsAccount(held, t) ==
    /\ IsTable(t) /\ held \in [DOMAIN t.code -> SUBSET Resources]
    /\ \A m \in DOMAIN t.code : \A step \in t.code[m] : After(step[1], held[m]) \subseteq held[step[2]]
    /\ \A m \in DOMAIN t.catch \cap DOMAIN t.code : held[m] \subseteq held[t.catch[m]]
    /\ held["end"] = {}

LeastAccount(t) == Reached(t, {}, After)

(* What a worker has seen of its evidence: all of it whole, all but its    *)
(* last tool's, cut short by a Stop that is still on display, or anything. *)
Grades == {"whole", "unjudged", "cut", "spoiled"}

Displaying == {"say", "end", "COMPLETED", "FAILED", "raise"}

GradeAfter(call, grade) ==
    CASE call = "tool" -> IF grade = "whole" THEN "unjudged" ELSE "spoiled"
      [] call = "ok"   -> IF grade = "unjudged" THEN "whole" ELSE grade
      [] call = "cut"  -> "cut"
      [] call \in {"bad", "unsure", "flaw"} -> "spoiled"
      [] OTHER -> IF grade = "cut" /\ call \in Displaying THEN "spoiled" ELSE grade

Verdicts == [COMPLETED |-> "COMPLETED", noteCompleted |-> "COMPLETED", FAILED |-> "FAILED",
             noteFailed |-> "FAILED", STOPPED |-> "STOPPED", raise |-> "raised"]

VerdictAfter(call, verdict) == IF call \in DOMAIN Verdicts THEN Verdicts[call] ELSE verdict

(* The branches on the job's own verdict, and on what is displayed. *)
Allowed(call, verdict, grade) ==
    /\ call = "whole" => verdict = "COMPLETED"
    /\ call = "lacking" => verdict # "COMPLETED"
    /\ call = "judged" => verdict \in {"COMPLETED", "FAILED"}
    /\ call = "unjudged" => verdict \notin {"COMPLETED", "FAILED"}
    /\ call \in {"on", "more"} => grade # "cut"

Assessments == (Final \cup {"none", "raised"}) \X Grades

AssessedAfter(call, seen) ==
    {<<VerdictAfter(call, a[1]), GradeAfter(call, a[2])>> : a \in {b \in seen : Allowed(call, b[1], b[2])}}

(* An assessment of table t: the verdicts and grades its worker may have   *)
(* at each label, with COMPLETED for what is whole and nothing else.       *)
IsAssessment(seen, t) ==
    /\ IsTable(t) /\ seen \in [DOMAIN t.code -> SUBSET Assessments]
    /\ <<"none", "whole">> \in seen["begin"]
    /\ \A m \in DOMAIN t.code : \A step \in t.code[m] : AssessedAfter(step[1], seen[m]) \subseteq seen[step[2]]
    /\ \A m \in DOMAIN t.catch \cap DOMAIN t.code : seen[m] \subseteq seen[t.catch[m]]
    /\ \A m \in DOMAIN t.code : \A a \in seen[m] : a[1] = "COMPLETED" => a[2] = "whole"

LeastAssessment(t) == Reached(t, {<<"none", "whole">>}, AssessedAfter)

(* The labels of table t before which a tool or unit may have begun with   *)
(* no look at the status since: nothing begins at any of them.             *)
Counted == {"tool", "unit"}
Looked  == {"on", "more"}
IsLookout(begun, t) ==
    /\ IsTable(t)
    /\ \A m \in DOMAIN t.code : \A step \in t.code[m] :
          /\ step[1] \in Counted => m \notin begun /\ step[2] \in begun
          /\ m \in begun => step[1] \in Looked \/ step[2] \in begun
    /\ \A m \in DOMAIN t.catch \cap DOMAIN t.code : m \in begun => t.catch[m] \in begun

BegunAfter(call, begun) ==
    IF call \in Counted THEN {TRUE} ELSE IF call \in Looked THEN {} ELSE begun

LeastLookout(t) == {m \in DOMAIN t.code : Reached(t, {}, BegunAfter)[m] # {}}

(* A verdict, and whether the record holds one, or the log its loss. *)
Entries == (Final \cup {"none", "raised"}) \X BOOLEAN

EnteredAfter(call, books) ==
    {<<VerdictAfter(call, b[1]), IF call = "write" THEN b[1] \in Final ELSE b[2]>>
        : b \in {c \in books : Allowed(call, c[1], "whole")}}

(* Books of table t, with a record that its route opens or does not: what  *)
(* its worker may have concluded and written at each label. An exception   *)
(* is no verdict that is written.                                          *)
AreBooks(books, t, opened) ==
    /\ IsTable(t) /\ books \in [DOMAIN t.code -> SUBSET Entries]
    /\ <<"none", ~opened>> \in books["begin"]
    /\ \A m \in DOMAIN t.code : \A step \in t.code[m] :
          /\ EnteredAfter(step[1], books[m]) \subseteq books[step[2]]
          /\ step[1] = "write" => \A b \in books[m] : b[1] # "raised"
    /\ \A m \in DOMAIN t.catch \cap DOMAIN t.code : books[m] \subseteq books[t.catch[m]]

(* ... and at the end it has settled it, short of an exception. *)
Balanced(books) == \A b \in books["end"] : b[2] \/ b[1] = "raised"

Opens(route) == \E n \in DOMAIN route : route[n] = "open"

LeastBooks(t, opened) == Reached(t, {<<"none", ~opened>>}, EnteredAfter)

-----------------------------------------------------------------------------
(* Properties.                                                             *)

(* The workers and start routes keep the protocol of the job slot, so that *)
(* what holds of its general worker holds of each of them.                 *)
KeepsSlotProtocol == Spec

Done(j) == at[j] = "end"

(* A job is judged COMPLETED only when every tool it ran succeeded and     *)
(* nothing of the evidence was cut, missing or unconfirmed (the comments   *)
(* on "only a complete image" above the verdict of execution_worker).      *)
CompletedMeansWhole ==
    \A j \in Jobs : outcome[j] = "COMPLETED"
                    => /\ j \notin flawed
                       /\ \A n \in 1 .. runs[j] : proc[<<j, n>>] = "ok"

(* A worker that ran to its end leaves the record it opened settled (the   *)
(* comment "recorded as such, never left IN_PROGRESS" on the branches for  *)
(* a Stop), or the loss of a write on the custody log.                     *)
RecordIsSettled ==
    \A j \in Jobs : Done(j) /\ kind[j] \notin Open /\ record[j] = "IN_PROGRESS"
                    => outcome[j] = "raised" \/ j \in lost

(* The comment itself, of every kind. *)
StoppedNeverInProgress ==
    \A j \in Jobs : Done(j) /\ outcome[j] # "raised" /\ j \notin lost
                    => record[j] # "IN_PROGRESS"

(* Whichever way a worker ends, by an early return, a Stop or an           *)
(* exception, what it mounted, unlocked or unpacked is put back.           *)
ResourcesGivenBack == \A j \in Jobs : Done(j) => holds[j] = {}

(* With a finished Stop on display a worker begins at most one more tool   *)
(* or unit of work: every loop looks for the Stop before each.             *)
WorkStopsSoon == \A j \in Jobs : kind[j] \notin Deaf => late[j] <= 1

(* A job judged after its own Stop is complete is not judged a failure     *)
(* (the comment on the STOPPED branches), whatever was started since.      *)
StoppedIsNotFailed ==
    [][\A j \in Jobs : Conclude(j) /\ stoppedGen = claimGen[j] /\ NewerClaim(j)
                       => outcome'[j] # "FAILED"]_workVars

(* While nothing new has started, a finished Stop stays on display: the    *)
(* status writes of the stopped worker are dropped (the comment in         *)
(* update_job).                                                            *)
StoppedStaysOnDisplay ==
    \A j \in Jobs : /\ LatestClaim(j) /\ wkGen[j] = claimGen[j]
                    /\ stoppedGen = claimGen[j] /\ stopSupGen = gen
                    => status = "Stopped"

(* Every worker that has begun comes to its end, and with its record       *)
(* settled, short of a lost write or an exception.                         *)
EveryWorkerEnds ==
    \A j \in Jobs : Alive(j) ~> Done(j) /\ (\/ record[j] \in Final \cup {"none"}
                                            \/ j \in lost \/ outcome[j] = "raised"
                                            \/ kind[j] \in Open)

=============================================================================
