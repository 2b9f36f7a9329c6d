----------------------------- MODULE SingleSlot -----------------------------
(***************************************************************************)
(* What core/jobs.py promises the station: one slot, given to one job at a *)
(* time, given back by that job alone, and external tools that run only    *)
(* while their job holds it (README: "only one acquisition/recovery/       *)
(* analysis job ever runs station-wide").                                  *)
(***************************************************************************)
EXTENDS Naturals

CONSTANTS Jobs, NoJob

VARIABLES
    holder,   \* the job that holds the slot
    turn,     \* what each job has had of it
    busy      \* the jobs with a tool running

slotVars == <<holder, turn, busy>>

SlotInit ==
    /\ holder = NoJob
    /\ turn = [j \in Jobs |-> "none"]
    /\ busy = {}

Take(j) ==
    /\ holder = NoJob /\ turn[j] = "none"
    /\ holder' = j
    /\ turn' = [turn EXCEPT ![j] = "holds"]
    /\ UNCHANGED busy

RunTool(j) ==
    /\ holder = j /\ j \notin busy
    /\ busy' = busy \cup {j}
    /\ UNCHANGED <<holder, turn>>

ToolEnds(j) ==
    /\ j \in busy
    /\ busy' = busy \ {j}
    /\ UNCHANGED <<holder, turn>>

GiveBack(j) ==
    /\ holder = j /\ j \notin busy
    /\ holder' = NoJob
    /\ turn' = [turn EXCEPT ![j] = "had"]
    /\ UNCHANGED busy

SlotNext == \E j \in Jobs : Take(j) \/ RunTool(j) \/ ToolEnds(j) \/ GiveBack(j)

SlotSpec == SlotInit /\ [][SlotNext]_slotVars

=============================================================================
