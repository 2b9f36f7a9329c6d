---------------------------- MODULE ProgramParts ----------------------------
(***************************************************************************)
(* What the programs of Workers have in common: the ends that most workers *)
(* share, written once.  A part is a table of its own and is joined to the *)
(* worker's with @@.                                                       *)
(***************************************************************************)
EXTENDS TLC

(* An exception at any of the labels leads to the handler. *)
Caught(labels, handler) == [l \in labels |-> handler]

(* The outcome with its status, then _write_report(). *)
Settle ==
    [completed |-> {<<"COMPLETED", "record">>},
     failed    |-> {<<"FAILED", "record">>},
     halted    |-> {<<"STOPPED", "record">>},
     record    |-> {<<"write", "close">>}]

(* Success unless the exit code says otherwise; then the shared status     *)
(* tells a Stop from a failure.                                            *)
ExitVerdict ==
    [judge   |-> {<<"ok", "completed">>, <<"unsure", "verdict">>, <<"bad", "verdict">>},
     verdict |-> {<<"on", "failed">>, <<"stopped", "halted">>}]

SettleLabels == {"judge", "verdict", "completed", "failed", "halted", "record"}

(* _fsync_confirm_write(): the destination says that the file is on it, or *)
(* part of it may be missing.                                              *)
FileConfirmed(good, bad) == {<<"skip", good>>, <<"flaw", bad>>}

(* fsync_confirm_directory_tree(): the same of every file of a folder, as  *)
(* far as the walk gets.                                                   *)
TreeConfirmed(good, bad) == {<<"skip", good>>} \cup FileConfirmed(good, bad)

(* except: status Failed; finally: the slot, with or without the handle of *)
(* the external tool.                                                      *)
FreeAndClear ==
    [except |-> {<<"raise", "close">>},
     close  |-> {<<"freeClear", "end">>},
     end    |-> {}]

Free ==
    [except |-> {<<"raise", "close">>},
     close  |-> {<<"free", "end">>},
     end    |-> {}]

=============================================================================
