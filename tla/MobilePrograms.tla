--------------------------- MODULE MobilePrograms ---------------------------
(***************************************************************************)
(* routes/mobile.py and routes/recovery.py as programs of Workers: phones  *)
(* backed up, pulled or imaged, and what carves or scans deleted data.     *)
(***************************************************************************)
EXTENDS ProgramParts, Sequences

\* Mutant: the device is asked again until it accepts.
IosBackup_AsksAgain ==
    [code |-> FreeAndClear @@ Settle @@ ExitVerdict @@
        [begin   |-> {<<"say", "encrypt">>, <<"skip", "announce">>},
         encrypt |-> {<<"skip", "announce">>, <<"skip", "begin">>},
         announce |-> {<<"say", "launch">>},
         launch  |-> {<<"tool", "judge">>}],
     catch |-> Caught({"begin", "encrypt", "announce", "launch"} \cup SettleLabels,
                      "except")]
(* execution_worker_ios_backup(): encryption is asked for on the device    *)
(* first, and a refusal or no answer ends the job.                         *)
IosBackup ==
    [code |-> FreeAndClear @@ Settle @@ ExitVerdict @@
        [begin   |-> {<<"say", "encrypt">>, <<"skip", "announce">>},
         encrypt |-> {<<"skip", "announce">>, <<"skip", "failed">>},
         announce |-> {<<"say", "launch">>},
         launch  |-> {<<"tool", "judge">>}],
     catch |-> Caught({"begin", "encrypt", "announce", "launch"} \cup SettleLabels,
                      "except")]

(* start_ios_backup() *)
StartIosBackup ==
    <<"case is open", "device", "destination", "collision", "folder", "init", "open">>

(* Best-effort captures after a pull: something is captured or nothing is, *)
(* and no failure of theirs is one of the acquisition.                     *)
Capture(here, next) == here :> {<<"unit", next>>, <<"skip", next>>}

DeviceTimestamps     == Capture("stamps", "inventory")
AppInventory         == Capture("inventory", "accounts")
ConfiguredAccounts   == Capture("accounts", "notifications")
NotificationSnapshot == Capture("notifications", "record")

(* _verify_android_single_file_output(): whole on the destination, or not. *)
AndroidVerification ==
    "verify" :> FileConfirmed("completed", "failed") \cup TreeConfirmed("completed", "failed")

(* execution_worker_android(): backup, pull or bug report; the output is   *)
(* verified before it is called complete, a pull is enriched afterwards.   *)
AndroidAcquisition ==
    [code |-> [completed |-> {<<"COMPLETED", "record">>, <<"COMPLETED", "stamps">>}]
        @@ FreeAndClear @@ Settle
        @@ AndroidVerification @@ DeviceTimestamps @@ AppInventory
        @@ ConfiguredAccounts @@ NotificationSnapshot @@
        [begin    |-> {<<"say", "announce">>},
         announce |-> {<<"say", "launch">>},
         launch   |-> {<<"tool", "judge">>},
         judge    |-> {<<"ok", "verify">>, <<"unsure", "verdict">>, <<"bad", "verdict">>},
         verdict  |-> {<<"on", "failed">>, <<"stopped", "halted">>}],
     catch |-> Caught({"begin", "announce", "launch", "verify", "stamps", "inventory",
                       "accounts", "notifications"} \cup SettleLabels, "except")]

(* start_android_acquisition() for these three modes, ... *)
StartAndroid ==
    <<"case is open", "device", "mode", "destination", "collision", "folder",
      "init", "open">>

(* ... and for the physical one. *)
StartAndroidPhysical ==
    <<"case is open", "device", "mode", "destination", "target", "format",
      "hashes", "folder", "collision", "init", "open">>

(* execution_worker_android_physical(): adb piped into the imaging engine; *)
(* "unsure" is also a read that failed upstream.                           *)
AndroidPhysical ==
    [code |-> FreeAndClear @@ Settle @@ ExitVerdict @@
        [begin  |-> {<<"say", "launch">>},
         launch |-> {<<"tool", "judge">>}],
     catch |-> Caught({"launch"} \cup SettleLabels, "except")]

(* execution_worker_mtp_pull(): the device is mounted read-only on a       *)
(* staging folder and copied file by file; unmounted after the slot is     *)
(* released, when it had been mounted.                                     *)
MtpPull ==
    [code |-> Settle @@
        [begin    |-> {<<"stage", "announce">>},
         announce |-> {<<"say", "attach">>},
         attach   |-> {<<"mount", "look">>, <<"skip", "unmounted">>},
         unmounted |-> {<<"FAILED", "noted">>},
         noted    |-> {<<"write", "closeBare">>},
         look     |-> {<<"stopped", "halted">>, <<"on", "list">>},
         list     |-> {<<"say", "copying">>},
         copying  |-> {<<"say", "files">>},
         files    |-> {<<"more", "copy">>, <<"cut", "verdict">>, <<"skip", "verdict">>},
         copy     |-> {<<"unit", "files">>},
         verdict  |-> {<<"stopped", "halted">>, <<"on", "failed">>, <<"on", "completed">>},
         except   |-> {<<"raise", "close">>},
         excepted |-> {<<"raise", "closeBare">>},
         close    |-> {<<"free", "detach">>},
         closeBare |-> {<<"free", "remove">>},
         detach   |-> {<<"unmount", "remove">>},
         remove   |-> {<<"unstage", "end">>},
         end      |-> {}],
     catch |-> Caught({"announce", "attach", "unmounted", "noted"}, "excepted")
               @@ Caught({"look", "list", "copying", "files", "copy"}
                         \cup SettleLabels, "except")]

(* start_mtp_pull() *)
StartMtpPull ==
    <<"case is open", "device", "destination", "collision", "folder", "init", "open">>

-----------------------------------------------------------------------------
(* _confirm_recovery_output_or_fail() *)
RecoveryConfirmation == "confirm" :> TreeConfirmed("completed", "verdict")

(* A carver: the tool, the confirmation of what it recovered, and no       *)
(* branch for a Stop, after which the record is written as it was opened.  *)
Carver ==
    [code |-> FreeAndClear @@ Settle @@ RecoveryConfirmation @@
        [begin    |-> {<<"say", "announce">>},
         announce |-> {<<"say", "launch">>},
         launch   |-> {<<"tool", "judge">>},
         judge    |-> {<<"ok", "confirm">>, <<"bad", "verdict">>},
         verdict  |-> {<<"on", "failed">>, <<"stopped", "record">>}],
     catch |-> Caught({"announce", "launch", "confirm"} \cup SettleLabels, "except")]

(* execution_worker_photorec(), _extundelete(), _foremost(), _scalpel() *)
Photorec    == Carver
Extundelete == Carver
Foremost    == Carver
Scalpel     == Carver

(* start_photorec() and start_extundelete(); start_foremost() and          *)
(* start_scalpel() leave the folder to the tool.                           *)
StartPhotorec ==
    <<"case is open", "source", "destination", "destination off the source",
      "collision", "folder", "init", "open">>
StartExtundelete == StartPhotorec
StartForemost ==
    <<"case is open", "source", "destination", "destination off the source",
      "collision", "init", "open">>
StartScalpel == StartForemost

(* The source of a triage scan is read chunk by chunk or file by file, a   *)
(* look for a Stop before each; the reader of a device is a process of its *)
(* own, ended whatever happens.                                            *)
TriageReading ==
    [source   |-> {<<"stage", "chunks">>, <<"skip", "chunks">>},
     chunks   |-> {<<"more", "read">>, <<"cut", "drop">>, <<"flaw", "unread">>,
                   <<"skip", "drop">>},
     read     |-> {<<"unit", "chunks">>},
     drop     |-> {<<"unstage", "results">>},
     unread   |-> {<<"unstage", "gaps">>},
     dropped  |-> {<<"unstage", "except">>}]

(* The hits are written and indexed whatever was read; a source that was   *)
(* not read to its end is a failure, short of a Stop.                      *)
TriageResults ==
    [results |-> {<<"skip", "verdict">>},
     gaps    |-> {<<"skip", "problem">>},
     problem |-> {<<"stopped", "halted">>, <<"on", "failed">>},
     verdict |-> {<<"stopped", "halted">>, <<"on", "completed">>}]

(* execution_worker_triage_scan(): an exception, too, is recorded.         *)
TriageScan ==
    [code |-> TriageReading @@ TriageResults @@
        [begin    |-> {<<"say", "patterns">>},
         patterns |-> {<<"skip", "announce">>},
         announce |-> {<<"say", "source">>},
         except   |-> {<<"FAILED", "record">>}] @@ FreeAndClear @@ Settle,
     catch |-> Caught({"announce", "source", "completed", "failed", "halted"}
                      \cup DOMAIN TriageResults, "except")
               @@ Caught({"chunks", "read"}, "dropped")]

(* start_triage_scan() *)
StartTriageScan ==
    <<"case is open", "source", "kind of source", "destination",
      "destination off the source", "collision", "init", "open">>

=============================================================================
