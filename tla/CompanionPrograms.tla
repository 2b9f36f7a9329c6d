------------------------- MODULE CompanionPrograms -------------------------
(***************************************************************************)
(* The companion collector of routes/mobile.py as a program of Workers: a  *)
(* small app is installed on an Android phone, is granted what the chosen  *)
(* kinds of data need, is asked for them, and all of that is undone again. *)
(* What the phone is changed by are resources of the job: `install',       *)
(* `grant' and `role', the default SMS app; putting one back is the call   *)
(* that does so, whose own failure is only logged.                         *)
(***************************************************************************)
EXTENDS ProgramParts, Sequences

(* The app is installed; a failed or timed-out install may be on the phone *)
(* all the same.                                                           *)
CompanionInstall ==
    [begin   |-> {<<"say", "install">>},
     install |-> {<<"install", "look1">>, <<"install", "broken">>, <<"skip", "absent">>},
     absent  |-> {<<"noteFailed", "record">>}]

(* Full access to messages takes the SMS role, anything else permissions;  *)
(* a refusal ends the collection, but for photos and videos.               *)
CompanionGrants ==
    [look1    |-> {<<"stopped", "halt">>, <<"on", "sms">>},
     sms      |-> {<<"say", "role">>, <<"say", "permit">>, <<"skip", "others">>},
     role     |-> {<<"role", "others">>, <<"skip", "broken">>},
     permit   |-> {<<"grant", "others">>, <<"skip", "broken">>},
     others   |-> {<<"say", "granting">>, <<"skip", "look2">>},
     granting |-> {<<"grant", "look2">>, <<"skip", "look2">>,
                   <<"grant", "broken">>, <<"skip", "broken">>}]

(* One query per kind of data, a look for a Stop before each; a kind that  *)
(* cannot be read is counted in the report.  A Stop once seen is           *)
(* remembered (stop_requested).                                            *)
CompanionQueries ==
    [look2    |-> {<<"stopped", "halt">>, <<"on", "queries">>},
     queries  |-> {<<"more", "tell">>, <<"cut", "indexCut">>, <<"stopped", "index">>,
                   <<"skip", "index">>},
     tell     |-> {<<"say", "query">>},
     query    |-> {<<"unit", "queries">>},
     index    |-> {<<"skip", "verdict">>},
     indexCut |-> {<<"skip", "halt">>}]

(* Nothing that was asked could be read is a failure; a Stop with          *)
(* something left out is a partial collection.                             *)
CompanionVerdict ==
    [verdict |-> {<<"noteCompleted", "undo">>, <<"noteFailed", "undo">>,
                  <<"stopped", "halt">>},
     halt    |-> {<<"STOPPED", "undo">>},
     broken  |-> {<<"noteFailed", "undo">>}]

(* The `finally': whatever was changed is undone, Stop or not. *)
CompanionUndo ==
    [undo      |-> {<<"restore", "revoke">>},
     revoke    |-> {<<"revoke", "uninstall">>},
     uninstall |-> {<<"uninstall", "record">>}]

(* Then the record; the status goes with the release of the slot, which    *)
(* the wrapper releases in any case.                                       *)
CompanionReport ==
    [record |-> {<<"write", "final">>},
     final  |-> {<<"judged", "ended">>, <<"unjudged", "close">>},
     ended  |-> {<<"end", "close">>},
     close  |-> {<<"free", "end">>},
     end    |-> {}]

(* execution_worker_android_companion_extraction() *)
Companion ==
    [code |-> CompanionInstall @@ CompanionGrants @@ CompanionQueries
              @@ CompanionVerdict @@ CompanionUndo @@ CompanionReport,
     catch |-> Caught({"begin", "install"} \cup DOMAIN CompanionGrants
                      \cup DOMAIN CompanionQueries \cup {"verdict"}, "broken")]

(* Only photos or videos were asked for and no permission for them was     *)
(* granted: no query runs and no branch reaches a verdict.                 *)
CompanionUnread ==
    [Companion EXCEPT !.code.look2 = {<<"stopped", "halt">>, <<"on", "undo">>}]

(* The call that takes the SMS role times out after it took effect: the    *)
(* worker takes it for refused and restores nothing.                       *)
CompanionLateRole ==
    [Companion EXCEPT
        !.code = [forsaken |-> {<<"noteFailed", "revoke">>}]
                 @@ [@ EXCEPT !.role = {<<"role", "forsaken">>}]]

(* start_android_companion_extraction(): no start-of-job record.           *)
StartCompanion ==
    <<"case is open", "device", "kinds of data", "tier", "destination", "folder",
      "collision", "open">>

=============================================================================
