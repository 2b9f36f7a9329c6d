-------------------------- MODULE AnalysisPrograms --------------------------
(***************************************************************************)
(* routes/image_browser.py, routes/file_explorer.py and                    *)
(* routes/reporting.py as programs of Workers: what analyses or packs      *)
(* evidence that is already there.  These keep no acquisition record: they *)
(* leave files, custody entries and the final status.                      *)
(***************************************************************************)
EXTENDS ProgramParts, Sequences

(* A scan that looks for a Stop before each file, writes what it has       *)
(* found, and says Completed unless it was stopped.                        *)
PolledScan ==
    [code |-> Free @@
        [begin    |-> {<<"end", "close">>, <<"say", "count">>},
         count    |-> {<<"say", "files">>},
         files    |-> {<<"more", "scan">>, <<"stopped", "results">>, <<"skip", "results">>},
         scan     |-> {<<"unit", "files">>},
         results  |-> {<<"skip", "verdict">>},
         verdict  |-> {<<"stopped", "close">>, <<"on", "finish">>},
         finish   |-> {<<"end", "close">>}],
     catch |-> Caught({"begin", "count", "files", "scan", "results", "verdict",
                       "finish"}, "except")]

(* execution_worker_image_geolocation_kml() *)
GeolocationKml == PolledScan

(* execution_worker_image_triage_scan(): the files are counted first and   *)
(* scanned in a second walk, the index written a few hundred rows at a     *)
(* time, ...                                                               *)
TriageWalk ==
    [count |-> {<<"say", "files">>},
     files |-> {<<"more", "scan">>, <<"stopped", "results">>, <<"skip", "results">>},
     scan  |-> {<<"unit", "files">>}]

(* ... then the rest of the rows and the report, Stop or not. *)
TriageReport ==
    [results |-> {<<"skip", "verdict">>},
     verdict |-> {<<"stopped", "close">>, <<"on", "finish">>},
     finish  |-> {<<"end", "close">>}]

ImageTriageScan ==
    [code |-> TriageWalk @@ TriageReport @@ Free @@
        [begin |-> {<<"end", "close">>, <<"say", "count">>}],
     catch |-> Caught({"begin"} \cup DOMAIN TriageWalk \cup DOMAIN TriageReport, "except")]

StartGeolocationKml  == <<"image", "destination", "init">>
StartImageTriageScan == <<"image", "destination", "init">>

(* execution_worker_materialize_shadow_copy(): a status with every chunk,  *)
(* a look for a Stop between two; no except clause, the `finally' only.    *)
ShadowCopy ==
    [code |-> Free @@
        [begin  |-> {<<"more", "chunk">>, <<"cut", "stopped">>, <<"skip", "finish">>,
                     <<"flaw", "broken">>},
         chunk  |-> {<<"unit", "tell">>},
         tell   |-> {<<"say", "begin">>},
         stopped |-> {<<"end", "close">>},
         broken |-> {<<"end", "close">>},
         finish |-> {<<"COMPLETED", "close">>}],
     catch |-> Caught({"begin", "chunk", "tell", "finish"}, "close")]
StartShadowCopy == <<"store", "image", "destination", "collision", "init">>

(* execution_worker_auto_analyze_image(): every step is tried, a step's    *)
(* own exception is noted; once stopped the remaining ones are skipped.    *)
AutoAnalyzeImage ==
    [code |->
        [begin   |-> {<<"suppress", "announce">>},
         announce |-> {<<"say", "steps">>},
         steps   |-> {<<"more", "tell">>, <<"stopped", "pass">>, <<"skip", "tally">>},
         pass    |-> {<<"skip", "tally">>},
         tell    |-> {<<"say", "step">>},
         step    |-> {<<"unit", "steps">>},
         tally   |-> {<<"stopped", "lower">>, <<"on", "finish">>},
         finish  |-> {<<"end", "lower">>},
         failedRun |-> {<<"raise", "lower">>},
         lower   |-> {<<"endSuppress", "release">>},
         release |-> {<<"finalFree", "end">>},
         end     |-> {}],
     catch |-> Caught({"announce", "steps", "tell", "tally", "finish"}, "failedRun")]
StartAutoAnalyzeImage == <<"image", "steps">>

-----------------------------------------------------------------------------
(* execution_worker_import_takeout(): extracts, parses, records.           *)
TakeoutImport ==
    [code |-> Free @@
        [begin   |-> {<<"say", "extract">>},
         extract |-> {<<"unit", "parse">>},
         parse   |-> {<<"say", "read">>},
         read    |-> {<<"unit", "finish">>},
         finish  |-> {<<"end", "close">>}],
     catch |-> Caught({"begin", "extract", "parse", "read", "finish"}, "except")]
StartTakeoutImport == <<"archive", "destination", "init">>

(* execution_worker_import_apple_export(): parses, then the photos' GPS    *)
(* data when there are photos.                                             *)
AppleImport ==
    [code |-> Free @@
        [begin   |-> {<<"say", "parse">>},
         parse   |-> {<<"unit", "gps">>, <<"unit", "finish">>},
         gps     |-> {<<"say", "extract">>},
         extract |-> {<<"unit", "finish">>},
         finish  |-> {<<"end", "close">>}],
     catch |-> Caught({"begin", "parse", "gps", "extract", "finish"}, "except")]
StartAppleImport == <<"folder", "destination", "init">>

(* A memory image questioned plugin by plugin, each an untracked process   *)
(* with a timeout and a custody entry of its own; a missing tool ends it.  *)
PluginScan ==
    [code |-> Free @@
        [begin   |-> {<<"say", "plugins">>},
         plugins |-> {<<"more", "tell">>, <<"stopped", "close">>, <<"skip", "finish">>},
         tell    |-> {<<"say", "plugin">>},
         plugin  |-> {<<"unit", "plugins">>, <<"end", "close">>},
         finish  |-> {<<"end", "close">>}],
     catch |-> Caught({"begin", "plugins", "tell", "plugin", "finish"}, "except")]

(* execution_worker_memory_forensics_scan(), _mquire_scan() *)
MemoryScan == PluginScan
MquireScan == PluginScan
StartMemoryScan == <<"image", "destination", "plugins", "init">>
StartMquireScan == <<"image", "destination", "tables", "init">>

(* execution_worker_leapp_scan(): one tracked tool, its output indexed.    *)
LeappScan ==
    [code |-> Free @@
        [begin   |-> {<<"say", "found">>},
         found   |-> {<<"end", "close">>, <<"tool", "exit">>},
         exit    |-> {<<"ok", "lookOk">>, <<"bad", "lookBad">>},
         lookOk  |-> {<<"stopped", "close">>, <<"on", "index">>},
         lookBad |-> {<<"stopped", "close">>, <<"on", "finish">>},
         index   |-> {<<"skip", "finish">>},
         finish  |-> {<<"end", "close">>}],
     catch |-> Caught({"begin", "found", "exit", "lookOk", "lookBad", "index",
                       "finish"}, "except")]
StartLeappScan == <<"tool", "folder", "destination", "init">>

(* execution_worker_auto_analyze_mobile(): the LEAPP step runs the whole   *)
(* worker above, which releases the slot in its `finally'; the flag keeps  *)
(* the run's.                                                              *)
AutoAnalyzeMobile ==
    [code |-> [AutoAnalyzeImage.code EXCEPT
                 !.step = {<<"unit", "steps">>, <<"turn", "leappRun">>}] @@
        [leappRun |-> {<<"say", "leapp">>},
         leapp   |-> {<<"end", "give">>, <<"tool", "exit">>},
         exit    |-> {<<"ok", "leappOk">>, <<"bad", "leappBad">>},
         leappOk |-> {<<"stopped", "give">>, <<"on", "told">>},
         leappBad |-> {<<"stopped", "give">>, <<"on", "told">>},
         told    |-> {<<"end", "give">>},
         broken  |-> {<<"raise", "give">>},
         give    |-> {<<"free", "steps">>}],
     catch |-> AutoAnalyzeImage.catch
               @@ Caught({"leappRun", "leapp", "exit", "leappOk", "leappBad", "told"}, "broken")]
StartAutoAnalyzeMobile == <<"path", "steps">>

(* What the bundle is to hold, and whether it fits. *)
BundleListing ==
    [begin |-> {<<"say", "space">>},
     space |-> {<<"end", "close">>, <<"say", "open">>}]

(* Under a name that says it is partial, a look for a Stop before each     *)
(* file and within a large one.                                            *)
BundleFilling ==
    [open  |-> {<<"stage", "files">>},
     files |-> {<<"more", "add">>, <<"cut", "verdict">>, <<"skip", "verdict">>},
     add   |-> {<<"unit", "files">>, <<"cut", "verdict">>}]

(* Renamed as complete, or as incomplete after a Stop or an exception.     *)
BundleClosing ==
    [verdict   |-> {<<"stopped", "renameCut">>, <<"on", "rename">>},
     renameCut |-> {<<"unstage", "stopped">>},
     stopped   |-> {<<"STOPPED", "close">>},
     rename    |-> {<<"unstage", "finish">>},
     finish    |-> {<<"COMPLETED", "close">>},
     dropped   |-> {<<"unstage", "except">>}]

(* execution_worker_case_bundle_export() *)
BundleExport ==
    [code |-> Free @@ BundleListing @@ BundleFilling @@ BundleClosing,
     catch |-> Caught(DOMAIN BundleListing \cup {"finish"}, "except")
               @@ Caught({"files", "add", "verdict"}, "dropped")]
StartBundleExport == <<"case folder", "init">>

=============================================================================
