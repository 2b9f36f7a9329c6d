------------------------ MODULE AcquisitionPrograms ------------------------
(***************************************************************************)
(* routes/acquisition.py as programs of Workers: imaging (with ddrescue,   *)
(* AFF and the chained analysis), image conversion, logical acquisition,   *)
(* the Live Collection stick and the import of what it collected.          *)
(***************************************************************************)
EXTENDS AnalysisPrograms

(* execution_worker(): the engine runs, its output is confirmed, verdict.  *)
Imaging ==
    [code |-> FreeAndClear @@ Settle @@ ExitVerdict @@
        [begin  |-> {<<"say", "launch">>},
         launch |-> {<<"tool", "judge">>}],
     catch |-> Caught({"launch"} \cup SettleLabels, "except")]

(* start_imaging(): what is asked for, ... *)
ImagingRequest ==
    <<"case is open", "format", "source", "hashes", "compression", "segment size">>

(* ... where it goes, and that it fits there, ... *)
ImagingDestination ==
    <<"destination", "not the evidence root", "destination off the source",
      "folder", "space">>

(* ... that nothing of that name is there yet, and the start. *)
ImagingOutput == <<"collision">>
StartImaging == ImagingRequest \o ImagingDestination \o ImagingOutput \o <<"init", "open">>

(* start_ddrescue(): the record is opened by the worker's final write.     *)
StartDdrescue ==
    <<"case is open", "source", "destination", "destination off the source",
      "base name", "folder", "size limit", "collision", "init">>

(* execution_worker_aff(): acquire a raw image, convert it.  A Stop in the *)
(* first phase returns at once, without a record.                          *)
ImagingAff ==
    [code |-> FreeAndClear @@ Settle @@
        [begin   |-> {<<"say", "acquire">>},
         acquire |-> {<<"tool", "phase1">>},
         phase1  |-> {<<"ok", "look">>, <<"unsure", "doubt">>, <<"bad", "ended">>},
         ended   |-> {<<"on", "failed">>, <<"stopped", "close">>},
         look    |-> {<<"on", "convert">>, <<"stopped", "close">>},
         doubt   |-> {<<"on", "failed">>, <<"stopped", "close">>},
         convert |-> {<<"say", "repack">>},
         repack  |-> {<<"tool", "judge">>}] @@ ExitVerdict,
     catch |-> Caught({"begin", "acquire", "phase1", "ended", "look", "doubt",
                       "convert", "repack"} \cup SettleLabels, "except")]

(* execution_worker_chained_auto_analyze(): execution_worker() and, for a  *)
(* whole image of a kind it knows, the worker of Auto Analyze, which       *)
(* releases the slot; otherwise it does so itself.                         *)
ImagingChained ==
    [code |-> [begin    |-> {<<"suppress", "image">>},
               image    |-> {<<"say", "launch">>},
               launch   |-> {<<"tool", "judge">>},
               record   |-> {<<"write", "close">>},
               except   |-> {<<"raise", "close">>},
               close    |-> {<<"freeClear", "after">>},
               after    |-> {<<"whole", "classify">>, <<"lacking", "lower">>},
               classify |-> {<<"skip", "announce">>, <<"end", "lower">>}]
              @@ Settle @@ ExitVerdict @@ AutoAnalyzeImage.code,
     catch |-> Caught({"launch"} \cup SettleLabels, "except")
               @@ Caught({"classify"}, "lower")
               @@ AutoAnalyzeImage.catch]

(* execution_worker_image_conversion(): to E01 the source is hashed first, *)
(* to raw the export is renamed and hashed afterwards.                     *)
Conversion ==
    [code |-> FreeAndClear @@ Settle @@ ExitVerdict @@
        [begin  |-> {<<"say", "hash">>, <<"say", "export">>},
         hash   |-> {<<"unit", "toE01">>},
         toE01  |-> {<<"say", "launch">>},
         launch |-> {<<"tool", "judge">>},
         export |-> {<<"tool", "toRaw">>},
         toRaw  |-> {<<"ok", "rename">>, <<"unsure", "verdict">>, <<"bad", "verdict">>},
         rename |-> {<<"unit", "completed">>}],
     catch |-> Caught({"begin", "hash", "toE01", "launch", "export", "toRaw",
                       "rename"} \cup SettleLabels, "except")]

(* start_image_conversion() *)
StartConversion ==
    <<"source", "format", "hashes", "kind of source", "collision",
      "case is open", "open">>

(* execution_worker_logical_acquisition() without the archive: a file that *)
(* cannot be copied is named in the log and the manifest, the rest goes on.*)
Logical ==
    [code |-> FreeAndClear @@ Settle @@
        [begin    |-> {<<"say", "copying">>},
         copying  |-> {<<"say", "files">>},
         files    |-> {<<"more", "copy">>, <<"cut", "manifest">>, <<"skip", "manifest">>},
         copy     |-> {<<"unit", "files">>},
         manifest |-> {<<"skip", "verdict">>},
         verdict  |-> {<<"stopped", "halted">>, <<"on", "failed">>, <<"on", "completed">>}],
     catch |-> Caught({"begin", "copying", "files", "copy", "manifest"}
                      \cup SettleLabels, "except")]

(* The same with the archive, whose status comes between the look for a    *)
(* Stop in the loop and the one of the verdict.                            *)
LogicalZipped ==
    [Logical EXCEPT !.code = [zip |-> {<<"say", "verdict">>},
                              manifest |-> {<<"skip", "zip">>}] @@ @,
                    !.catch = Caught({"zip"}, "except") @@ @]

(* start_logical_acquisition() *)
StartLogical ==
    <<"case is open", "folders chosen", "destination", "folders", "hashes",
      "collision", "open">>

(* _unlock_device_for_write(): a drive in another port, or one the kernel  *)
(* keeps read-only, is refused and nothing stays unlocked.                 *)
Unlocking(unlocked, refused) == {<<"unlock", unlocked>>, <<"end", refused>>}

(* _relock_device_after_write(): never fails. *)
Relocking(next) == {<<"relock", next>>}

(* execution_worker_build_collection_usb(): unlock, wipe or reuse, mount,  *)
(* copy, unmount, and relock whatever happened.                            *)
BuildUsb ==
    [code |-> Free @@
        [begin    |-> {<<"say", "unlocking">>},
         unlocking |-> Unlocking("prepare", "close"),
         prepare  |-> {<<"say", "look2">>, <<"say", "look1">>},
         look1    |-> {<<"stopped", "lock">>, <<"on", "wipe">>},
         wipe     |-> {<<"unit", "look2">>, <<"end", "lock">>},
         look2    |-> {<<"stopped", "lock">>, <<"on", "mounting">>},
         mounting |-> {<<"say", "attach">>},
         attach   |-> {<<"mount", "fill">>, <<"end", "lock">>},
         fill     |-> {<<"unit", "filled">>},
         filled   |-> {<<"say", "detach">>},
         detach   |-> {<<"unmount", "report">>},
         report   |-> {<<"end", "lock">>},
         lock     |-> Relocking("close"),
         dropped  |-> {<<"unmount", "abandon">>},
         abandon  |-> Relocking("except")],
     catch |-> Caught({"begin", "unlocking"}, "except")
               @@ Caught({"prepare", "look1", "wipe", "look2", "mounting",
                          "attach", "report"}, "abandon")
               @@ Caught({"fill", "filled"}, "dropped")]

(* start_build_collection_usb() *)
StartBuildUsb ==
    <<"device", "port", "confirmed", "same drive", "nothing mounted">>

(* The runs chosen are looked for again on the mounted stick, and copied   *)
(* file by file; one that cannot be is named in the log.                   *)
LiveCopy ==
    [runs    |-> {<<"skip", "failed">>, <<"skip", "copying">>},
     copying |-> {<<"say", "files">>},
     files   |-> {<<"more", "copy">>, <<"cut", "manifest">>, <<"skip", "manifest">>},
     copy    |-> {<<"unit", "files">>}]

(* What was copied is listed, parsed into the case index and summed up,    *)
(* Stop or not; all but the manifest is best effort.                       *)
LiveResults ==
    [manifest |-> {<<"skip", "parse">>},
     parse    |-> {<<"skip", "summary">>},
     summary  |-> {<<"skip", "verdict">>}]

(* execution_worker_import_live_collection(): mounted read-only, and       *)
(* unmounted in a `finally' of its own.                                    *)
ImportLive ==
    [code |-> LiveCopy @@ LiveResults @@
        [begin     |-> {<<"say", "attach">>},
         attach    |-> {<<"mount", "runs">>, <<"skip", "unmounted">>},
         unmounted |-> {<<"FAILED", "noted">>},
         noted     |-> {<<"write", "close">>},
         verdict   |-> {<<"stopped", "halted">>, <<"on", "failed">>, <<"on", "completed">>},
         record    |-> {<<"write", "detach">>},
         detach    |-> {<<"unmount", "close">>},
         dropped   |-> {<<"unmount", "except">>}] @@ Free @@ Settle,
     catch |-> Caught({"begin", "attach", "unmounted", "noted"}, "except")
               @@ Caught(DOMAIN LiveCopy \cup DOMAIN LiveResults \cup SettleLabels,
                         "dropped")]

(* start_import_live_collection() *)
StartImportLive ==
    <<"case is open", "device", "runs chosen", "destination", "hashes", "open">>

=============================================================================
