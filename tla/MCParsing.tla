------------------------------ MODULE MCParsing -----------------------------
(* Every route by itself, and pairs of routes that meet in the index.      *)
EXTENDS Parsing, TLC

CONSTANTS r1, r2

X == INSTANCE ExplorerRoutes
I == INSTANCE ImageRoutes

On(place, program) == [kind |-> program.kind, steps |-> program.steps, on |-> place]
Idle == [kind |-> "idle", steps |-> <<>>, on |-> "disk"]
Alone(place, programs) == {(r1 :> On(place, p)) @@ (r2 :> Idle) : p \in programs}
Pair(a, b) == {(r1 :> a) @@ (r2 :> b)}

ExplorerPrograms ==
    {X!parse_browser_artifacts, X!parse_registry, X!parse_crypto_wallets, X!parse_evtx, X!parse_prefetch,
     X!parse_windows_activity, X!parse_srum, X!parse_powershell_history, X!parse_firewall_log,
     X!parse_macos_launchd, X!parse_winsearch, X!parse_webcache, X!parse_bits, X!parse_rdp_bitmap_cache,
     X!parse_sticky_notes, X!parse_recyclebin, X!parse_linux_artifacts, X!parse_mobile_artifacts,
     X!parse_email, X!parse_whatsapp, X!parse_jumplists, X!parse_thumbcache, X!parse_lnk,
     X!parse_android_backup, X!extract_android_backup, X!analyze_mft, X!parse_usnjrnl,
     X!run_sqlite_dissect_route, X!run_apk_analyze, X!run_whatsapp_decrypt, X!run_ipa_analyze,
     X!run_bugreport_parse, X!run_strings, X!run_video_contact_sheet, X!run_ocr, X!quick_triage_scan,
     X!run_mvt_scan, X!export_leapp_geolocation, X!mobile_mvt_scan, X!mobile_whatsapp_decrypt_parse, X!mobile_android_backup_extract,
     X!mobile_android_backup_parse, X!mobile_bugreport_parse}

ImagePrograms ==
    {I!image_parse_browser_artifacts, I!image_parse_registry, I!image_parse_android_artifacts,
     I!image_parse_crypto_wallets, I!image_parse_mobile_artifacts, I!image_parse_evtx,
     I!image_parse_prefetch, I!image_parse_jumplists, I!image_parse_sticky_notes,
     I!image_parse_windows_activity, I!image_parse_srum, I!image_parse_winsearch, I!image_parse_webcache,
     I!image_parse_bits, I!image_parse_rdp_bitmap_cache, I!image_parse_powershell_history,
     I!image_parse_firewall_log, I!image_parse_macos_launchd, I!image_parse_recyclebin,
     I!image_parse_email, I!image_parse_linux_artifacts, I!image_parse_thumbcache, I!image_analyze_mft,
     I!image_parse_usnjrnl, I!image_extract, I!image_parse_lnk, I!image_parse_android_backup, I!image_binwalk,
     I!image_strings, I!image_ocr, I!image_yara_scan, I!image_exif, I!image_fuzzy_hash,
     I!image_check_hash_lists, I!image_video_contact_sheet, I!image_hash_manifest, I!image_yara_sweep,
     I!image_recover_deleted, I!auto_registry, I!auto_evtx, I!auto_prefetch, I!auto_srum,
     I!auto_winsearch, I!auto_webcache, I!auto_bits, I!auto_rdp_bitmap_cache,
     I!auto_powershell_history, I!auto_firewall_log, I!auto_jumplists, I!auto_recyclebin,
     I!auto_browser_artifacts, I!auto_linux_artifacts, I!auto_android_artifacts, I!auto_hash_manifest,
     I!auto_yara_sweep, I!auto_recover_deleted, I!auto_keyword_scan}

(* The same scan twice, of one image and of two; two scans that meet.      *)
Meetings ==
    Pair(On("image1", I!image_parse_lnk), On("image1", I!image_parse_lnk))
    \cup Pair(On("image1", I!image_parse_lnk), On("image2", I!image_parse_lnk))
    \cup Pair(On("image1", I!image_analyze_mft), On("image1", I!image_analyze_mft))
    \cup Pair(On("disk", X!analyze_mft), On("image1", I!image_analyze_mft))
    \cup Pair(On("disk", X!parse_lnk), On("disk", X!parse_lnk))
    \cup Pair(On("image1", I!image_extract), On("image1", I!image_extract))
    \cup Pair(On("disk", X!parse_jumplists), On("disk", X!parse_jumplists))

Everything == Alone("disk", ExplorerPrograms) \cup Alone("image1", ImagePrograms) \cup Meetings

ASSUME RoutesLaidOut ==
    \A f \in Everything, r \in Requests :
        IsRoute(f[r].steps) /\ TakesCopiesBack(f[r].steps) /\ AsksFirst(f[r].steps)
        /\ IndexesAll(f[r].steps)

(* Casts that show what the code does not promise.                         *)
ClosedJumplists == Alone("disk", {X!parse_jumplists})
TwoTables       == Pair(On("image1", I!image_analyze_mft), On("image1", I!image_analyze_mft))
TableAlone      == Alone("image1", {I!image_analyze_mft})
AutoSweep       == Alone("image1", {I!auto_yara_sweep})
TwoExtractions  == Pair(On("disk", X!extract_android_backup), On("disk", X!extract_android_backup))

=============================================================================
