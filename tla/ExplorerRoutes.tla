--------------------------- MODULE ExplorerRoutes ---------------------------
(***************************************************************************)
(* The analysis routes of routes/file_explorer.py, on files of the         *)
(* evidence store, and the steps of its mobile Auto Analyze.               *)
(***************************************************************************)
EXTENDS RouteParts

OnDisk(c) == At("parse", c, "always") \o Index(c, "found")

(* Guard, directory, candidates, one custody entry, "indexed" whenever a   *)
(* case was named.                                                         *)
DirectoryParse(kind) ==
    Program(kind, Do("guard") \o Do("target") \o Each(OnDisk) \o Do("custody") \o Answers("always"))

parse_browser_artifacts  == DirectoryParse("browser")
parse_registry           == DirectoryParse("registry")
parse_crypto_wallets     == DirectoryParse("wallets")
parse_evtx               == DirectoryParse("evtx")
parse_prefetch           == DirectoryParse("prefetch")
parse_windows_activity   == DirectoryParse("activity")
parse_srum               == DirectoryParse("srum")
parse_powershell_history == DirectoryParse("powershell")
parse_firewall_log       == DirectoryParse("firewall")
parse_macos_launchd      == DirectoryParse("launchd")
parse_winsearch          == DirectoryParse("winsearch")
parse_webcache           == DirectoryParse("webcache")
parse_bits               == DirectoryParse("bits")
parse_rdp_bitmap_cache   == DirectoryParse("rdp")
parse_sticky_notes       == DirectoryParse("notes")
parse_recyclebin         == DirectoryParse("recyclebin")
parse_linux_artifacts    == DirectoryParse("linux")
parse_mobile_artifacts   == DirectoryParse("mobile")
parse_email              == DirectoryParse("email")
parse_whatsapp           == DirectoryParse("whatsapp")

(* The one directory route without the guard.                              *)
parse_jumplists ==
    Program("jumplists", Do("target") \o Each(OnDisk) \o Do("custody") \o Answers("always"))

Thumbnails(c) == At("extract", c, "always") \o Index(c, "found") \o Tag(c, "found")
parse_thumbcache ==
    Program("thumbcache", Do("target") \o Do("guard") \o Each(Thumbnails)
                          \o Do("custody") \o Answers("always"))

parse_lnk ==
    Program("lnk", Do("target") \o Do("parse") \o Index(1, "found") \o Do("custody") \o Answers("found"))

parse_android_backup ==
    Program("backup", Do("guard") \o Do("target") \o Do("read") \o Do("check") \o Index(1, "found")
                      \o Do("custody") \o Answers("found"))

extract_android_backup ==
    Program("unpacked", Do("target") \o Do("guard") \o Do("fresh") \o Do("extract") \o Do("check")
                        \o Tag(1, "always") \o Do("custody") \o Answers("never"))

(* The status is looked at before the analysis, which may take minutes,    *)
(* and again before its output is written.                                 *)
analyze_mft ==
    Program("mft", Do("target") \o Do("guard") \o Do("read") \o Do("check") \o Do("target")
                   \o Do("guard") \o Do("write") \o Do("check") \o Index(1, "always")
                   \o Tag(1, "always") \o Do("custody") \o Answers("always"))

parse_usnjrnl ==
    Program("usnjrnl", Do("target") \o Do("guard") \o Do("parse") \o Do("target") \o Do("guard")
                       \o Do("write") \o Do("check") \o Index(1, "always")
                       \o Tag(1, "always") \o Do("custody") \o Answers("always"))

run_sqlite_dissect_route ==
    Program("dissect", Do("target") \o Do("guard") \o Do("extract") \o Do("check") \o Result(1, "always")
                       \o Tag(1, "always") \o Do("custody") \o Answers("never"))

(* An output that cannot be written is left out, without an error.         *)
run_apk_analyze ==
    Program("apk", Do("target") \o Do("guard") \o Do("read") \o Do("check") \o Do("guard") \o Do("write")
                   \o Tag(1, "went") \o Result(1, "always") \o Do("custody") \o Answers("never"))

run_whatsapp_decrypt ==
    Program("decrypted", Do("target") \o Do("guard") \o Do("extract") \o Do("check")
                         \o Result(1, "always") \o Do("custody") \o Answers("never"))

run_ipa_analyze ==
    Program("ipa", Do("guard") \o Do("target") \o Do("read") \o Do("check") \o Result(1, "always")
                   \o Do("custody") \o Answers("never"))

(* A dump that cannot be parsed, or written out, is recorded as FAILED.    *)
BugreportBody ==
    Do("read") \o Result(1, "raised") \o Do("check") \o Do("write") \o Result(1, "raised") \o Do("check")
    \o Tag(1, "always") \o Result(1, "always") \o Index(1, "found")

run_bugreport_parse ==
    Program("bugreport", Do("guard") \o Do("target") \o BugreportBody \o Do("custody") \o Answers("never"))

run_strings ==
    Program("strings", Do("target") \o Do("read") \o Do("check") \o Result(1, "always") \o Answers("never"))

run_video_contact_sheet ==
    Program("sheet", Do("target") \o Do("guard") \o Do("extract") \o Do("check") \o Result(1, "always")
                     \o Tag(1, "always") \o Do("custody") \o Answers("never"))

run_ocr ==
    Program("ocr", Do("target") \o Do("read") \o Do("check") \o Result(1, "always")
                   \o Do("custody") \o Answers("never"))

(* The rows of an earlier quick scan of the file stay.                     *)
quick_triage_scan ==
    Program("triage", Do("guard") \o Do("target") \o Do("read") \o Do("check") \o At("hits", 1, "found")
                      \o Do("custody") \o Answers("never"))

(* The locations that an earlier LEAPP run left in the index, as a map; no *)
(* locations, no map.                                                      *)
export_leapp_geolocation ==
    Program("leappmap", Do("guard") \o Do("target") \o Do("read") \o Do("check") \o At("write", 1, "found")
                        \o Do("check") \o Tag(1, "found") \o Do("custody") \o Answers("never"))

run_mvt_scan ==
    Program("mvt", Do("guard") \o Do("target") \o Do("extract") \o Do("check")
                   \o Do("custody") \o Answers("never"))

----------------------------------------------------------------------------
(* Auto Analyze of a phone's data: the guard is the starting route's, the  *)
(* steps run on its worker's thread.                                       *)
MobileStep(kind, steps) == Program(kind, Do("guard") \o steps \o Answers("never"))

mobile_mvt_scan ==
    MobileStep("mvt", Do("target") \o Do("extract") \o Do("check") \o Result(1, "always") \o Do("custody"))

mobile_whatsapp_decrypt_parse ==
    MobileStep("decrypted", Do("target") \o Do("fresh") \o Do("extract") \o Do("check") \o Result(1, "always")
                            \o Do("custody") \o Do("parse") \o Index(1, "found"))

mobile_android_backup_extract ==
    MobileStep("unpacked", Do("target") \o Do("fresh") \o Do("extract") \o Do("check")
                           \o Tag(1, "always") \o Do("custody"))

mobile_android_backup_parse ==
    MobileStep("backup", Do("target") \o Do("read") \o Do("check") \o Index(1, "found") \o Do("custody"))

mobile_bugreport_parse == MobileStep("bugreport", Do("target") \o BugreportBody \o Do("custody"))

=============================================================================
