---------------------------- MODULE ImageRoutes -----------------------------
(***************************************************************************)
(* The analysis routes of routes/image_browser.py, on files inside a disk  *)
(* image, and the steps of its Auto Analyze.                               *)
(***************************************************************************)
EXTENDS RouteParts

(* A file that cannot be copied or parsed is passed over.                  *)
InImage(c) == InCopy(c, "read") \o Index(c, "found")

ImageScan(kind) ==
    Program(kind, Do("guard") \o Do("target") \o Each(InImage) \o Do("custody") \o Answers("always"))

image_parse_browser_artifacts  == ImageScan("browser")
image_parse_registry           == ImageScan("registry")
image_parse_android_artifacts  == ImageScan("android")
image_parse_crypto_wallets     == ImageScan("wallets")
image_parse_evtx               == ImageScan("evtx")
image_parse_prefetch           == ImageScan("prefetch")
image_parse_jumplists          == ImageScan("jumplists")
image_parse_sticky_notes       == ImageScan("notes")
image_parse_windows_activity   == ImageScan("activity")
image_parse_srum               == ImageScan("srum")
image_parse_winsearch          == ImageScan("winsearch")
image_parse_webcache           == ImageScan("webcache")
image_parse_bits               == ImageScan("bits")
image_parse_rdp_bitmap_cache   == ImageScan("rdp")
image_parse_powershell_history == ImageScan("powershell")
image_parse_firewall_log       == ImageScan("firewall")
image_parse_macos_launchd      == ImageScan("launchd")
image_parse_recyclebin         == ImageScan("recyclebin")
image_parse_email              == ImageScan("email")
image_parse_linux_artifacts    == ImageScan("linux")

(* A phone's backup: its manifest and the databases named in it are copied *)
(* to a temporary folder, all of which goes when it cannot be made.        *)
BackupEssentials(c) == At("copy", c, "always")
InBackup(c) == BackupEssentials(c) \o At("read", c, "always") \o At("drop", c, "always") \o Index(c, "found")
image_parse_mobile_artifacts ==
    Program("mobile", Do("guard") \o Do("target") \o Each(InBackup) \o Do("custody") \o Answers("always"))

ThumbnailsIn(c) == InCopy(c, "extract") \o Index(c, "found") \o Tag(c, "found")
image_parse_thumbcache ==
    Program("thumbcache", Do("guard") \o Do("target") \o Each(ThumbnailsIn)
                          \o Do("custody") \o Answers("always"))

(* One file copied out for good, under a name that must be free.           *)
image_extract ==
    Program("extracted", Do("target") \o Do("guard") \o Do("fresh") \o Do("create") \o Do("check")
                         \o Do("custody") \o Do("carry") \o Answers("never"))

(* One file of the image, copied, parsed and dropped; a failure is the     *)
(* answer.                                                                 *)
OneFile(op) == Do("target") \o InCopy(1, op) \o Do("check")

(* Here the status is not looked at again before the output is written.    *)
image_analyze_mft ==
    Program("mft", Do("guard") \o OneFile("read") \o Do("write") \o Do("check") \o Index(1, "always")
                   \o Tag(1, "always") \o Do("custody") \o Answers("counted"))

image_parse_usnjrnl ==
    Program("usnjrnl", Do("guard") \o OneFile("read") \o Do("write") \o Do("check") \o Index(1, "always")
                       \o Tag(1, "always") \o Do("custody") \o Answers("counted"))

image_parse_lnk ==
    Program("lnk", Do("guard") \o OneFile("read") \o Index(1, "found") \o Do("custody") \o Answers("counted"))

image_parse_android_backup ==
    Program("backup", Do("guard") \o OneFile("read") \o Index(1, "found") \o Do("custody")
                      \o Answers("counted"))

image_binwalk ==
    Program("binwalk", OneFile("read") \o Do("custody") \o Result(1, "always") \o Answers("never"))
image_strings ==
    Program("strings", OneFile("read") \o Result(1, "always") \o Do("custody") \o Answers("never"))
image_ocr ==
    Program("ocr", OneFile("read") \o Result(1, "always") \o Do("custody") \o Answers("never"))
image_yara_scan ==
    Program("yara", OneFile("read") \o Do("custody") \o Result(1, "always") \o Answers("never"))
image_exif == Program("exif", OneFile("read") \o Do("custody") \o Answers("never"))
image_fuzzy_hash == Program("fuzzy", OneFile("read") \o At("custody", 1, "found") \o Answers("never"))

(* Hashed as it is read, without a copy.                                   *)
image_check_hash_lists ==
    Program("hashes", Do("target") \o Do("read") \o Do("check") \o Do("custody") \o Answers("never"))

image_video_contact_sheet ==
    Program("sheet", Do("guard") \o OneFile("extract") \o Result(1, "always")
                     \o Do("custody") \o Answers("never"))

ManifestBody == Do("target") \o Do("write") \o Do("check") \o Tag(1, "always")
image_hash_manifest ==
    Program("manifest", Do("guard") \o ManifestBody \o Do("custody") \o Answers("never"))

(* Each file that matches gets a row of its own before its copy is removed;*)
(* on a worker's thread the row's examiner cannot be told and it is lost.  *)
RowOfMatch(c) == Result(c, "found")
RowLost(c) == At("look", c, "found") \o At("lose", c, "found")
SweptFile(c, onWorker) ==
    At("copy", c, "always") \o At("read", c, "always")
    \o (IF onWorker THEN RowLost(c) ELSE RowOfMatch(c)) \o At("drop", c, "always")
Swept(onWorker) ==
    Do("target") \o SweptFile(1, onWorker) \o SweptFile(2, onWorker)
    \o Do("write") \o Do("check") \o Tag(1, "always")
image_yara_sweep ==
    Program("sweep", Do("guard") \o Swept(FALSE) \o Do("custody") \o Answers("never"))

(* What a file does not give back is passed over; nothing is written over. *)
Recovered(c) == At("recover", c, "always")
RecoverBody == Do("target") \o Each(Recovered)
image_recover_deleted ==
    Program("recovered", Do("guard") \o RecoverBody \o Do("custody") \o Answers("never"))

----------------------------------------------------------------------------
(* Auto Analyze of an image: one step each, behind the guard of its        *)
(* starting route.                                                         *)
AutoStep(kind, steps) == Program(kind, Do("guard") \o steps \o Do("custody") \o Answers("never"))
AutoScan(kind) == AutoStep(kind, Do("target") \o Each(InImage))

auto_registry           == AutoScan("registry")
auto_evtx               == AutoScan("evtx")
auto_prefetch           == AutoScan("prefetch")
auto_srum               == AutoScan("srum")
auto_winsearch          == AutoScan("winsearch")
auto_webcache           == AutoScan("webcache")
auto_bits               == AutoScan("bits")
auto_rdp_bitmap_cache   == AutoScan("rdp")
auto_powershell_history == AutoScan("powershell")
auto_firewall_log       == AutoScan("firewall")
auto_jumplists          == AutoScan("jumplists")
auto_recyclebin         == AutoScan("recyclebin")
auto_browser_artifacts  == AutoScan("browser")
auto_linux_artifacts    == AutoScan("linux")
auto_android_artifacts  == AutoScan("android")
auto_hash_manifest      == AutoStep("manifest", ManifestBody)
auto_yara_sweep         == AutoStep("sweep", Swept(TRUE))
auto_recover_deleted    == AutoStep("recovered", RecoverBody)

(* The image's earlier hits go first, in a commit of their own.            *)
Scanned(c) == At("read", c, "always") \o At("hits", c, "found")
auto_keyword_scan ==
    AutoStep("keywords", Do("target") \o Do("wipe") \o Each(Scanned) \o Do("write") \o Do("check")
                         \o Tag(1, "always"))

=============================================================================
