----------------------------- MODULE MCSettings -----------------------------
(* The requests that share something, up to three at a time.               *)
EXTENDS Settings, TLC

CONSTANTS r1, r2, r3, ann, bob

Symmetry == Permutations(Requests)

About(kinds) == {f \in [Requests -> kinds] : TRUE}

AccountWork == AccountKinds \cup {"login", "restore"}
ListWork    == {"add_list", "import_list", "change_list", "refresh_urls", "choose_template", "backup", "restore"}
SecretWork  == {"add_share", "drop_share", "feed_key", "kiosk", "refresh_hashes", "backup", "restore"}
BrandWork   == {"logo", "clear_logo", "backup"}

Everything == UNION {About(AccountWork), About(ListWork), About(SecretWork), About(BrandWork)}

(* Another station's settings: its own Admin, a list, a share and the key  *)
(* its password is kept under.                                             *)
OtherSettings ==
    [Staffed(bob) EXCEPT !.lists = Hashes \ {Bazaar}, !.share = "elsewhere"]
OtherStation ==
    {[config |-> OtherSettings, key |-> "elsewhere", logo |-> "none", data |-> Hashes \ {Bazaar}]}

(* A backup with a logo: restored beside a logo of another type it leaves  *)
(* both files, and the next backup takes either. *)
Emblem == CHOOSE e \in Extensions : TRUE
OtherStationWithLogo ==
    {[config |-> [Staffed(bob) EXCEPT !.logo = Emblem], key |-> "none", logo |-> Emblem,
      data |-> {}]}

(* What is not promised while they overlap, or when they are cut short.    *)
Overlaps ==
    {{"backup", k} : k \in {"restore", "change_list", "logo", "clear_logo"}}
    \cup {{k, "change_list"} : k \in {"refresh_hashes", "refresh_urls"}}
    \cup {{"login", k} : k \in {"create_user", "reset_password", "change_password", "restore"}}
InOneGo == {"restore", "logo", "clear_logo"}

(* Casts that show it, with neither restriction. *)
Between(a, b, c) == {(r1 :> a) @@ (r2 :> b) @@ (r3 :> c)}
FeedDeleted    == Between("refresh_urls", "refresh_urls", "change_list")
LoginMeetsNew  == Between("login", "reset_password", "idle")
BackupMeets    == Between("backup", "restore", "idle")
RestoreCut     == Between("restore", "idle", "idle")
LogoUnsaved    == Between("logo", "logo", "idle")
LogoRestored   == Between("logo", "restore", "backup")
KioskRestored  == Between("kiosk", "backup", "restore")
=============================================================================
