------------------------------ MODULE Settings ------------------------------
(***************************************************************************)
(* The station's settings: runtime_config.json with the accounts, groups,  *)
(* lists, templates, shares and branding in it, the files it refers to     *)
(* (list contents, the report logo, the key of the saved secrets), and the *)
(* requests that change them.  Such a request is let in, takes             *)
(* config_write_lock, loads the settings, writes the files that come       *)
(* first, saves the settings in one rename, and writes or removes the rest *)
(* before it answers; a failed save or a restart cuts it short.  A backup  *)
(* and a login take no lock.                                               *)
(*                                                                         *)
(* A password is named by the request that set it: its hash is salted and  *)
(* no two are alike.  Of a list only its record and its file are kept, of  *)
(* a secret the key it was encrypted with.                                 *)
(***************************************************************************)
EXTENDS Naturals, FiniteSets

CONSTANTS
    Requests,      \* the web requests
    Choices,       \* what they ask for: functions from Requests to kinds
    Names,         \* user names
    Installer,     \* the shared login a station has until its first account
    Kiosk,         \* the touchscreen, which needs no login
    Browsers,      \* the browsers people log in with
    Custom,        \* ids of groups of the station's own
    Hashes, Urls,  \* ids of hash and URL lists, whose contents are files
    Bazaar, Haus,  \* the hash list and the URL list that are downloaded
    Words, Rules,  \* ids of keyword lists and YARA rule sets
    Templates,     \* ids of report templates of the station's own
    Extensions,    \* the types of file a logo comes in
    None,          \* no account, nobody
    Foreign,       \* backups brought from other stations
    MaxLists,      \* HASH_LIST_MAX_LISTS and its like
    Chunks,        \* keyword lists one bundled list needs
    MaxFailures,   \* MAX_AUTH_FAILURES
    Apart,         \* pairs of kinds that are not under way together here
    Uncut,         \* kinds that no failure cuts short here
    MaxRestarts    \* restarts of the service

ASSUME SettingsAssumption ==
    /\ Names # {} /\ Installer \notin Names /\ Kiosk \notin Names \cup Browsers
    /\ None \notin Requests \cup Names
    /\ Bazaar \in Hashes /\ Haus \in Urls
    /\ Hashes \cap Urls = {} /\ Words \cap Rules = {}
    /\ (Hashes \cup Urls) \cap (Words \cup Rules \cup Templates) = {}
    /\ Templates \cap (Words \cup Rules) = {}
    /\ MaxLists \in Nat /\ Chunks \in Nat \ {0} /\ MaxFailures \in Nat \ {0}
    /\ MaxRestarts \in Nat
    /\ Custom \cap {"admin", "analyst"} = {}

VARIABLES
    disk,       \* runtime_config.json
    key,        \* the key file .mount_key
    files,      \* the list files there are
    logos,      \* the report_logo files there are, by extension
    marker,     \* the .kiosk_disabled marker exists
    backups,    \* the backup files people keep
    session,    \* what each browser's cookie says
    fails,      \* auth_fail_tracker: failed logins in the current window
    holder,     \* who holds config_write_lock
    kind, pc,   \* what each request is for, and its next step
    from, who,  \* the browser it came from and g.forensic_user
    base,       \* the settings it loaded
    draft,      \* the settings it is about to save
    pack,       \* the backup it is putting together or restoring
    restarts

stores == <<disk, key, files, logos, marker>>
requestVars == <<kind, pc, from, who, base, draft, pack>>
vars == <<stores, backups, session, fails, holder, requestVars, restarts>>

Passwords == Requests \cup {"first", "none"}
Keys == {"none", "here", "elsewhere"}
Filed == Hashes \cup Urls
Lists == Filed \cup Words \cup Rules \cup Templates
Accounts == [group : Custom \cup {"admin", "analyst"}, pw : Passwords]
Sessions == [name : Names \cup {Installer, None}, opened : Passwords, stamp : Passwords]
NoSession == [name |-> None, opened |-> "none", stamp |-> "none"]

Config ==
    [users : [Names -> Accounts \cup {None}], installer : Passwords,
     groups : SUBSET Custom, managers : SUBSET (Custom \cup {"analyst"}),
     lists : SUBSET Lists, template : Templates \cup {"standard"},
     share : Keys, feed : Keys, logo : Extensions \cup {"none"}, kiosk : BOOLEAN]

Backup == [config : Config, key : Keys, logo : Extensions \cup {"none"}, data : SUBSET Filed]

NewStation ==
    [users |-> [n \in Names |-> None], installer |-> "first", groups |-> {}, managers |-> {},
     lists |-> {}, template |-> "standard", share |-> "none", feed |-> "none",
     logo |-> "none", kiosk |-> TRUE]

NoBackup == [config |-> NewStation, key |-> "none", logo |-> "none", data |-> {}]

(* No account is none, and other stations' backups are backups. *)
ASSUME BackupAssumption == None \notin Accounts /\ Foreign \subseteq Backup

Staffed(n) == [NewStation EXCEPT !.installer = "none", !.users[n] = [group |-> "admin", pw |-> "first"]]

Steps == {"new", "asked", "fetched", "saving", "filing", "key", "logo", "data",
          "stamping", "done"}

TypeOK ==
    /\ disk \in Config /\ key \in Keys
    /\ files \subseteq Filed /\ logos \subseteq Extensions /\ marker \in BOOLEAN
    /\ backups \subseteq Backup
    /\ session \in [Browsers -> Sessions]
    /\ fails \in Nat
    /\ holder \in Requests \cup {None}
    /\ kind \in Choices
    /\ pc \in [Requests -> Steps]
    /\ from \in [Requests -> Browsers \cup {Kiosk}]
    /\ who \in [Requests -> Names \cup {Installer, Kiosk, None}]
    /\ base \in [Requests -> Config] /\ draft \in [Requests -> Config]
    /\ pack \in [Requests -> Backup]
    /\ restarts \in 0 .. MaxRestarts

Init ==
    /\ \E n \in Names, b \in Browsers :
          \/ /\ disk = NewStation
             /\ session = [c \in Browsers |-> NoSession]
          \/ /\ disk = Staffed(n)
             /\ session = [[c \in Browsers |-> NoSession] EXCEPT
                              ![b] = [name |-> n, opened |-> "first", stamp |-> "first"]]
    /\ key = "none" /\ files = {} /\ logos = {} /\ marker = FALSE
    /\ backups = Foreign
    /\ fails = 0 /\ holder = None
    /\ kind \in Choices
    /\ pc = [r \in Requests |-> "new"]
    /\ from = [r \in Requests |-> Kiosk]
    /\ who = [r \in Requests |-> None]
    /\ base = [r \in Requests |-> NewStation] /\ draft = [r \in Requests |-> NewStation]
    /\ pack = [r \in Requests |-> NoBackup]
    /\ restarts = 0

-----------------------------------------------------------------------------
(* Accounts, permissions and sessions.                                     *)

UsersOf(c) == {n \in Names : c.users[n] # None}
Admins(c) == {n \in UsersOf(c) : c.users[n].group = "admin"}
GroupsOf(c) == c.groups \cup {"admin", "analyst"}

(* What a session's stamp is compared with: the hash of the account, of    *)
(* the shared login while there are no accounts, or nothing.               *)
Fingerprint(c, n) ==
    IF UsersOf(c) # {}
    THEN IF n \in UsersOf(c) THEN c.users[n].pw ELSE "none"
    ELSE IF n = Installer THEN c.installer ELSE "none"

\* Mutant: a session lasts as long as its account does.
Valid_WhileNamed(s) == s.name \in UsersOf(disk) \/ (UsersOf(disk) = {} /\ s.name = Installer)

Valid(s) == Fingerprint(disk, s.name) # "none" /\ s.stamp = Fingerprint(disk, s.name)

IsAdmin(c, n) == n = Kiosk \/ UsersOf(c) = {} \/ n \in Admins(c)

(* The permission to change settings and accounts. *)
May(c, n) == IsAdmin(c, n) \/ (n \in UsersOf(c) /\ c.users[n].group \in c.managers)

-----------------------------------------------------------------------------
(* What each kind of request makes of the settings it loaded: the outcomes *)
(* its arguments can have, none of them when it is refused.                *)

(* The caller confirms with the password the session was opened with. *)
Reauthenticates(c, r) ==
    who[r] = Kiosk \/ (who[r] \in UsersOf(c) /\ session[from[r]].opened = c.users[who[r]].pw)

CreateUser(c, r) ==
    {[c EXCEPT !.users[x[1]] = [group |-> x[2], pw |-> r],
               !.installer = IF UsersOf(c) = {} THEN "none" ELSE @] :
        x \in {y \in (Names \ UsersOf(c)) \X GroupsOf(c) :
                 /\ y[2] = "admin" => IsAdmin(c, who[r])
                 /\ UsersOf(c) = {} => y[2] = "admin"}}

\* Mutant: whoever is signed in is taken for the Admin who remains.
DeleteUser_NotMyself(c, r) ==
    {[c EXCEPT !.users[n] = None] :
        n \in {m \in UsersOf(c) : Reauthenticates(c, r) /\ m # who[r]
                 /\ (m \in Admins(c) => IsAdmin(c, who[r]))}}

DeleteUser(c, r) ==
    {[c EXCEPT !.users[n] = None] :
        n \in {m \in UsersOf(c) :
                 /\ Reauthenticates(c, r)
                 /\ m \in Admins(c) => IsAdmin(c, who[r]) /\ Cardinality(Admins(c)) > 1}}

ResetPassword(c, r) ==
    {[c EXCEPT !.users[n].pw = r] :
        n \in {m \in UsersOf(c) : m \in Admins(c) => IsAdmin(c, who[r])}}

ChangePassword(c, r) ==
    IF UsersOf(c) = {} THEN {[c EXCEPT !.installer = r]}
    ELSE {[c EXCEPT !.users[n].pw = r] :
            n \in {m \in UsersOf(c) : m = who[r] /\ Reauthenticates(c, r)}}

AddGroup(c, r) ==
    {[c EXCEPT !.groups = @ \cup {x[1]},
               !.managers = IF x[2] THEN @ \cup {x[1]} ELSE @ \ {x[1]}] :
        x \in {y \in (Custom \ c.groups) \X BOOLEAN : y[2] => May(c, who[r])}}

EditGroup(c, r) ==
    {[c EXCEPT !.managers = IF may THEN @ \cup {g} ELSE @ \ {g}] :
        g \in c.groups \cup {"analyst"}, may \in {m \in BOOLEAN : m => May(c, who[r])}}

\* Mutant: the members of a deleted group are left in it.
DeleteGroup_Strands(c, r) == {[c EXCEPT !.groups = @ \ {g}, !.managers = @ \ {g}] : g \in c.groups}

(* Its members become analysts. *)
DeleteGroup(c, r) ==
    {[c EXCEPT !.groups = @ \ {g}, !.managers = @ \ {g},
               !.users = [n \in Names |-> IF n \in UsersOf(c) /\ @[n].group = g
                                          THEN [@[n] EXCEPT !.group = "analyst"] ELSE @[n]]] :
        g \in c.groups}

\* Each sort of list has a limit of its own; templates have none.
HasRoom(c, sort, n) == sort = Templates \/ Cardinality(c.lists \cap sort) + n <= MaxLists

\* A new list of the sort, under an id that is not in use.
Added(c, sort) ==
    {[c EXCEPT !.lists = @ \cup {l}] :
        l \in {m \in sort \ (c.lists \cup {Bazaar, Haus}) : HasRoom(c, sort, 1)}}

\* A list of the sort rewritten, which leaves its id, or deleted.
Rewritten(c, sort) == {d \in {c} : c.lists \cap sort # {}}
Deleted(c, sort) == {[c EXCEPT !.lists = @ \ {l}] : l \in c.lists \cap sort}

keyword_lists(c) == Added(c, Words)
hash_lists(c) == Added(c, Hashes)
url_lists(c) == Added(c, Urls)
yara_rules(c) == Added(c, Rules)
report_templates_custom(c) == Added(c, Templates)

keyword_list_detail(c) == Rewritten(c, Words) \cup Deleted(c, Words)
hash_list_detail(c) == Rewritten(c, Hashes) \cup Deleted(c, Hashes)
url_list_detail(c) == Rewritten(c, Urls) \cup Deleted(c, Urls)
yara_rule_detail(c) == Rewritten(c, Rules) \cup Deleted(c, Rules)

(* A deleted template is no longer the default. *)
report_templates_custom_detail(c) ==
    Rewritten(c, Templates)
    \cup {[d EXCEPT !.template = IF @ \in d.lists THEN @ ELSE "standard"] : d \in Deleted(c, Templates)}

AddList(c, r) ==
    {d \in keyword_lists(c) \cup hash_lists(c) \cup url_lists(c) \cup yara_rules(c)
           \cup report_templates_custom(c) : May(c, who[r])}

ChangeList(c, r) ==
    keyword_list_detail(c) \cup hash_list_detail(c) \cup url_list_detail(c) \cup yara_rule_detail(c)
    \cup report_templates_custom_detail(c)

(* A bundled list too long for one comes in several, or not at all. *)
ImportBundled(c, r) ==
    {[c EXCEPT !.lists = @ \cup new] :
        new \in {s \in SUBSET (Words \ c.lists) :
                    Cardinality(s) = Chunks /\ HasRoom(c, Words, Chunks)}}

refresh_malwarebazaar_hash_list(c, r) ==
    {d \in {[c EXCEPT !.lists = @ \cup {Bazaar}]} : Bazaar \in c.lists \/ HasRoom(c, Hashes, 1)}

refresh_urlhaus_url_list(c, r) ==
    {d \in {[c EXCEPT !.lists = @ \cup {Haus}]} : Haus \in c.lists \/ HasRoom(c, Urls, 1)}

ChooseTemplate(c, r) == {[c EXCEPT !.template = t] : t \in {"standard"} \cup (c.lists \cap Templates)}

\* The key a secret is encrypted with; the first secret makes it.
KeyInUse == IF key = "none" THEN "here" ELSE key

AddShare(c, r) == {[c EXCEPT !.share = KeyInUse]}
DropShare(c, r) == {[c EXCEPT !.share = "none"] : x \in {c.share} \ {"none"}}
SetFeedKey(c, r) == {[c EXCEPT !.feed = k] : k \in {KeyInUse, "none"}}
SetKiosk(c, r) == {[c EXCEPT !.kiosk = k] : k \in BOOLEAN}
UploadLogo(c, r) == {[c EXCEPT !.logo = e] : e \in Extensions}
ClearLogo(c, r) == {[c EXCEPT !.logo = "none"]}
Restored(c, r) == {m.config : m \in {b \in backups : IsAdmin(c, who[r])}}

Edits(c, r) ==
    CASE kind[r] = "create_user" -> CreateUser(c, r)
      [] kind[r] = "delete_user" -> DeleteUser(c, r)
      [] kind[r] = "reset_password" -> ResetPassword(c, r)
      [] kind[r] = "change_password" -> ChangePassword(c, r)
      [] kind[r] = "add_group" -> AddGroup(c, r)
      [] kind[r] = "edit_group" -> EditGroup(c, r)
      [] kind[r] = "delete_group" -> DeleteGroup(c, r)
      [] kind[r] = "add_list" -> AddList(c, r)
      [] kind[r] = "import_list" -> ImportBundled(c, r)
      [] kind[r] = "change_list" -> ChangeList(c, r)
      [] kind[r] = "refresh_hashes" -> refresh_malwarebazaar_hash_list(c, r)
      [] kind[r] = "refresh_urls" -> refresh_urlhaus_url_list(c, r)
      [] kind[r] = "choose_template" -> ChooseTemplate(c, r)
      [] kind[r] = "add_share" -> AddShare(c, r)
      [] kind[r] = "drop_share" -> DropShare(c, r)
      [] kind[r] = "feed_key" -> SetFeedKey(c, r)
      [] kind[r] = "kiosk" -> SetKiosk(c, r)
      [] kind[r] = "logo" -> UploadLogo(c, r)
      [] kind[r] = "clear_logo" -> ClearLogo(c, r)
      [] kind[r] = "restore" -> Restored(c, r)
      [] OTHER -> {}

-----------------------------------------------------------------------------
(* The way of a request.                                                   *)

AccountKinds == {"create_user", "delete_user", "reset_password", "change_password",
                 "add_group", "edit_group", "delete_group"}

(* The kinds whose permission is looked up under the lock, or not at all.  *)
AskedInside == {"add_list", "change_password"}

UnderWay(r) == pc[r] \notin {"new", "done"}

GoesOn(r, step) ==
    /\ pc' = [pc EXCEPT ![r] = step]
    /\ UNCHANGED <<from, who, base, draft, pack>>

(* It answers, or raises, and what it had in memory is gone. *)
Ends(r) ==
    /\ pc' = [pc EXCEPT ![r] = "done"]
    /\ from' = [from EXCEPT ![r] = Kiosk] /\ who' = [who EXCEPT ![r] = None]
    /\ base' = [base EXCEPT ![r] = NewStation] /\ draft' = [draft EXCEPT ![r] = NewStation]
    /\ pack' = [pack EXCEPT ![r] = NoBackup]

Arrives(r) ==
    /\ pc[r] = "new"
    /\ \A q \in Requests : UnderWay(q) => {kind[q], kind[r]} \notin Apart
    /\ pc' = [pc EXCEPT ![r] = "asked"]

(* requires_auth and requires_permission let it in; whom they turn away    *)
(* leaves no trace.                                                        *)
Ask(r) ==
    /\ kind[r] \notin {"idle", "login"}
    /\ Arrives(r)
    /\ \E b \in IF kind[r] \in AccountKinds THEN {c \in Browsers : Valid(session[c])} \cup {Kiosk} ELSE {Kiosk} :
          LET me == IF b = Kiosk THEN Kiosk ELSE session[b].name
          IN /\ kind[r] \in AskedInside \/ May(disk, me)
             /\ from' = [from EXCEPT ![r] = b]
             /\ who' = [who EXCEPT ![r] = me]
    /\ UNCHANGED <<stores, backups, session, fails, holder, kind, base, draft, pack, restarts>>

(* A feed is downloaded and its file written before the lock is asked for; *)
(* or the download fails.  MalwareBazaar wants a key that can be read.      *)
Fetch(r) ==
    /\ kind[r] \in {"refresh_hashes", "refresh_urls"} /\ pc[r] = "asked"
    /\ \/ /\ kind[r] = "refresh_hashes" => disk.feed \in {key} \ {"none"}
          /\ files' = files \cup {IF kind[r] = "refresh_hashes" THEN Bazaar ELSE Haus}
          /\ GoesOn(r, "fetched")
       \/ Ends(r) /\ UNCHANGED files
    /\ UNCHANGED <<disk, key, logos, marker, backups, session, fails, holder, kind, restarts>>

\* Mutant: a new account is made without the lock.
Free_ButForAccounts(r) == holder = None \/ kind[r] = "create_user"

Free(r) == holder = None

(* The files that are written before the settings that refer to them.      *)
Prepare(r, new) ==
    /\ files' \in
         CASE kind[r] = "add_list" -> {files \cup (Filed \cap (new.lists \ disk.lists))}
           [] kind[r] = "change_list" /\ new = disk -> {files \cup s : s \in SUBSET (Filed \cap new.lists)}
           [] OTHER -> {files}
    /\ key' = IF kind[r] \in {"add_share", "feed_key"} THEN KeyInUse ELSE key
    /\ logos' = CASE kind[r] = "logo" -> {new.logo}
                  [] kind[r] = "clear_logo" -> logos \ {disk.logo}
                  [] OTHER -> logos

(* Under the lock: load, refuse or edit, and write what comes first. *)
Take(r) ==
    /\ pc[r] = IF kind[r] \in {"refresh_hashes", "refresh_urls"} THEN "fetched" ELSE "asked"
    /\ kind[r] \notin {"login", "backup"}
    /\ Free(r)
    /\ \/ Ends(r) /\ UNCHANGED <<holder, files, key, logos>>
       \/ \E new \in Edits(disk, r) :
             /\ holder' = r
             /\ base' = [base EXCEPT ![r] = disk]
             /\ draft' = [draft EXCEPT ![r] = new]
             /\ IF kind[r] = "restore"
                THEN \E m \in backups : m.config = new /\ pack' = [pack EXCEPT ![r] = m]
                ELSE UNCHANGED pack
             /\ Prepare(r, new)
             /\ pc' = [pc EXCEPT ![r] = "saving"]
             /\ UNCHANGED <<from, who>>
    /\ UNCHANGED <<disk, marker, backups, session, fails, kind, restarts>>

(* save_runtime_config(): a new file and one rename. *)
Save(r) ==
    /\ pc[r] = "saving"
    /\ disk' = draft[r]
    /\ GoesOn(r, "filing")
    /\ UNCHANGED <<key, files, logos, marker, backups, session, fails, holder, kind, restarts>>

(* RuntimeConfigWriteFailed: the old settings stand. *)
SaveFails(r) ==
    /\ pc[r] = "saving" /\ kind[r] \notin Uncut
    /\ Ends(r)
    /\ holder' = None
    /\ UNCHANGED <<stores, backups, session, fails, kind, restarts>>

(* A user who sets their own password stays signed in where they did it. *)
Restamped(r) ==
    /\ kind[r] \in {"reset_password", "change_password"} /\ from[r] # Kiosk
    /\ Fingerprint(draft[r], who[r]) # Fingerprint(base[r], who[r])

(* What is left to do once the settings are saved. *)
Finish(r) ==
    /\ pc[r] = "filing" /\ kind[r] # "restore"
    /\ files' = IF kind[r] = "change_list" THEN files \ (base[r].lists \ draft[r].lists) ELSE files
    /\ marker' = IF kind[r] = "kiosk" THEN ~draft[r].kiosk ELSE marker
    /\ session' = IF Restamped(r)
                  THEN [session EXCEPT ![from[r]] =
                          [name |-> who[r], opened |-> r, stamp |-> Fingerprint(disk, who[r])]]
                  ELSE session
    /\ holder' = IF holder = r THEN None ELSE holder
    /\ Ends(r)
    /\ UNCHANGED <<disk, key, logos, backups, fails, kind, restarts>>

(* A restore writes the key, the logo and the lists after the settings. *)
RestoreKey(r) ==
    /\ pc[r] = "filing" /\ kind[r] = "restore"
    /\ key' = IF pack[r].key = "none" THEN key ELSE pack[r].key
    /\ GoesOn(r, "logo")
    /\ UNCHANGED <<disk, files, logos, marker, backups, session, fails, holder, kind, restarts>>

RestoreLogo(r) ==
    /\ pc[r] = "logo" /\ kind[r] = "restore"
    /\ logos' = logos \cup ({pack[r].logo} \ {"none"})
    /\ GoesOn(r, "data")
    /\ UNCHANGED <<disk, key, files, marker, backups, session, fails, holder, kind, restarts>>

RestoreLists(r) ==
    /\ pc[r] = "data" /\ kind[r] = "restore"
    /\ files' = files \cup pack[r].data
    /\ holder' = None
    /\ Ends(r)
    /\ UNCHANGED <<disk, key, logos, marker, backups, session, fails, kind, restarts>>

-----------------------------------------------------------------------------
(* A backup: the settings, then the key, the logo and the lists, unlocked. *)

Packs(r, m, next) ==
    /\ pack' = [pack EXCEPT ![r] = m]
    /\ pc' = [pc EXCEPT ![r] = next]
    /\ UNCHANGED <<stores, backups, session, fails, holder, kind, from, who, base, draft, restarts>>

BackupSettings(r) ==
    /\ kind[r] = "backup" /\ pc[r] = "asked"
    /\ Packs(r, [NoBackup EXCEPT !.config = disk], "key")

BackupKey(r) ==
    /\ kind[r] = "backup" /\ pc[r] = "key"
    /\ Packs(r, [pack[r] EXCEPT !.key = key], "logo")

(* The first logo file that is found, whatever the settings call it. *)
BackupLogo(r) ==
    /\ kind[r] = "backup" /\ pc[r] = "logo"
    /\ \E e \in IF logos = {} THEN {"none"} ELSE logos : Packs(r, [pack[r] EXCEPT !.logo = e], "data")

\* Mutant: a downloaded list is left to be downloaded again.
BackupLists_NoFeed(r) ==
    /\ kind[r] = "backup" /\ pc[r] = "data"
    /\ backups' = backups \cup {[pack[r] EXCEPT !.data = (pack[r].config.lists \cap files) \ {Bazaar, Haus}]}
    /\ Ends(r)
    /\ UNCHANGED <<stores, session, fails, holder, kind, restarts>>

(* Every list of the settings whose file can be read. *)
BackupLists(r) ==
    /\ kind[r] = "backup" /\ pc[r] = "data"
    /\ backups' = backups \cup {[pack[r] EXCEPT !.data = pack[r].config.lists \cap files]}
    /\ Ends(r)
    /\ UNCHANGED <<stores, session, fails, holder, kind, restarts>>

-----------------------------------------------------------------------------
(* Sessions.                                                               *)

LockedOut == fails >= MaxFailures

LoginAsk(r) ==
    /\ kind[r] = "login" /\ Arrives(r)
    /\ ~LockedOut
    /\ \E b \in Browsers, n \in Names \cup {Installer} :
          /\ from' = [from EXCEPT ![r] = b]
          /\ who' = [who EXCEPT ![r] = n]
    /\ UNCHANGED <<stores, backups, session, fails, holder, kind, base, draft, pack, restarts>>

(* check_auth() against the settings of the moment (kept in `base'); a     *)
(* right password clears the count of failures.                            *)
LoginCheck(r) ==
    /\ kind[r] = "login" /\ pc[r] = "asked"
    /\ \/ fails' = fails + 1 /\ Ends(r)
       \/ /\ Fingerprint(disk, who[r]) # "none"
          /\ base' = [base EXCEPT ![r] = disk]
          /\ fails' = 0
          /\ pc' = [pc EXCEPT ![r] = "stamping"]
          /\ UNCHANGED <<from, who, draft, pack>>
    /\ UNCHANGED <<stores, backups, session, holder, kind, restarts>>

(* stamp_session_password() reads the settings again. *)
LoginStamp(r) ==
    /\ kind[r] = "login" /\ pc[r] = "stamping"
    /\ session' = [session EXCEPT ![from[r]] =
                     [name |-> who[r], opened |-> Fingerprint(base[r], who[r]),
                      stamp |-> Fingerprint(disk, who[r])]]
    /\ Ends(r)
    /\ UNCHANGED <<stores, backups, fails, holder, kind, restarts>>

(* Logged out, or idle for too long. *)
Logout(b) ==
    /\ session[b] # NoSession
    /\ session' = [session EXCEPT ![b] = NoSession]
    /\ UNCHANGED <<stores, backups, fails, holder, requestVars, restarts>>

WindowEnds ==
    /\ fails > 0 /\ fails' = 0
    /\ UNCHANGED <<stores, backups, session, holder, requestVars, restarts>>

(* The service restarts: what is under way ends there, the counts are gone, *)
(* and the cookies stay good.                                               *)
Restart ==
    /\ restarts < MaxRestarts
    /\ \A r \in Requests : kind[r] \in Uncut => ~UnderWay(r)
    /\ restarts' = restarts + 1
    /\ pc' = [r \in Requests |-> IF UnderWay(r) THEN "done" ELSE pc[r]]
    /\ from' = [r \in Requests |-> Kiosk] /\ who' = [r \in Requests |-> None]
    /\ base' = [r \in Requests |-> NewStation] /\ draft' = [r \in Requests |-> NewStation]
    /\ pack' = [r \in Requests |-> NoBackup]
    /\ holder' = None /\ fails' = 0
    /\ UNCHANGED <<stores, backups, session, kind>>

Next ==
    \/ \E r \in Requests :
          \/ Ask(r) \/ Fetch(r) \/ Take(r) \/ Save(r) \/ SaveFails(r) \/ Finish(r)
          \/ RestoreKey(r) \/ RestoreLogo(r) \/ RestoreLists(r)
          \/ BackupSettings(r) \/ BackupKey(r) \/ BackupLogo(r) \/ BackupLists(r)
          \/ LoginAsk(r) \/ LoginCheck(r) \/ LoginStamp(r)
    \/ \E b \in Browsers : Logout(b)
    \/ WindowEnds \/ Restart

Spec == Init /\ [][Next]_vars

-----------------------------------------------------------------------------
(* A request saves an edit of the settings as they are, never of a copy    *)
(* that somebody else's save has overtaken, so no acknowledged change is   *)
(* undone by another one (serializes_config_writes).                       *)
ChangesStartFromTheLatest == \A r \in Requests : pc[r] = "saving" => base[r] = disk

(* Once a station has accounts, one of them is an Admin: whatever accounts *)
(* are created, deleted, moved or restored, in whatever order.             *)
AnAdminRemains == UsersOf(disk) # {} => Admins(disk) # {}

(* A restore, or a change of the logo, has begun and not ended. *)
Rearranging == \E r \in Requests : holder = r /\ kind[r] \in {"restore", "logo", "clear_logo"}

(* What the settings name is there: every account's group, the default     *)
(* template, the file of every hash or URL list, the logo, and the key the *)
(* saved secrets were encrypted with; after failed saves and restarts too, *)
(* and while any request is under way but a restore or a change of logo.    *)
NothingDangles ==
    Rearranging \/
    /\ \A n \in UsersOf(disk) : disk.users[n].group \in GroupsOf(disk)
    /\ disk.template \in disk.lists \cup {"standard"}
    /\ disk.lists \cap Filed \subseteq files
    /\ disk.logo \in logos \cup {"none"}
    /\ {disk.share, disk.feed} \subseteq {key, "none"}

(* A backup can give back all that its settings name: each list's file,    *)
(* the key of its secrets, the logo (config_backup).                       *)
BackupsAreWhole ==
    \A m \in backups :
        /\ m.config.lists \cap Filed \subseteq m.data
        /\ {m.config.share, m.config.feed} \subseteq {m.key, "none"}
        /\ m.config.logo \in {m.logo, "none"}

(* A session is honoured only while the password it was opened with, or    *)
(* changed to itself, is the password of its account: a change, a reset, a *)
(* deletion or a restore signs every other session out.                    *)
OldPasswordIsOut ==
    \A b \in Browsers :
        Valid(session[b]) => session[b].opened = Fingerprint(disk, session[b].name)

(* The touchscreen is shown as the settings say, when nothing is under way. *)
KioskFollows == (\A r \in Requests : ~UnderWay(r)) => marker = ~disk.kiosk
=============================================================================
