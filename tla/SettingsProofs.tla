--------------------------- MODULE SettingsProofs ---------------------------
(***************************************************************************)
(* Theorems about Settings, for every set of requests of every kind, of    *)
(* accounts, groups, lists and browsers.                                   *)
(***************************************************************************)
EXTENDS Settings, FiniteSetTheorems, TLAPS

(* What the edits of the settings leave well formed.                       *)

LEMMA FingerprintType ==
  ASSUME NEW c \in Config, NEW n PROVE Fingerprint(c, n) \in Passwords
  BY DEF Config, Fingerprint, Accounts, UsersOf, Passwords

LEMMA NewStationType == NewStation \in Config /\ NoBackup \in Backup
  <1>1. NewStation \in Config
    BY DEF NewStation, Config, Passwords, Keys
  <1>2. QED BY <1>1 DEF NoBackup, Backup, Keys

LEMMA StaffedType == ASSUME NEW n \in Names PROVE Staffed(n) \in Config
  BY NewStationType DEF Staffed, Config, NewStation, Accounts, Passwords

(* An account with another password or group is an account, the settings   *)
(* with other accounts are settings.                                       *)
LEMMA WithAccounts ==
  ASSUME NEW c \in Config, NEW u \in [Names -> Accounts \cup {None}]
  PROVE  [c EXCEPT !.users = u] \in Config
  BY DEF Config

LEMMA WithAccount ==
  ASSUME NEW u \in [Names -> Accounts \cup {None}], NEW n \in Names,
         NEW a \in Accounts \cup {None}
  PROVE  [u EXCEPT ![n] = a] \in [Names -> Accounts \cup {None}]
  OBVIOUS

LEMMA AccountType ==
  ASSUME NEW c \in Config, NEW n \in UsersOf(c)
  PROVE  /\ c.users \in [Names -> Accounts \cup {None}]
         /\ c.users[n] \in Accounts
         /\ \A p \in Passwords : [c.users[n] EXCEPT !.pw = p] \in Accounts
         /\ [c.users[n] EXCEPT !.group = "analyst"] \in Accounts
  <1>1. c.users \in [Names -> Accounts \cup {None}] /\ c.users[n] \in Accounts
    BY DEF Config, UsersOf
  <1>2. QED BY <1>1 DEF Accounts

(* The account edits. *)
LEMMA AccountEdits ==
  ASSUME NEW c \in Config, NEW r \in Requests
  PROVE  /\ CreateUser(c, r) \subseteq Config
         /\ DeleteUser(c, r) \subseteq Config
         /\ ResetPassword(c, r) \subseteq Config
         /\ ChangePassword(c, r) \subseteq Config
         /\ AddGroup(c, r) \subseteq Config
         /\ EditGroup(c, r) \subseteq Config
         /\ DeleteGroup(c, r) \subseteq Config
  <1>0. r \in Passwords /\ c.users \in [Names -> Accounts \cup {None}]
    BY DEF Passwords, Config
  <1>1. ASSUME NEW n \in Names, NEW g \in GroupsOf(c), NEW p \in Passwords
        PROVE  /\ [c EXCEPT !.users[n] = [group |-> g, pw |-> r], !.installer = p] \in Config
    BY <1>0 DEF Config, Accounts, GroupsOf
  <1>2. CreateUser(c, r) \subseteq Config
    <2>1. "none" \in Passwords /\ c.installer \in Passwords
      BY DEF Config, Passwords
    <2>2. ASSUME NEW x \in (Names \ UsersOf(c)) \X GroupsOf(c)
          PROVE  [c EXCEPT !.users[x[1]] = [group |-> x[2], pw |-> r],
                           !.installer = IF UsersOf(c) = {} THEN "none" ELSE @] \in Config
      <3>1. x[1] \in Names /\ x[2] \in GroupsOf(c)
        OBVIOUS
      <3>2. (IF UsersOf(c) = {} THEN "none" ELSE c.installer) \in Passwords
        BY <2>1
      <3>3. QED BY <1>1, <3>1, <3>2
    <2>3. ASSUME NEW d \in CreateUser(c, r) PROVE d \in Config
      <3>1. PICK x \in (Names \ UsersOf(c)) \X GroupsOf(c) :
                 d = [c EXCEPT !.users[x[1]] = [group |-> x[2], pw |-> r],
                               !.installer = IF UsersOf(c) = {} THEN "none" ELSE @]
        BY <2>3, Zenon DEF CreateUser
      <3>2. QED BY <2>2, <3>1
    <2>4. QED BY <2>3
  <1>3. DeleteUser(c, r) \subseteq Config
    BY DEF DeleteUser, Config, UsersOf
  <1>4. ASSUME NEW n \in UsersOf(c) PROVE [c EXCEPT !.users[n].pw = r] \in Config
    <2>1. [c.users EXCEPT ![n] = [c.users[n] EXCEPT !.pw = r]] \in [Names -> Accounts \cup {None}]
      BY <1>0, AccountType, WithAccount DEF UsersOf
    <2>2. QED BY <2>1, WithAccounts
  <1>5. ResetPassword(c, r) \subseteq Config
    BY <1>4 DEF ResetPassword
  <1>6. ChangePassword(c, r) \subseteq Config
    <2>1. [c EXCEPT !.installer = r] \in Config
      BY <1>0 DEF Config
    <2>2. QED BY <1>4, <2>1 DEF ChangePassword
  <1>7. AddGroup(c, r) \subseteq Config
    <2>1. ASSUME NEW g \in Custom, NEW may \in BOOLEAN
          PROVE  [c EXCEPT !.groups = @ \cup {g},
                           !.managers = IF may THEN @ \cup {g} ELSE @ \ {g}] \in Config
      BY DEF Config
    <2>2. ASSUME NEW d \in AddGroup(c, r) PROVE d \in Config
      <3>1. PICK x \in (Custom \ c.groups) \X BOOLEAN :
                 d = [c EXCEPT !.groups = @ \cup {x[1]},
                               !.managers = IF x[2] THEN @ \cup {x[1]} ELSE @ \ {x[1]}]
        BY <2>2, Zenon DEF AddGroup
      <3>2. x[1] \in Custom /\ x[2] \in BOOLEAN
        OBVIOUS
      <3>3. QED BY <2>1, <3>1, <3>2
    <2>3. QED BY <2>2
  <1>8. EditGroup(c, r) \subseteq Config
    <2>1. ASSUME NEW g \in Custom \cup {"analyst"}, NEW may \in BOOLEAN
          PROVE  [c EXCEPT !.managers = IF may THEN @ \cup {g} ELSE @ \ {g}] \in Config
      BY DEF Config
    <2>2. c.groups \subseteq Custom
      BY DEF Config
    <2>3. QED BY <2>1, <2>2 DEF EditGroup
  <1>9. DeleteGroup(c, r) \subseteq Config
    <2>1. ASSUME NEW g \in c.groups
          PROVE  [n \in Names |-> IF n \in UsersOf(c) /\ c.users[n].group = g
                                   THEN [c.users[n] EXCEPT !.group = "analyst"] ELSE c.users[n]]
                 \in [Names -> Accounts \cup {None}]
      BY <1>0, AccountType
    <2>2. ASSUME NEW g \in c.groups, NEW u \in [Names -> Accounts \cup {None}]
          PROVE  [c EXCEPT !.groups = @ \ {g}, !.managers = @ \ {g}, !.users = u] \in Config
      BY DEF Config
    <2>3. ASSUME NEW d \in DeleteGroup(c, r) PROVE d \in Config
      <3>1. PICK g \in c.groups :
                 d = [c EXCEPT !.groups = @ \ {g}, !.managers = @ \ {g},
                               !.users = [n \in Names |-> IF n \in UsersOf(c) /\ @[n].group = g
                                          THEN [@[n] EXCEPT !.group = "analyst"] ELSE @[n]]]
        BY <2>3, Zenon DEF DeleteGroup
      <3>2. QED BY <2>1, <2>2, <3>1
    <2>4. QED BY <2>3
  <1>10. QED BY <1>2, <1>3, <1>5, <1>6, <1>7, <1>8, <1>9

(* The other edits leave the accounts alone. *)
SameAccounts(c, d) ==
    d.users = c.users /\ d.installer = c.installer /\ d.groups = c.groups

LEMMA ListEdit ==
  ASSUME NEW c \in Config, NEW l \in SUBSET Lists
  PROVE  /\ [c EXCEPT !.lists = l] \in Config
         /\ SameAccounts(c, [c EXCEPT !.lists = l])
  BY DEF Config, SameAccounts

LEMMA SortsAreLists ==
  /\ Hashes \subseteq Lists /\ Urls \subseteq Lists /\ Words \subseteq Lists
  /\ Rules \subseteq Lists /\ Templates \subseteq Lists
  /\ Bazaar \in Lists /\ Haus \in Lists
  BY SettingsAssumption DEF Lists, Filed

LEMMA SortEdits ==
  ASSUME NEW c \in Config, NEW sort \in SUBSET Lists
  PROVE  \A d \in Added(c, sort) \cup Rewritten(c, sort) \cup Deleted(c, sort) :
             d \in Config /\ SameAccounts(c, d)
  <1>1. c.lists \in SUBSET Lists /\ SameAccounts(c, c)
    BY DEF Config, SameAccounts
  <1>2. ASSUME NEW d \in Added(c, sort) PROVE d \in Config /\ SameAccounts(c, d)
    <2>1. PICK l \in sort : d = [c EXCEPT !.lists = @ \cup {l}]
      BY <1>2, Zenon DEF Added
    <2>2. QED BY <1>1, <2>1, ListEdit
  <1>3. ASSUME NEW d \in Deleted(c, sort) PROVE d \in Config /\ SameAccounts(c, d)
    <2>1. PICK l \in sort : d = [c EXCEPT !.lists = @ \ {l}]
      BY <1>3, Zenon DEF Deleted
    <2>2. QED BY <1>1, <2>1, ListEdit
  <1>4. QED BY <1>1, <1>2, <1>3 DEF Rewritten

LEMMA ListEdits ==
  ASSUME NEW c \in Config, NEW r \in Requests
  PROVE  \A d \in AddList(c, r) \cup ChangeList(c, r) \cup ImportBundled(c, r)
                  \cup refresh_malwarebazaar_hash_list(c, r)
                  \cup refresh_urlhaus_url_list(c, r) \cup ChooseTemplate(c, r) :
             d \in Config /\ SameAccounts(c, d)
  <1>0. c.lists \in SUBSET Lists
    BY DEF Config
  <1>1. ASSUME NEW d \in AddList(c, r) PROVE d \in Config /\ SameAccounts(c, d)
    BY <1>1, SortEdits, SortsAreLists
    DEF AddList, keyword_lists, hash_lists, url_lists, yara_rules, report_templates_custom
  <1>2. ASSUME NEW d \in Config, SameAccounts(c, d), NEW t \in Templates \cup {"standard"}
        PROVE  /\ [d EXCEPT !.template = t] \in Config
               /\ SameAccounts(c, [d EXCEPT !.template = t])
    BY <1>2 DEF Config, SameAccounts
  <1>3. ASSUME NEW d \in report_templates_custom_detail(c)
        PROVE  d \in Config /\ SameAccounts(c, d)
    <2>1. CASE d \in Rewritten(c, Templates)
      BY <2>1, SortEdits, SortsAreLists
    <2>2. CASE d \notin Rewritten(c, Templates)
      <3>1. PICK e \in Deleted(c, Templates) :
                 d = [e EXCEPT !.template = IF @ \in e.lists THEN @ ELSE "standard"]
        BY <1>3, <2>2, Zenon DEF report_templates_custom_detail
      <3>2. e \in Config /\ SameAccounts(c, e)
        BY SortEdits, SortsAreLists
      <3>3. (IF e.template \in e.lists THEN e.template ELSE "standard") \in Templates \cup {"standard"}
        BY <3>2 DEF Config
      <3>4. QED BY <1>2, <3>1, <3>2, <3>3
    <2>3. QED BY <2>1, <2>2
  <1>4. ASSUME NEW d \in ChangeList(c, r) PROVE d \in Config /\ SameAccounts(c, d)
    BY <1>3, <1>4, SortEdits, SortsAreLists
    DEF ChangeList, keyword_list_detail, hash_list_detail, url_list_detail, yara_rule_detail
  <1>5. ASSUME NEW d \in ImportBundled(c, r) PROVE d \in Config /\ SameAccounts(c, d)
    <2>1. PICK l \in SUBSET Words : d = [c EXCEPT !.lists = @ \cup l]
      BY <1>5, Zenon DEF ImportBundled
    <2>2. QED BY <1>0, <2>1, ListEdit, SortsAreLists
  <1>6. ASSUME NEW d \in refresh_malwarebazaar_hash_list(c, r) \cup refresh_urlhaus_url_list(c, r)
        PROVE  d \in Config /\ SameAccounts(c, d)
    BY <1>0, <1>6, ListEdit, SortsAreLists
    DEF refresh_malwarebazaar_hash_list, refresh_urlhaus_url_list
  <1>7. ASSUME NEW d \in ChooseTemplate(c, r) PROVE d \in Config /\ SameAccounts(c, d)
    <2>1. PICK t \in {"standard"} \cup (c.lists \cap Templates) : d = [c EXCEPT !.template = t]
      BY <1>7, Zenon DEF ChooseTemplate
    <2>2. QED BY <1>2, <2>1 DEF SameAccounts
  <1>8. QED BY <1>1, <1>4, <1>5, <1>6, <1>7

LEMMA SecretAndBrandEdits ==
  ASSUME NEW c \in Config, NEW r \in Requests, key \in Keys
  PROVE  \A d \in AddShare(c, r) \cup DropShare(c, r) \cup SetFeedKey(c, r)
                  \cup SetKiosk(c, r) \cup UploadLogo(c, r) \cup ClearLogo(c, r) :
             d \in Config /\ SameAccounts(c, d)
  <1>1. KeyInUse \in Keys /\ "none" \in Keys
    BY DEF KeyInUse, Keys
  <1>2. /\ \A k \in Keys : /\ [c EXCEPT !.share = k] \in Config
                          /\ SameAccounts(c, [c EXCEPT !.share = k])
                          /\ [c EXCEPT !.feed = k] \in Config
                          /\ SameAccounts(c, [c EXCEPT !.feed = k])
        /\ \A k \in BOOLEAN : /\ [c EXCEPT !.kiosk = k] \in Config
                             /\ SameAccounts(c, [c EXCEPT !.kiosk = k])
        /\ \A e \in Extensions \cup {"none"} : /\ [c EXCEPT !.logo = e] \in Config
                                             /\ SameAccounts(c, [c EXCEPT !.logo = e])
    BY DEF Config, SameAccounts
  <1>3. QED
    BY <1>1, <1>2 DEF AddShare, DropShare, SetFeedKey, SetKiosk, UploadLogo, ClearLogo

(* What a request makes of the settings, by its kind. *)
LEMMA EditOf ==
  ASSUME NEW c, NEW r, NEW d \in Edits(c, r)
  PROVE  \/ kind[r] = "create_user" /\ d \in CreateUser(c, r)
         \/ kind[r] = "delete_user" /\ d \in DeleteUser(c, r)
         \/ kind[r] = "reset_password" /\ d \in ResetPassword(c, r)
         \/ kind[r] = "change_password" /\ d \in ChangePassword(c, r)
         \/ kind[r] = "add_group" /\ d \in AddGroup(c, r)
         \/ kind[r] = "edit_group" /\ d \in EditGroup(c, r)
         \/ kind[r] = "delete_group" /\ d \in DeleteGroup(c, r)
         \/ kind[r] = "add_list" /\ d \in AddList(c, r)
         \/ kind[r] = "import_list" /\ d \in ImportBundled(c, r)
         \/ kind[r] = "change_list" /\ d \in ChangeList(c, r)
         \/ kind[r] = "refresh_hashes" /\ d \in refresh_malwarebazaar_hash_list(c, r)
         \/ kind[r] = "refresh_urls" /\ d \in refresh_urlhaus_url_list(c, r)
         \/ kind[r] = "choose_template" /\ d \in ChooseTemplate(c, r)
         \/ kind[r] = "add_share" /\ d \in AddShare(c, r)
         \/ kind[r] = "drop_share" /\ d \in DropShare(c, r)
         \/ kind[r] = "feed_key" /\ d \in SetFeedKey(c, r)
         \/ kind[r] = "kiosk" /\ d \in SetKiosk(c, r)
         \/ kind[r] = "logo" /\ d \in UploadLogo(c, r)
         \/ kind[r] = "clear_logo" /\ d \in ClearLogo(c, r)
         \/ kind[r] = "restore" /\ d \in Restored(c, r)
  BY DEF Edits

LEMMA RestoredIs ==
  ASSUME NEW c, NEW r, NEW d \in Restored(c, r)
  PROVE  \E m \in backups : d = m.config
  BY DEF Restored

LEMMA EditsType ==
  ASSUME TypeOK, NEW r \in Requests, NEW d \in Edits(disk, r)
  PROVE  /\ d \in Config
         /\ kind[r] \notin AccountKinds \cup {"restore"} => SameAccounts(disk, d)
  <1>1. disk \in Config /\ key \in Keys /\ backups \subseteq Backup
    BY DEF TypeOK
  <1>2. CASE kind[r] \in AccountKinds
    BY <1>1, <1>2, EditOf, AccountEdits DEF AccountKinds
  <1>3. CASE kind[r] = "restore"
    <2>1. d \in Restored(disk, r)
      BY <1>3, EditOf
    <2>2. QED BY <1>1, <1>3, <2>1, RestoredIs DEF Backup
  <1>4. CASE kind[r] \notin AccountKinds \cup {"restore"}
    BY <1>1, <1>4, EditOf, ListEdits, SecretAndBrandEdits DEF AccountKinds
  <1>5. QED BY <1>2, <1>3, <1>4

-----------------------------------------------------------------------------
(* Type correctness.                                                       *)

LEMMA InitType == ASSUME Init PROVE TypeOK
  <1>1. disk \in Config /\ session \in [Browsers -> Sessions]
    BY NewStationType, StaffedType DEF Init, NoSession, Sessions, Passwords
  <1>2. /\ base \in [Requests -> Config] /\ draft \in [Requests -> Config]
        /\ pack \in [Requests -> Backup] /\ backups \subseteq Backup
    BY NewStationType, BackupAssumption DEF Init
  <1>3. /\ key \in Keys /\ pc \in [Requests -> Steps] /\ restarts \in 0 .. MaxRestarts
    BY SettingsAssumption DEF Init, Keys, Steps
  <1>4. QED BY <1>1, <1>2, <1>3 DEF Init, TypeOK

LEMMA EndsType ==
  ASSUME TypeOK, NEW r \in Requests, Ends(r)
  PROVE  /\ pc' \in [Requests -> Steps]
         /\ from' \in [Requests -> Browsers \cup {Kiosk}]
         /\ who' \in [Requests -> Names \cup {Installer, Kiosk, None}]
         /\ base' \in [Requests -> Config] /\ draft' \in [Requests -> Config]
         /\ pack' \in [Requests -> Backup]
  BY NewStationType DEF TypeOK, Ends, Steps

LEMMA GoesOnType ==
  ASSUME TypeOK, NEW r \in Requests, NEW step \in Steps, GoesOn(r, step)
  PROVE  /\ pc' \in [Requests -> Steps]
         /\ from' \in [Requests -> Browsers \cup {Kiosk}]
         /\ who' \in [Requests -> Names \cup {Installer, Kiosk, None}]
         /\ base' \in [Requests -> Config] /\ draft' \in [Requests -> Config]
         /\ pack' \in [Requests -> Backup]
  BY DEF TypeOK, GoesOn

LEMMA KeyInUseType == ASSUME key \in Keys PROVE KeyInUse \in Keys
  BY DEF KeyInUse, Keys

LEMMA TakeType == ASSUME TypeOK, NEW r \in Requests, Take(r) PROVE TypeOK'
  <1>0. UNCHANGED <<disk, marker, backups, session, fails, kind, restarts>>
    BY DEF Take
  <1>1. CASE Ends(r) /\ UNCHANGED <<holder, files, key, logos>>
    BY <1>0, <1>1, EndsType DEF TypeOK
  <1>2. ASSUME NEW new \in Edits(disk, r),
               holder' = r,
               base' = [base EXCEPT ![r] = disk],
               draft' = [draft EXCEPT ![r] = new],
               IF kind[r] = "restore"
               THEN \E m \in backups : m.config = new /\ pack' = [pack EXCEPT ![r] = m]
               ELSE UNCHANGED pack,
               Prepare(r, new),
               pc' = [pc EXCEPT ![r] = "saving"],
               UNCHANGED <<from, who>>
        PROVE  TypeOK'
    <2>1. new \in Config
      BY EditsType
    <2>2. files' \subseteq Filed
      BY <1>2 DEF Prepare, TypeOK
    <2>3. key' \in Keys
      BY <1>2, KeyInUseType DEF Prepare, TypeOK
    <2>4. logos' \subseteq Extensions
      <3>1. kind[r] = "logo" => new.logo \in Extensions
        <4>1. ASSUME NEW e \in Extensions PROVE [disk EXCEPT !.logo = e].logo = e
          BY DEF TypeOK, Config
        <4>2. QED BY <4>1, EditOf DEF UploadLogo
      <3>2. QED BY <1>2, <3>1 DEF Prepare, TypeOK
    <2>5. base' \in [Requests -> Config] /\ draft' \in [Requests -> Config]
      BY <1>2, <2>1 DEF TypeOK
    <2>6. pack' \in [Requests -> Backup]
      BY <1>2 DEF TypeOK
    <2>7. pc' \in [Requests -> Steps]
      BY <1>2 DEF TypeOK, Steps
    <2>8. QED BY <1>0, <1>2, <2>2, <2>3, <2>4, <2>5, <2>6, <2>7 DEF TypeOK
  <1>3. QED BY <1>1, <1>2 DEF Take

(* The steps of a request that is not a login and has taken the lock. *)
LEMMA HeldType ==
  ASSUME TypeOK, NEW r \in Requests,
         \/ Save(r) \/ SaveFails(r) \/ Finish(r)
         \/ RestoreKey(r) \/ RestoreLogo(r) \/ RestoreLists(r)
  PROVE  TypeOK'
  <1>0. {"filing", "logo", "data"} \subseteq Steps /\ draft[r] \in Config /\ pack[r] \in Backup
    BY DEF Steps, TypeOK
  <1>1. CASE Save(r)
    BY <1>0, <1>1, GoesOnType DEF Save, TypeOK
  <1>2. CASE SaveFails(r)
    BY <1>2, EndsType DEF SaveFails, TypeOK, stores
  <1>3. CASE Finish(r)
    <2>1. session' \in [Browsers -> Sessions]
      <3>1. CASE Restamped(r)
        <4>1. /\ from[r] \in Browsers /\ who[r] \in Names \cup {Installer, Kiosk, None}
          BY <3>1 DEF Restamped, TypeOK
        <4>2. who[r] \in Names \cup {Installer, None}
          BY <3>1, <4>1, SettingsAssumption DEF Restamped, Fingerprint, UsersOf
        <4>3. disk \in Config /\ r \in Passwords
          BY DEF TypeOK, Passwords
        <4>4. Fingerprint(disk, who[r]) \in Passwords
          BY <4>3, FingerprintType
        <4>5. session' = [session EXCEPT ![from[r]] =
                            [name |-> who[r], opened |-> r, stamp |-> Fingerprint(disk, who[r])]]
          BY <1>3, <3>1 DEF Finish
        <4>6. QED BY <4>1, <4>2, <4>3, <4>4, <4>5 DEF TypeOK, Sessions
      <3>2. QED BY <1>3, <3>1 DEF Finish, TypeOK
    <2>2. QED BY <1>3, <2>1, EndsType DEF Finish, TypeOK
  <1>4. CASE RestoreKey(r)
    BY <1>0, <1>4, GoesOnType DEF RestoreKey, TypeOK, Backup
  <1>5. CASE RestoreLogo(r)
    <2>1. logos' \subseteq Extensions
      BY <1>0, <1>5 DEF RestoreLogo, TypeOK, Backup
    <2>2. QED BY <1>0, <1>5, <2>1, GoesOnType DEF RestoreLogo, TypeOK
  <1>6. CASE RestoreLists(r)
    <2>1. files' \subseteq Filed
      BY <1>0, <1>6 DEF RestoreLists, TypeOK, Backup
    <2>2. QED BY <1>6, <2>1, EndsType DEF RestoreLists, TypeOK
  <1>7. QED BY <1>1, <1>2, <1>3, <1>4, <1>5, <1>6

(* The steps of a backup. *)
LEMMA BackupType ==
  ASSUME TypeOK, NEW r \in Requests,
         BackupSettings(r) \/ BackupKey(r) \/ BackupLogo(r) \/ BackupLists(r)
  PROVE  TypeOK'
  <1>1. ASSUME NEW m \in Backup, NEW next \in Steps, Packs(r, m, next) PROVE TypeOK'
    BY <1>1 DEF Packs, TypeOK, stores
  <1>2. {"key", "logo", "data"} \subseteq Steps
    BY DEF Steps
  <1>3. /\ disk \in Config /\ key \in Keys /\ logos \subseteq Extensions
        /\ files \subseteq Filed /\ pack[r] \in Backup
    BY DEF TypeOK
  <1>4. CASE BackupSettings(r)
    <2>1. [NoBackup EXCEPT !.config = disk] \in Backup
      BY <1>3, NewStationType DEF Backup
    <2>2. QED BY <1>1, <1>2, <1>4, <2>1 DEF BackupSettings
  <1>5. CASE BackupKey(r)
    <2>1. [pack[r] EXCEPT !.key = key] \in Backup
      BY <1>3 DEF Backup
    <2>2. QED BY <1>1, <1>2, <1>5, <2>1 DEF BackupKey
  <1>6. CASE BackupLogo(r)
    <2>1. ASSUME NEW e \in Extensions \cup {"none"}
          PROVE  [pack[r] EXCEPT !.logo = e] \in Backup
      BY <1>3 DEF Backup
    <2>2. QED BY <1>1, <1>2, <1>3, <1>6, <2>1 DEF BackupLogo
  <1>7. CASE BackupLists(r)
    <2>1. [pack[r] EXCEPT !.data = pack[r].config.lists \cap files] \in Backup
      BY <1>3 DEF Backup
    <2>2. QED BY <1>7, <2>1, EndsType DEF BackupLists, TypeOK, stores
  <1>8. QED BY <1>4, <1>5, <1>6, <1>7

(* A login is somebody's, at a browser, and in one of two places. *)
LoginOf(r) ==
    kind[r] = "login" /\ UnderWay(r)
    => /\ pc[r] \in {"asked", "stamping"}
       /\ from[r] \in Browsers /\ who[r] \in Names \cup {Installer}

LoginInv == \A r \in Requests : LoginOf(r)

(* Logins, and what happens to sessions by itself. *)
LEMMA SessionType ==
  ASSUME TypeOK, LoginInv,
         \/ \E r \in Requests : LoginAsk(r) \/ LoginCheck(r) \/ LoginStamp(r)
         \/ \E b \in Browsers : Logout(b)
         \/ WindowEnds \/ Restart
  PROVE  TypeOK'
  <1>1. ASSUME NEW r \in Requests, LoginAsk(r) PROVE TypeOK'
    BY <1>1 DEF LoginAsk, Arrives, TypeOK, stores, Steps
  <1>2. ASSUME NEW r \in Requests, LoginCheck(r) PROVE TypeOK'
    <2>1. CASE fails' = fails + 1 /\ Ends(r)
      BY <1>2, <2>1, EndsType DEF LoginCheck, TypeOK, stores
    <2>2. CASE ~(fails' = fails + 1 /\ Ends(r))
      BY <1>2, <2>2 DEF LoginCheck, TypeOK, stores, Steps
    <2>3. QED BY <2>1, <2>2
  <1>3. ASSUME NEW r \in Requests, LoginStamp(r) PROVE TypeOK'
    <2>1. /\ from[r] \in Browsers /\ who[r] \in Names \cup {Installer}
          /\ Fingerprint(base[r], who[r]) \in Passwords
          /\ Fingerprint(disk, who[r]) \in Passwords
      BY <1>3, FingerprintType DEF LoginStamp, LoginInv, LoginOf, UnderWay, TypeOK
    <2>2. session' \in [Browsers -> Sessions]
      BY <1>3, <2>1 DEF LoginStamp, Sessions, TypeOK
    <2>3. QED BY <1>3, <2>2, EndsType DEF LoginStamp, TypeOK, stores
  <1>4. ASSUME NEW b \in Browsers, Logout(b) PROVE TypeOK'
    BY <1>4 DEF Logout, TypeOK, stores, requestVars, NoSession, Sessions, Passwords
  <1>5. CASE WindowEnds
    BY <1>5 DEF WindowEnds, TypeOK, stores, requestVars
  <1>6. CASE Restart
    BY <1>6, NewStationType, SettingsAssumption DEF Restart, TypeOK, stores, Steps
  <1>7. QED BY <1>1, <1>2, <1>3, <1>4, <1>5, <1>6

(* Arriving requests. *)
LEMMA AskType ==
  ASSUME TypeOK, NEW r \in Requests, Ask(r) \/ Fetch(r) PROVE TypeOK'
  <1>1. CASE Ask(r)
    <2>1. \A b \in Browsers : session[b].name \in Names \cup {Installer, None}
      BY DEF TypeOK, Sessions
    <2>2. PICK b \in Browsers \cup {Kiosk} :
              LET me == IF b = Kiosk THEN Kiosk ELSE session[b].name
              IN  from' = [from EXCEPT ![r] = b] /\ who' = [who EXCEPT ![r] = me]
      BY <1>1 DEF Ask
    <2>3. (IF b = Kiosk THEN Kiosk ELSE session[b].name) \in Names \cup {Installer, Kiosk, None}
      BY <2>1
    <2>4. pc' \in [Requests -> Steps]
      BY <1>1 DEF Ask, Arrives, TypeOK, Steps
    <2>5. QED BY <1>1, <2>2, <2>3, <2>4 DEF Ask, TypeOK, stores
  <1>2. CASE Fetch(r)
    <2>1. files' \subseteq Filed
      BY <1>2, SettingsAssumption DEF Fetch, TypeOK, Filed
    <2>2. "fetched" \in Steps
      BY DEF Steps
    <2>3. QED BY <1>2, <2>1, <2>2, EndsType, GoesOnType DEF Fetch, TypeOK
  <1>3. QED BY <1>1, <1>2

(* What a request does of its own. *)
RequestStep(r) ==
    \/ Ask(r) \/ Fetch(r) \/ Take(r) \/ Save(r) \/ SaveFails(r) \/ Finish(r)
    \/ RestoreKey(r) \/ RestoreLogo(r) \/ RestoreLists(r)
    \/ BackupSettings(r) \/ BackupKey(r) \/ BackupLogo(r) \/ BackupLists(r)
    \/ LoginAsk(r) \/ LoginCheck(r) \/ LoginStamp(r)

LEMMA RequestType ==
  ASSUME TypeOK, LoginInv, NEW r \in Requests, RequestStep(r) PROVE TypeOK'
  BY AskType, TakeType, HeldType, BackupType, SessionType DEF RequestStep

(* A request touches nothing of another one's. *)
LEMMA OthersStay ==
  ASSUME TypeOK, NEW r \in Requests, RequestStep(r), NEW q \in Requests, q # r
  PROVE  /\ pc'[q] = pc[q] /\ from'[q] = from[q] /\ who'[q] = who[q]
         /\ base'[q] = base[q] /\ draft'[q] = draft[q] /\ pack'[q] = pack[q]
  <1> USE DEF TypeOK, Ends, GoesOn, requestVars
  <1>1. CASE Ask(r) \/ LoginAsk(r)
    BY <1>1 DEF Ask, LoginAsk, Arrives
  <1>2. CASE Fetch(r)
    BY <1>2 DEF Fetch
  <1>3. CASE Take(r)
    <2>1. pack'[q] = pack[q]
      BY <1>3 DEF Take
    <2>2. QED BY <1>3, <2>1 DEF Take
  <1>4. CASE Save(r) \/ SaveFails(r) \/ Finish(r)
    BY <1>4 DEF Save, SaveFails, Finish
  <1>5. CASE RestoreKey(r) \/ RestoreLogo(r) \/ RestoreLists(r)
    BY <1>5 DEF RestoreKey, RestoreLogo, RestoreLists
  <1>6. CASE BackupSettings(r) \/ BackupKey(r) \/ BackupLogo(r) \/ BackupLists(r)
    BY <1>6 DEF BackupSettings, BackupKey, BackupLogo, BackupLists, Packs
  <1>7. CASE LoginCheck(r) \/ LoginStamp(r)
    BY <1>7 DEF LoginCheck, LoginStamp
  <1>8. QED BY <1>1, <1>2, <1>3, <1>4, <1>5, <1>6, <1>7 DEF RequestStep

LEMMA KindStays == ASSUME NEW r, RequestStep(r) PROVE UNCHANGED kind
  BY DEF RequestStep, Ask, Fetch, Take, Save, SaveFails, Finish, RestoreKey,
     RestoreLogo, RestoreLists, BackupSettings, BackupKey, BackupLogo, BackupLists,
     Packs, LoginAsk, LoginCheck, LoginStamp

-----------------------------------------------------------------------------
(* The lock.                                                               *)

(* Who is past `saving' holds the lock, and what was loaded or saved under *)
(* it is still what is on disk.                                            *)
LockOf(r) ==
    /\ pc[r] \in {"saving", "filing"} => holder = r /\ kind[r] \notin {"login", "backup"}
    /\ pc[r] \in {"logo", "data"} =>
          kind[r] = "backup" \/ (kind[r] = "restore" /\ holder = r)
    /\ pc[r] = "saving" => base[r] = disk
    /\ pc[r] \in {"filing", "logo", "data"} /\ holder = r => draft[r] = disk
    /\ pc[r] = "key" => kind[r] = "backup"
    /\ pc[r] = "stamping" => kind[r] = "login"
    /\ kind[r] = "backup" => holder # r

LockInv == \A r \in Requests : LockOf(r)

FlowInv == TypeOK /\ LoginInv /\ LockInv

(* The step of a request leaves the others' part of the invariant, if they *)
(* have the lock or it leaves settings and lock alone. *)
LEMMA OthersFlow ==
  ASSUME FlowInv, NEW r \in Requests, RequestStep(r),
         \/ UNCHANGED <<disk, holder>>
         \/ holder \in {r, None} /\ holder' \in {r, None},
         NEW q \in Requests, q # r
  PROVE  LoginOf(q)' /\ LockOf(q)'
  <1>1. /\ pc'[q] = pc[q] /\ from'[q] = from[q] /\ who'[q] = who[q]
        /\ base'[q] = base[q] /\ draft'[q] = draft[q] /\ UNCHANGED kind
    BY OthersStay, KindStays DEF FlowInv
  <1>2. LoginOf(q) /\ LockOf(q)
    BY DEF FlowInv, LoginInv, LockInv
  <1>3. q # None
    BY SettingsAssumption
  <1>4. QED BY <1>1, <1>2, <1>3 DEF LoginOf, LockOf, UnderWay

LEMMA RequestFlow ==
  ASSUME FlowInv, NEW r \in Requests, RequestStep(r) PROVE LoginInv' /\ LockInv'
  <1>1. TypeOK /\ UNCHANGED kind /\ LoginOf(r) /\ LockOf(r) /\ r # None
    BY KindStays, SettingsAssumption DEF FlowInv, LoginInv, LockInv
  <1>2. SUFFICES LoginOf(r)' /\ LockOf(r)'
                 /\ (\/ UNCHANGED <<disk, holder>>
                     \/ holder \in {r, None} /\ holder' \in {r, None})
    BY OthersFlow DEF LoginInv, LockInv
  <1> USE <1>1 DEF LoginOf, LockOf, UnderWay, Ends, GoesOn, TypeOK
  <1>3. CASE Ask(r)
    BY <1>3 DEF Ask, Arrives, stores
  <1>4. CASE Fetch(r)
    BY <1>4 DEF Fetch
  <1>5. CASE Take(r)
    <2>1. CASE Ends(r) /\ UNCHANGED holder
      BY <1>5, <2>1 DEF Take
    <2>2. CASE ~(Ends(r) /\ UNCHANGED holder)
      BY <1>5, <2>2 DEF Take, Free
    <2>3. QED BY <2>1, <2>2
  <1>6. CASE Save(r)
    BY <1>6 DEF Save
  <1>7. CASE SaveFails(r)
    BY <1>7 DEF SaveFails, stores
  <1>8. CASE Finish(r)
    BY <1>8 DEF Finish
  <1>9. CASE RestoreKey(r) \/ RestoreLogo(r) \/ RestoreLists(r)
    BY <1>9 DEF RestoreKey, RestoreLogo, RestoreLists
  <1>10. CASE BackupSettings(r) \/ BackupKey(r) \/ BackupLogo(r)
    BY <1>10 DEF BackupSettings, BackupKey, BackupLogo, Packs, stores
  <1>11. CASE BackupLists(r)
    BY <1>11 DEF BackupLists, stores
  <1>12. CASE LoginAsk(r)
    BY <1>12 DEF LoginAsk, Arrives, stores
  <1>13. CASE LoginCheck(r)
    BY <1>13 DEF LoginCheck, stores
  <1>14. CASE LoginStamp(r)
    BY <1>14 DEF LoginStamp, stores
  <1>15. QED
    BY <1>3, <1>4, <1>5, <1>6, <1>7, <1>8, <1>9, <1>10, <1>11, <1>12, <1>13,
       <1>14 DEF RequestStep

LEMMA InitFlow == ASSUME Init PROVE FlowInv
  BY InitType, SettingsAssumption
  DEF Init, FlowInv, LoginInv, LoginOf, LockInv, LockOf, UnderWay

(* What happens by itself: a session ends, the window of failed logins     *)
(* ends, the service restarts.                                             *)
LEMMA ByItselfFlow ==
  ASSUME FlowInv, (\E b \in Browsers : Logout(b)) \/ WindowEnds \/ Restart
  PROVE  FlowInv'
  <1>1. TypeOK'
    BY SessionType DEF FlowInv
  <1>2. CASE (\E b \in Browsers : Logout(b)) \/ WindowEnds
    <2>1. UNCHANGED <<disk, holder, kind, pc, from, who, base, draft>>
      BY <1>2 DEF Logout, WindowEnds, stores, requestVars
    <2>2. QED
      BY <1>1, <2>1 DEF FlowInv, LoginInv, LoginOf, LockInv, LockOf, UnderWay
  <1>3. CASE Restart
    <2>1. \A r \in Requests : pc'[r] \in {"new", "done"} /\ kind'[r] = kind[r] /\ r # holder'
      BY <1>3, SettingsAssumption DEF Restart, UnderWay, FlowInv, TypeOK
    <2>2. QED
      BY <1>1, <2>1 DEF FlowInv, LoginInv, LoginOf, LockInv, LockOf, UnderWay
  <1>4. QED BY <1>2, <1>3

LEMMA NextFlow == ASSUME FlowInv, [Next]_vars PROVE FlowInv'
  <1>1. ASSUME NEW r \in Requests, RequestStep(r) PROVE FlowInv'
    BY <1>1, RequestType, RequestFlow DEF FlowInv
  <1>2. CASE UNCHANGED vars
    BY <1>2 DEF vars, stores, requestVars, FlowInv, TypeOK, LoginInv, LoginOf,
                LockInv, LockOf, UnderWay
  <1>3. QED BY <1>1, <1>2, ByItselfFlow DEF Next, RequestStep

(* The variables keep their types, logins and lock their order. *)
THEOREM FlowInvariance == Spec => []FlowInv
  <1>1. FlowInv /\ [Next]_vars => FlowInv'
    BY NextFlow
  <1>2. QED BY <1>1, InitFlow, PTL DEF Spec

(* Type correctness of the settings store. *)
THEOREM SettingsTypeCorrect == Spec => []TypeOK
  <1>1. FlowInv => TypeOK
    BY DEF FlowInv
  <1>2. QED BY <1>1, FlowInvariance, PTL

(* A request saves an edit of the settings as they are on disk, so no      *)
(* acknowledged change is undone by another request's save: whatever the   *)
(* number and the kinds of requests, failed saves and restarts.            *)
THEOREM SavesTheLatest == Spec => []ChangesStartFromTheLatest
  <1>1. FlowInv => ChangesStartFromTheLatest
    BY DEF FlowInv, LockInv, LockOf, ChangesStartFromTheLatest
  <1>2. QED BY <1>1, FlowInvariance, PTL

-----------------------------------------------------------------------------
(* An Admin remains.                                                       *)

Staffing(c) == UsersOf(c) # {} => Admins(c) # {}

(* The settings on disk, the ones about to be saved and those of every     *)
(* backup have an Admin if they have accounts. *)
AdminInv ==
    /\ Staffing(disk)
    /\ \A r \in Requests : Staffing(draft[r]) /\ Staffing(pack[r].config)
    /\ \A m \in backups : Staffing(m.config)

LEMMA SameStaffing ==
  ASSUME NEW c, NEW d, d.users = c.users, Staffing(c) PROVE Staffing(d)
  BY DEF Staffing, Admins, UsersOf

LEMMA NewStationStaffing == Staffing(NewStation) /\ Staffing(NoBackup.config)
  <1>1. UsersOf(NewStation) = {}
    BY DEF UsersOf, NewStation
  <1>2. NoBackup.config = NewStation
    BY DEF NoBackup
  <1>3. QED BY <1>1, <1>2 DEF Staffing

(* The first account is an Admin, and a later one replaces none. *)
LEMMA CreateStaffing ==
  ASSUME NEW c \in Config, NEW r \in Requests, Staffing(c), NEW d \in CreateUser(c, r)
  PROVE  Staffing(d)
  <1>1. PICK x \in (Names \ UsersOf(c)) \X GroupsOf(c) :
             /\ UsersOf(c) = {} => x[2] = "admin"
             /\ d = [c EXCEPT !.users[x[1]] = [group |-> x[2], pw |-> r],
                              !.installer = IF UsersOf(c) = {} THEN "none" ELSE @]
    BY Zenon DEF CreateUser
  <1>2. /\ x[1] \in Names \ UsersOf(c) /\ c.users \in [Names -> Accounts \cup {None}]
        /\ x[2] \in Custom \cup {"admin", "analyst"}
    BY DEF Config, GroupsOf
  <1>3. d.users = [c.users EXCEPT ![x[1]] = [group |-> x[2], pw |-> r]]
    BY <1>1, <1>2 DEF Config
  <1>4. CASE UsersOf(c) = {}
    <2>1. [group |-> x[2], pw |-> r] \in Accounts
      BY <1>2 DEF Accounts, Passwords
    <2>2. x[1] \in UsersOf(d) /\ d.users[x[1]].group = "admin"
      BY <1>1, <1>2, <1>3, <1>4, <2>1, BackupAssumption DEF UsersOf
    <2>3. QED BY <2>2 DEF Staffing, Admins
  <1>5. CASE UsersOf(c) # {}
    <2>1. PICK n \in Admins(c) : TRUE
      BY <1>5 DEF Staffing
    <2>2. n \in UsersOf(c) /\ n # x[1] /\ d.users[n] = c.users[n]
      BY <1>2, <1>3, <2>1 DEF Admins, UsersOf
    <2>3. n \in Admins(d)
      BY <2>1, <2>2 DEF Admins, UsersOf
    <2>4. QED BY <2>3 DEF Staffing
  <1>6. QED BY <1>4, <1>5

(* The last Admin is not deleted. *)
LEMMA DeleteStaffing ==
  ASSUME NEW c \in Config, NEW r \in Requests, Staffing(c), NEW d \in DeleteUser(c, r)
  PROVE  Staffing(d) /\ Admins(d) # {}
  <1>1. PICK m \in UsersOf(c) : /\ m \in Admins(c) => Cardinality(Admins(c)) > 1
                                /\ d = [c EXCEPT !.users[m] = None]
    BY Zenon DEF DeleteUser
  <1>2. m \in Names /\ c.users \in [Names -> Accounts \cup {None}]
    BY DEF Config, UsersOf
  <1>3. d.users = [c.users EXCEPT ![m] = None]
    BY <1>1, <1>2 DEF Config
  <1>4. PICK n \in Admins(c) : n # m
    <2>1. Admins(c) # {}
      BY DEF Staffing
    <2>2. Admins(c) # {m}
      <3>1. Cardinality({m}) = 1
        BY FS_Singleton
      <3>2. QED BY <1>1, <3>1
    <2>3. QED BY <2>1, <2>2
  <1>5. n \in Admins(d)
    BY <1>2, <1>3, <1>4 DEF Admins, UsersOf
  <1>6. QED BY <1>5 DEF Staffing

(* A new password leaves the groups, ... *)
LEMMA PasswordStaffing ==
  ASSUME NEW c \in Config, NEW r \in Requests, Staffing(c),
         NEW d \in ResetPassword(c, r) \cup ChangePassword(c, r)
  PROVE  Staffing(d)
  <1>1. CASE d = [c EXCEPT !.installer = r]
    BY <1>1, SameStaffing DEF Config
  <1>2. ASSUME NEW n \in UsersOf(c), d = [c EXCEPT !.users[n].pw = r] PROVE Staffing(d)
    <2>1. c.users \in [Names -> Accounts \cup {None}] /\ n \in Names /\ c.users[n] \in Accounts
      BY DEF Config, UsersOf
    <2>2. d.users = [c.users EXCEPT ![n] = [c.users[n] EXCEPT !.pw = r]]
      BY <1>2, <2>1 DEF Config
    <2>3. [c.users[n] EXCEPT !.pw = r] \in Accounts
      BY <2>1 DEF Accounts, Passwords
    <2>4. \A m \in UsersOf(c) : m \in UsersOf(d) /\ d.users[m].group = c.users[m].group
      BY <2>1, <2>2, <2>3, BackupAssumption DEF UsersOf, Accounts
    <2>5. UsersOf(c) # {}
      OBVIOUS
    <2>6. QED BY <2>4, <2>5 DEF Staffing, Admins
  <1>3. QED BY <1>1, <1>2 DEF ResetPassword, ChangePassword

(* ... and a deleted group was not the Admins'. *)
LEMMA GroupStaffing ==
  ASSUME NEW c \in Config, NEW r \in Requests, Staffing(c),
         NEW d \in AddGroup(c, r) \cup EditGroup(c, r) \cup DeleteGroup(c, r)
  PROVE  Staffing(d)
  <1>1. CASE d \in AddGroup(c, r)
    <2>1. PICK x \in (Custom \ c.groups) \X BOOLEAN :
                 d = [c EXCEPT !.groups = @ \cup {x[1]},
                               !.managers = IF x[2] THEN @ \cup {x[1]} ELSE @ \ {x[1]}]
      BY <1>1, Zenon DEF AddGroup
    <2>2. d.users = c.users
      BY <2>1 DEF Config
    <2>3. QED BY <2>2, SameStaffing
  <1>2. CASE d \in EditGroup(c, r)
    <2>1. d.users = c.users
      BY <1>2 DEF EditGroup, Config
    <2>2. QED BY <2>1, SameStaffing
  <1>3. CASE d \in DeleteGroup(c, r)
    <2>1. PICK g \in c.groups :
                 d = [c EXCEPT !.groups = @ \ {g}, !.managers = @ \ {g},
                               !.users = [n \in Names |-> IF n \in UsersOf(c) /\ @[n].group = g
                                          THEN [@[n] EXCEPT !.group = "analyst"] ELSE @[n]]]
      BY <1>3, Zenon DEF DeleteGroup
    <2>2. d.users = [n \in Names |-> IF n \in UsersOf(c) /\ c.users[n].group = g
                                     THEN [c.users[n] EXCEPT !.group = "analyst"] ELSE c.users[n]]
      BY <2>1 DEF Config
    <2>3. g # "admin"
      BY SettingsAssumption DEF Config
    <2>4. Admins(c) \subseteq Admins(d)
      BY <2>2, <2>3 DEF Admins, UsersOf
    <2>5. UsersOf(d) \subseteq UsersOf(c)
      BY <2>2 DEF UsersOf
    <2>6. QED BY <2>4, <2>5 DEF Staffing
  <1>4. QED BY <1>1, <1>2, <1>3

LEMMA AdminEdits ==
  ASSUME FlowInv, AdminInv, NEW r \in Requests, NEW d \in Edits(disk, r)
  PROVE  Staffing(d)
  <1>1. disk \in Config /\ Staffing(disk)
    BY DEF FlowInv, TypeOK, AdminInv
  <1>2. CASE kind[r] \notin AccountKinds \cup {"restore"}
    BY <1>1, <1>2, EditsType, SameStaffing DEF FlowInv, SameAccounts
  <1>3. CASE kind[r] = "restore"
    <2>1. d \in Restored(disk, r)
      BY <1>3, EditOf
    <2>2. QED BY <2>1, RestoredIs DEF AdminInv
  <1>4. CASE kind[r] \in AccountKinds
    BY <1>1, <1>4, EditOf, CreateStaffing, DeleteStaffing, PasswordStaffing, GroupStaffing
    DEF AccountKinds
  <1>5. QED BY <1>2, <1>3, <1>4

(* What a request may put into the settings, a draft or a backup. *)
LEMMA RequestStores ==
  ASSUME FlowInv, NEW r \in Requests, RequestStep(r)
  PROVE  /\ disk' \in {disk, draft[r]}
         /\ draft'[r] \in {draft[r], NewStation} \cup Edits(disk, r)
         /\ pack'[r].config \in {pack[r].config, disk, NoBackup.config}
                                \cup {m.config : m \in backups}
         /\ \A m \in backups' : m \in backups \/ m.config = pack[r].config
  <1> USE DEF FlowInv, TypeOK, Ends, GoesOn, stores
  <1>1. CASE Ask(r) \/ LoginAsk(r)
    BY <1>1 DEF Ask, LoginAsk
  <1>2. CASE Fetch(r)
    BY <1>2 DEF Fetch
  <1>3. CASE Take(r)
    <2>1. CASE Ends(r)
      BY <1>3, <2>1 DEF Take
    <2>2. CASE ~Ends(r)
      <3>1. PICK new \in Edits(disk, r) :
                 /\ draft' = [draft EXCEPT ![r] = new]
                 /\ IF kind[r] = "restore"
                    THEN \E m \in backups : m.config = new /\ pack' = [pack EXCEPT ![r] = m]
                    ELSE UNCHANGED pack
        BY <1>3, <2>2 DEF Take
      <3>2. pack'[r].config \in {pack[r].config} \cup {m.config : m \in backups}
        BY <3>1
      <3>3. draft'[r] = new
        BY <3>1
      <3>4. UNCHANGED <<disk, backups>>
        BY <1>3 DEF Take
      <3>5. QED BY <3>2, <3>3, <3>4
    <2>3. QED BY <2>1, <2>2
  <1>4. CASE Save(r) \/ SaveFails(r) \/ Finish(r)
    BY <1>4 DEF Save, SaveFails, Finish
  <1>5. CASE RestoreKey(r) \/ RestoreLogo(r) \/ RestoreLists(r)
    BY <1>5 DEF RestoreKey, RestoreLogo, RestoreLists
  <1>6. CASE BackupSettings(r)
    <2>1. [NoBackup EXCEPT !.config = disk].config = disk
      BY NewStationType DEF Backup
    <2>2. QED BY <1>6, <2>1 DEF BackupSettings, Packs
  <1>7. CASE BackupKey(r) \/ BackupLogo(r)
    <2>1. /\ [pack[r] EXCEPT !.key = key].config = pack[r].config
          /\ \A e : [pack[r] EXCEPT !.logo = e].config = pack[r].config
      BY DEF Backup
    <2>2. \E m, next : Packs(r, m, next) /\ m.config = pack[r].config
      BY <1>7, <2>1 DEF BackupKey, BackupLogo
    <2>3. QED BY <2>2 DEF Packs
  <1>8. CASE BackupLists(r)
    <2>1. \A d : [pack[r] EXCEPT !.data = d].config = pack[r].config
      BY DEF Backup
    <2>2. QED BY <1>8, <2>1 DEF BackupLists
  <1>9. CASE LoginCheck(r) \/ LoginStamp(r)
    BY <1>9 DEF LoginCheck, LoginStamp
  <1>10. QED
    BY <1>1, <1>2, <1>3, <1>4, <1>5, <1>6, <1>7, <1>8, <1>9 DEF RequestStep

LEMMA NextAdmin ==
  ASSUME FlowInv, AdminInv, [Next]_vars PROVE AdminInv'
  <1>1. ASSUME NEW r \in Requests, RequestStep(r) PROVE AdminInv'
    <2>1. \A q \in Requests \ {r} : draft'[q] = draft[q] /\ pack'[q] = pack[q]
      BY <1>1, OthersStay DEF FlowInv
    <2>2. \A d \in Edits(disk, r) : Staffing(d)
      BY AdminEdits
    <2>3. QED BY <1>1, <2>1, <2>2, RequestStores, NewStationStaffing DEF AdminInv
  <1>2. CASE (\E b \in Browsers : Logout(b)) \/ WindowEnds \/ UNCHANGED vars
    BY <1>2 DEF AdminInv, Logout, WindowEnds, vars, stores, requestVars
  <1>3. CASE Restart
    BY <1>3, NewStationStaffing DEF AdminInv, Restart, stores
  <1>4. QED BY <1>1, <1>2, <1>3 DEF Next, RequestStep

LEMMA InitAdmin ==
  ASSUME Init, \A m \in Foreign : Staffing(m.config) PROVE AdminInv
  <1>1. ASSUME NEW n \in Names PROVE Staffing(Staffed(n))
    <2>1. Staffed(n).users[n] = [group |-> "admin", pw |-> "first"]
      BY DEF Staffed, NewStation
    <2>2. Staffed(n).users[n] \in Accounts
      BY <2>1 DEF Accounts, Passwords
    <2>3. n \in Admins(Staffed(n))
      BY <2>1, <2>2, BackupAssumption DEF Admins, UsersOf
    <2>4. QED BY <2>3 DEF Staffing
  <1>2. QED BY <1>1, NewStationStaffing DEF Init, AdminInv

(* Once a station has accounts, one of them is an Admin, through every     *)
(* order of creations, deletions, moves, restores, failed saves and        *)
(* restarts; if backups brought from elsewhere have an Admin too.          *)
THEOREM AdminRemains ==
  ASSUME \A m \in Foreign : Staffing(m.config)
  PROVE  Spec => []AnAdminRemains
  <1>1. Init => FlowInv /\ AdminInv
    BY InitFlow, InitAdmin
  <1>2. FlowInv /\ AdminInv /\ [Next]_vars => FlowInv' /\ AdminInv'
    BY NextFlow, NextAdmin
  <1>3. AdminInv => AnAdminRemains
    BY DEF AdminInv, Staffing, AnAdminRemains
  <1>4. QED BY <1>1, <1>2, <1>3, PTL DEF Spec

-----------------------------------------------------------------------------
(* An old password is out.                                                 *)

(* The kinds that give an account another password, or a new one its first.*)
NewPasswords == {"create_user", "reset_password", "change_password", "restore"}

(* Requests that are kept apart here are not under way together. *)
ApartInv ==
    \A q, r \in Requests :
        q # r /\ UnderWay(q) /\ UnderWay(r) => {kind[q], kind[r]} \notin Apart

(* A login in its last step found the password its account still has, or   *)
(* the account has lost it. *)
StampOf(r) ==
    pc[r] = "stamping" => Fingerprint(disk, who[r]) \in {Fingerprint(base[r], who[r]), "none"}

(* What a request is saving takes passwords away at most; a new password   *)
(* is named by the request that sets it. *)
DraftOf(r) ==
    /\ pc[r] = "saving" /\ kind[r] \notin NewPasswords =>
          \A n : Fingerprint(draft[r], n) \in {Fingerprint(base[r], n), "none"}
    /\ pc[r] \in {"saving", "filing"} /\ kind[r] \in {"reset_password", "change_password"} =>
          \A n : Fingerprint(draft[r], n) \in {Fingerprint(base[r], n), r}

(* A session is stamped with the password it was opened with, or with      *)
(* nothing. *)
SessionInv ==
    /\ \A b \in Browsers : session[b].stamp \in {session[b].opened, "none"}
    /\ \A r \in Requests : StampOf(r) /\ DraftOf(r)

LEMMA SameFingerprint ==
  ASSUME NEW c, NEW d, d.users = c.users, d.installer = c.installer, NEW n
  PROVE  Fingerprint(d, n) = Fingerprint(c, n)
  BY DEF Fingerprint, UsersOf

(* A deleted account has no password, the others keep theirs. *)
LEMMA DeleteFingerprint ==
  ASSUME NEW c \in Config, NEW r \in Requests, Staffing(c),
         NEW d \in DeleteUser(c, r), NEW n
  PROVE  Fingerprint(d, n) \in {Fingerprint(c, n), "none"}
  <1>1. PICK m \in UsersOf(c) : d = [c EXCEPT !.users[m] = None]
    BY Zenon DEF DeleteUser
  <1>2. m \in Names /\ c.users \in [Names -> Accounts \cup {None}]
    BY DEF Config, UsersOf
  <1>3. d.users = [c.users EXCEPT ![m] = None]
    BY <1>1, <1>2 DEF Config
  <1>4. UsersOf(d) # {} /\ UsersOf(c) # {}
    BY DeleteStaffing DEF Admins
  <1>5. QED BY <1>2, <1>3, <1>4 DEF Fingerprint, UsersOf

LEMMA GroupFingerprint ==
  ASSUME NEW c \in Config, NEW r \in Requests, NEW n,
         NEW d \in AddGroup(c, r) \cup EditGroup(c, r) \cup DeleteGroup(c, r)
  PROVE  Fingerprint(d, n) = Fingerprint(c, n)
  <1>1. CASE d \in AddGroup(c, r)
    <2>1. PICK x \in (Custom \ c.groups) \X BOOLEAN :
                 d = [c EXCEPT !.groups = @ \cup {x[1]},
                               !.managers = IF x[2] THEN @ \cup {x[1]} ELSE @ \ {x[1]}]
      BY <1>1, Zenon DEF AddGroup
    <2>2. d.users = c.users /\ d.installer = c.installer
      BY <2>1 DEF Config
    <2>3. QED BY <2>2, SameFingerprint
  <1>2. CASE d \in EditGroup(c, r)
    <2>1. d.users = c.users /\ d.installer = c.installer
      BY <1>2 DEF EditGroup, Config
    <2>2. QED BY <2>1, SameFingerprint
  <1>3. CASE d \in DeleteGroup(c, r)
    <2>1. PICK g \in c.groups :
                 d = [c EXCEPT !.groups = @ \ {g}, !.managers = @ \ {g},
                               !.users = [m \in Names |-> IF m \in UsersOf(c) /\ @[m].group = g
                                          THEN [@[m] EXCEPT !.group = "analyst"] ELSE @[m]]]
      BY <1>3, Zenon DEF DeleteGroup
    <2>2. /\ d.users = [m \in Names |-> IF m \in UsersOf(c) /\ c.users[m].group = g
                                     THEN [c.users[m] EXCEPT !.group = "analyst"] ELSE c.users[m]]
          /\ d.installer = c.installer
      BY <2>1 DEF Config
    <2>3. \A m \in UsersOf(c) : /\ [c.users[m] EXCEPT !.group = "analyst"].pw = c.users[m].pw
                                /\ [c.users[m] EXCEPT !.group = "analyst"] \in Accounts
      BY AccountType DEF Accounts
    <2>4. UsersOf(d) = UsersOf(c)
      BY <2>2, <2>3, BackupAssumption DEF UsersOf
    <2>5. \A m \in UsersOf(c) : d.users[m].pw = c.users[m].pw
      BY <2>2, <2>3 DEF UsersOf
    <2>6. QED BY <2>2, <2>4, <2>5 DEF Fingerprint
  <1>4. QED BY <1>1, <1>2, <1>3

(* The account whose password is set has the new one. *)
LEMMA PasswordFingerprint ==
  ASSUME NEW c \in Config, NEW r \in Requests, NEW n,
         NEW d \in ResetPassword(c, r) \cup ChangePassword(c, r)
  PROVE  Fingerprint(d, n) \in {Fingerprint(c, n), r}
  <1>1. CASE UsersOf(c) = {} /\ d = [c EXCEPT !.installer = r]
    <2>1. d.users = c.users /\ d.installer = r
      BY <1>1 DEF Config
    <2>2. QED BY <1>1, <2>1 DEF Fingerprint, UsersOf
  <1>2. ASSUME NEW m \in UsersOf(c), d = [c EXCEPT !.users[m].pw = r]
        PROVE  Fingerprint(d, n) \in {Fingerprint(c, n), r}
    <2>1. c.users \in [Names -> Accounts \cup {None}] /\ m \in Names /\ c.users[m] \in Accounts
      BY DEF Config, UsersOf
    <2>2. d.users = [c.users EXCEPT ![m] = [c.users[m] EXCEPT !.pw = r]]
      BY <1>2, <2>1 DEF Config
    <2>3. [c.users[m] EXCEPT !.pw = r] \in Accounts /\ [c.users[m] EXCEPT !.pw = r].pw = r
      BY <2>1 DEF Accounts, Passwords
    <2>4. UsersOf(d) = UsersOf(c)
      BY <2>1, <2>2, <2>3, BackupAssumption DEF UsersOf
    <2>5. \A k \in UsersOf(c) : d.users[k].pw = IF k = m THEN r ELSE c.users[k].pw
      BY <2>1, <2>2, <2>3 DEF UsersOf
    <2>6. UsersOf(c) # {}
      OBVIOUS
    <2>7. QED BY <2>4, <2>5, <2>6 DEF Fingerprint
  <1>3. QED BY <1>1, <1>2 DEF ResetPassword, ChangePassword

LEMMA EditFingerprint ==
  ASSUME FlowInv, Staffing(disk), NEW r \in Requests, NEW d \in Edits(disk, r), NEW n
  PROVE  /\ kind[r] \notin NewPasswords => Fingerprint(d, n) \in {Fingerprint(disk, n), "none"}
         /\ kind[r] \in {"reset_password", "change_password"} =>
               Fingerprint(d, n) \in {Fingerprint(disk, n), r}
  <1>1. disk \in Config /\ TypeOK
    BY DEF FlowInv, TypeOK
  <1>2. CASE kind[r] \notin AccountKinds \cup {"restore"}
    <2>1. Fingerprint(d, n) = Fingerprint(disk, n)
      BY <1>1, <1>2, EditsType, SameFingerprint DEF SameAccounts
    <2>2. QED BY <1>2, <2>1 DEF AccountKinds
  <1>3. CASE kind[r] \in {"add_group", "edit_group", "delete_group", "delete_user"}
    BY <1>1, <1>3, EditOf, GroupFingerprint, DeleteFingerprint
  <1>4. CASE kind[r] \in {"reset_password", "change_password"}
    BY <1>1, <1>4, EditOf, PasswordFingerprint DEF NewPasswords
  <1>5. CASE kind[r] \in {"create_user", "restore"}
    BY <1>5 DEF NewPasswords
  <1>6. QED BY <1>2, <1>3, <1>4, <1>5 DEF AccountKinds

(* The way through the lock: the settings are loaded and edited, saved,    *)
(* and left; and only a save changes them. *)
LEMMA WayOfDraft ==
  ASSUME FlowInv, NEW r \in Requests, RequestStep(r)
  PROVE  /\ \/ pc'[r] \notin {"saving", "filing"}
            \/ /\ pc[r] = "saving" /\ pc'[r] = "filing"
               /\ UNCHANGED <<base, draft>>
            \/ /\ pc'[r] = "saving" /\ base'[r] = disk
               /\ draft'[r] \in Edits(disk, r)
         /\ \/ UNCHANGED disk
            \/ pc[r] = "saving" /\ pc'[r] = "filing" /\ disk' = draft[r]
         /\ pc'[r] = "stamping" => base'[r] = disk /\ UNCHANGED disk
  <1> USE DEF FlowInv, TypeOK, Ends, GoesOn, stores
  <1>1. CASE Ask(r) \/ LoginAsk(r)
    BY <1>1 DEF Ask, LoginAsk, Arrives
  <1>2. CASE Fetch(r)
    BY <1>2 DEF Fetch
  <1>3. CASE Take(r)
    <2>1. UNCHANGED disk
      BY <1>3 DEF Take
    <2>2. CASE Ends(r)
      BY <2>1, <2>2
    <2>3. CASE ~Ends(r)
      <3>1. PICK new \in Edits(disk, r) :
                 /\ base' = [base EXCEPT ![r] = disk]
                 /\ draft' = [draft EXCEPT ![r] = new]
                 /\ pc' = [pc EXCEPT ![r] = "saving"]
        BY <1>3, <2>3 DEF Take
      <3>2. QED BY <2>1, <3>1
    <2>4. QED BY <2>2, <2>3
  <1>4. CASE Save(r) \/ SaveFails(r)
    BY <1>4 DEF Save, SaveFails
  <1>5. CASE Finish(r)
    BY <1>5 DEF Finish
  <1>6. CASE RestoreKey(r) \/ RestoreLogo(r) \/ RestoreLists(r)
    BY <1>6 DEF RestoreKey, RestoreLogo, RestoreLists
  <1>7. CASE BackupSettings(r) \/ BackupKey(r) \/ BackupLogo(r) \/ BackupLists(r)
    BY <1>7 DEF BackupSettings, BackupKey, BackupLogo, BackupLists, Packs
  <1>8. CASE LoginCheck(r) \/ LoginStamp(r)
    BY <1>8 DEF LoginCheck, LoginStamp
  <1>9. QED
    BY <1>1, <1>2, <1>3, <1>4, <1>5, <1>6, <1>7, <1>8 DEF RequestStep

LEMMA RequestDraft ==
  ASSUME FlowInv, AdminInv, SessionInv, NEW r \in Requests, RequestStep(r)
  PROVE  \A q \in Requests : DraftOf(q)'
  <1>1. UNCHANGED kind
    BY KindStays
  <1>2. ASSUME NEW q \in Requests, q # r PROVE DraftOf(q)'
    <2>1. pc'[q] = pc[q] /\ base'[q] = base[q] /\ draft'[q] = draft[q]
      BY <1>2, OthersStay DEF FlowInv
    <2>2. QED BY <1>1, <2>1 DEF SessionInv, DraftOf
  <1>3. DraftOf(r)'
    <2>1. CASE pc'[r] \notin {"saving", "filing"}
      BY <2>1 DEF DraftOf
    <2>2. CASE pc[r] = "saving" /\ pc'[r] = "filing" /\ UNCHANGED <<base, draft>>
      BY <1>1, <2>2 DEF SessionInv, DraftOf
    <2>3. CASE pc'[r] = "saving" /\ base'[r] = disk /\ draft'[r] \in Edits(disk, r)
      <3>1. Staffing(disk)
        BY DEF AdminInv
      <3>2. QED BY <1>1, <2>3, <3>1, EditFingerprint DEF DraftOf
    <2>4. QED BY <2>1, <2>2, <2>3, WayOfDraft
  <1>4. QED BY <1>2, <1>3

(* Whoever saves while a login is in its last step takes passwords away at *)
(* most. *)
LEMMA RequestStamp ==
  ASSUME FlowInv, ApartInv, SessionInv, NEW r \in Requests, RequestStep(r),
         \A k \in NewPasswords : {"login", k} \in Apart
  PROVE  \A q \in Requests : StampOf(q)'
  <1>1. CASE UNCHANGED disk
    <2>1. ASSUME NEW q \in Requests, q # r PROVE StampOf(q)'
      <3>1. pc'[q] = pc[q] /\ base'[q] = base[q] /\ who'[q] = who[q]
        BY <2>1, OthersStay DEF FlowInv
      <3>2. QED BY <1>1, <3>1 DEF SessionInv, StampOf
    <2>2. StampOf(r)'
      BY <1>1, WayOfDraft DEF StampOf
    <2>3. QED BY <2>1, <2>2
  <1>2. CASE pc[r] = "saving" /\ pc'[r] = "filing" /\ disk' = draft[r]
    <2>1. StampOf(r)'
      BY <1>2 DEF StampOf
    <2>2. ASSUME NEW q \in Requests, q # r, pc'[q] = "stamping" PROVE StampOf(q)'
      <3>1. pc'[q] = pc[q] /\ base'[q] = base[q] /\ who'[q] = who[q]
        BY <2>2, OthersStay DEF FlowInv
      <3>2. kind[q] = "login" /\ base[r] = disk
        BY <1>2, <2>2, <3>1 DEF FlowInv, LockInv, LockOf
      <3>3. kind[r] \notin NewPasswords
        BY <1>2, <2>2, <3>1, <3>2 DEF ApartInv, UnderWay
      <3>4. Fingerprint(draft[r], who[q]) \in {Fingerprint(disk, who[q]), "none"}
        BY <1>2, <3>2, <3>3 DEF SessionInv, DraftOf
      <3>5. Fingerprint(disk, who[q]) \in {Fingerprint(base[q], who[q]), "none"}
        BY <2>2, <3>1 DEF SessionInv, StampOf
      <3>6. QED BY <1>2, <3>1, <3>4, <3>5 DEF StampOf
    <2>3. QED BY <2>1, <2>2 DEF StampOf
  <1>3. QED BY <1>1, <1>2, WayOfDraft

LEMMA RequestSession ==
  ASSUME FlowInv, SessionInv, NEW r \in Requests, RequestStep(r), NEW b \in Browsers
  PROVE  session'[b].stamp \in {session'[b].opened, "none"}
  <1>1. session \in [Browsers -> Sessions]
    BY DEF FlowInv, TypeOK
  <1>2. CASE Finish(r)
    <2>1. CASE ~Restamped(r)
      BY <1>2, <2>1 DEF Finish, SessionInv
    <2>2. CASE Restamped(r)
      <3>1. Fingerprint(disk, who[r]) = r
        <4>1. draft[r] = disk
          BY <1>2 DEF Finish, FlowInv, LockInv, LockOf
        <4>2. QED BY <1>2, <2>2, <4>1 DEF Restamped, Finish, SessionInv, DraftOf
      <3>2. session' = [session EXCEPT ![from[r]] = [name |-> who[r], opened |-> r, stamp |-> r]]
        BY <1>2, <2>2, <3>1 DEF Finish
      <3>3. CASE b = from[r]
        BY <1>1, <3>2, <3>3
      <3>4. CASE b # from[r]
        BY <1>1, <3>2, <3>4 DEF SessionInv
      <3>5. QED BY <3>3, <3>4
    <2>3. QED BY <2>1, <2>2
  <1>3. CASE LoginStamp(r)
    <2>1. Fingerprint(disk, who[r]) \in {Fingerprint(base[r], who[r]), "none"}
      BY <1>3 DEF LoginStamp, SessionInv, StampOf
    <2>2. CASE b = from[r]
      BY <1>1, <1>3, <2>1, <2>2 DEF LoginStamp
    <2>3. CASE b # from[r]
      BY <1>1, <1>3, <2>3 DEF LoginStamp, SessionInv
    <2>4. QED BY <2>2, <2>3
  <1>4. CASE UNCHANGED session
    BY <1>4 DEF SessionInv
  <1>5. QED
    BY <1>2, <1>3, <1>4
    DEF RequestStep, Ask, Fetch, Take, Save, SaveFails, RestoreKey, RestoreLogo,
        RestoreLists, BackupSettings, BackupKey, BackupLogo, BackupLists, Packs,
        LoginAsk, LoginCheck

(* Nobody arrives while a kind that is kept apart from theirs is under way.*)
LEMMA RequestApart ==
  ASSUME FlowInv, ApartInv, NEW r \in Requests, RequestStep(r)
  PROVE  ApartInv'
  <1>1. UNCHANGED kind /\ \A q \in Requests \ {r} : pc'[q] = pc[q]
    BY KindStays, OthersStay DEF FlowInv
  <1>2. CASE UnderWay(r) \/ ~UnderWay(r)'
    <2>1. \A q \in Requests : UnderWay(q)' => UnderWay(q)
      BY <1>1, <1>2 DEF UnderWay
    <2>2. QED BY <1>1, <2>1 DEF ApartInv
  <1>3. CASE ~UnderWay(r) /\ UnderWay(r)'
    <2>1. Arrives(r)
      BY <1>3
      DEF RequestStep, Ask, Fetch, Take, Save, SaveFails, Finish, RestoreKey, RestoreLogo,
          RestoreLists, BackupSettings, BackupKey, BackupLogo, BackupLists, Packs,
          LoginAsk, LoginCheck, LoginStamp, UnderWay
    <2>2. \A q \in Requests : UnderWay(q) => {kind[q], kind[r]} \notin Apart
      BY <2>1 DEF Arrives
    <2>3. \A q \in Requests : q # r /\ UnderWay(q)' => UnderWay(q)
      BY <1>1 DEF UnderWay
    <2>4. ASSUME NEW p \in Requests, NEW q \in Requests, p # q,
                 UnderWay(p)', UnderWay(q)'
          PROVE  {kind[p], kind[q]} \notin Apart
      <3>1. CASE p = r
        <4>1. {kind[q], kind[p]} = {kind[p], kind[q]}
          OBVIOUS
        <4>2. QED BY <2>2, <2>3, <2>4, <3>1, <4>1
      <3>2. CASE q = r
        BY <2>2, <2>3, <2>4, <3>2
      <3>3. CASE p # r /\ q # r
        BY <2>3, <2>4, <3>3 DEF ApartInv
      <3>4. QED BY <3>1, <3>2, <3>3
    <2>5. QED BY <1>1, <2>4 DEF ApartInv
  <1>4. QED BY <1>2, <1>3

LEMMA ByItselfApart ==
  ASSUME FlowInv, ApartInv,
         (\E b \in Browsers : Logout(b)) \/ WindowEnds \/ Restart \/ UNCHANGED vars
  PROVE  ApartInv'
  <1>1. \A q \in Requests : pc'[q] = pc[q] \/ pc'[q] = "done"
    BY DEF Logout, WindowEnds, Restart, vars, requestVars, FlowInv, TypeOK
  <1>2. UNCHANGED kind
    BY DEF Logout, WindowEnds, Restart, vars, requestVars
  <1>3. QED BY <1>1, <1>2 DEF ApartInv, UnderWay

LEMMA NextSession ==
  ASSUME FlowInv, AdminInv, ApartInv, SessionInv, [Next]_vars,
         \A k \in NewPasswords : {"login", k} \in Apart
  PROVE  ApartInv' /\ SessionInv'
  <1>1. ASSUME NEW r \in Requests, RequestStep(r) PROVE ApartInv' /\ SessionInv'
    BY <1>1, RequestApart, RequestDraft, RequestStamp, RequestSession DEF SessionInv
  <1>2. CASE WindowEnds \/ UNCHANGED vars
    BY <1>2
    DEF WindowEnds, vars, stores, requestVars, ApartInv, UnderWay, SessionInv, StampOf, DraftOf
  <1>3. ASSUME NEW c \in Browsers, Logout(c) PROVE ApartInv' /\ SessionInv'
    <2>1. UNCHANGED <<disk, kind, pc, who, base, draft>>
      BY <1>3 DEF Logout, stores, requestVars
    <2>2. \A b \in Browsers : session'[b] \in {session[b], NoSession}
      BY <1>3 DEF Logout, FlowInv, TypeOK
    <2>3. QED
      BY <2>1, <2>2 DEF ApartInv, UnderWay, SessionInv, StampOf, DraftOf, NoSession
  <1>4. CASE Restart
    <2>1. /\ UNCHANGED session
          /\ \A q \in Requests : pc'[q] \in {"new", "done"}
      BY <1>4 DEF Restart, UnderWay, FlowInv, TypeOK
    <2>2. QED BY <2>1 DEF ApartInv, UnderWay, SessionInv, StampOf, DraftOf
  <1>5. QED BY <1>1, <1>2, <1>3, <1>4 DEF Next, RequestStep

LEMMA InitSession == ASSUME Init PROVE ApartInv /\ SessionInv
  <1>1. \A r \in Requests : pc[r] = "new"
    BY DEF Init
  <1>2. \A b \in Browsers : session[b].stamp = session[b].opened
    BY DEF Init, NoSession
  <1>3. QED BY <1>1, <1>2 DEF ApartInv, UnderWay, SessionInv, StampOf, DraftOf

(* A session is honoured only with the password its account has, whoever   *)
(* changes, resets, deletes or restores it meanwhile; where nobody logs in *)
(* while a new password is being set. *)
THEOREM OldPasswordOut ==
  ASSUME \A m \in Foreign : Staffing(m.config),
         \A k \in NewPasswords : {"login", k} \in Apart
  PROVE  Spec => []OldPasswordIsOut
  <1>1. Init => FlowInv /\ AdminInv /\ ApartInv /\ SessionInv
    BY InitFlow, InitAdmin, InitSession
  <1>2. FlowInv /\ AdminInv /\ ApartInv /\ SessionInv /\ [Next]_vars
        => FlowInv' /\ AdminInv' /\ ApartInv' /\ SessionInv'
    BY NextFlow, NextAdmin, NextSession
  <1>3. SessionInv => OldPasswordIsOut
    BY DEF SessionInv, OldPasswordIsOut, Valid
  <1>4. QED BY <1>1, <1>2, <1>3, PTL DEF Spec

-----------------------------------------------------------------------------
(* What the settings name is there.                                        *)

(* The account edits leave lists, secrets and logo alone, ... *)
SameFiles(c, d) ==
    /\ d.lists = c.lists /\ d.template = c.template
    /\ d.share = c.share /\ d.feed = c.feed /\ d.logo = c.logo

LEMMA AccountEditsFiles ==
  ASSUME NEW c \in Config, NEW r \in Requests
  PROVE  \A d \in CreateUser(c, r) \cup DeleteUser(c, r) \cup ResetPassword(c, r)
                  \cup ChangePassword(c, r) \cup AddGroup(c, r) \cup EditGroup(c, r)
                  \cup DeleteGroup(c, r) :
             SameFiles(c, d)
  <1> USE DEF Config, SameFiles
  <1>1. ASSUME NEW d \in CreateUser(c, r) PROVE SameFiles(c, d)
    <2>1. PICK x \in (Names \ UsersOf(c)) \X GroupsOf(c) :
               d = [c EXCEPT !.users[x[1]] = [group |-> x[2], pw |-> r],
                             !.installer = IF UsersOf(c) = {} THEN "none" ELSE @]
      BY <1>1, Zenon DEF CreateUser
    <2>2. QED BY <2>1
  <1>2. ASSUME NEW d \in DeleteUser(c, r) PROVE SameFiles(c, d)
    <2>1. PICK m \in UsersOf(c) : d = [c EXCEPT !.users[m] = None]
      BY <1>2, Zenon DEF DeleteUser
    <2>2. QED BY <2>1
  <1>3. ASSUME NEW d \in ResetPassword(c, r) \cup ChangePassword(c, r) PROVE SameFiles(c, d)
    <2>1. \/ d = [c EXCEPT !.installer = r]
          \/ \E n \in UsersOf(c) : d = [c EXCEPT !.users[n].pw = r]
      BY <1>3, Zenon DEF ResetPassword, ChangePassword
    <2>2. QED BY <2>1
  <1>4. ASSUME NEW d \in AddGroup(c, r) PROVE SameFiles(c, d)
    <2>1. PICK x \in (Custom \ c.groups) \X BOOLEAN :
               d = [c EXCEPT !.groups = @ \cup {x[1]},
                             !.managers = IF x[2] THEN @ \cup {x[1]} ELSE @ \ {x[1]}]
      BY <1>4, Zenon DEF AddGroup
    <2>2. QED BY <2>1
  <1>5. ASSUME NEW d \in EditGroup(c, r) PROVE SameFiles(c, d)
    BY <1>5 DEF EditGroup
  <1>6. ASSUME NEW d \in DeleteGroup(c, r) PROVE SameFiles(c, d)
    <2>1. \E g, u : d = [c EXCEPT !.groups = @ \ {g}, !.managers = @ \ {g}, !.users = u]
      <3>1. PICK g \in c.groups :
                 d = [c EXCEPT !.groups = @ \ {g}, !.managers = @ \ {g},
                               !.users = [m \in Names |-> IF m \in UsersOf(c) /\ @[m].group = g
                                          THEN [@[m] EXCEPT !.group = "analyst"] ELSE @[m]]]
        BY <1>6, Zenon DEF DeleteGroup
      <3>2. QED BY <3>1
    <2>2. QED BY <2>1
  <1>7. QED BY <1>1, <1>2, <1>3, <1>4, <1>5, <1>6

(* ... those of lists leave secrets and logo, ... *)
SameSecrets(c, d) == d.share = c.share /\ d.feed = c.feed /\ d.logo = c.logo

(* A default template that is among the lists stays one. *)
Templated(c) == c.template \in c.lists \cup {"standard"}

LEMMA SortEditsFiles ==
  ASSUME NEW c \in Config, NEW sort \in SUBSET Lists
  PROVE  /\ \A d \in Added(c, sort) : /\ SameSecrets(c, d) /\ d.template = c.template
                                      /\ \E l \in sort : d.lists = c.lists \cup {l}
         /\ \A d \in Rewritten(c, sort) : d = c
         /\ \A d \in Deleted(c, sort) : /\ SameSecrets(c, d) /\ d.template = c.template
                                        /\ \E l \in sort : d.lists = c.lists \ {l}
  <1> USE DEF Config, SameSecrets
  <1>1. ASSUME NEW d \in Added(c, sort)
        PROVE  /\ SameSecrets(c, d) /\ d.template = c.template
               /\ \E l \in sort : d.lists = c.lists \cup {l}
    <2>1. PICK l \in sort : d = [c EXCEPT !.lists = @ \cup {l}]
      BY <1>1, Zenon DEF Added
    <2>2. QED BY <2>1
  <1>2. ASSUME NEW d \in Deleted(c, sort)
        PROVE  /\ SameSecrets(c, d) /\ d.template = c.template
               /\ \E l \in sort : d.lists = c.lists \ {l}
    <2>1. PICK l \in sort : d = [c EXCEPT !.lists = @ \ {l}]
      BY <1>2, Zenon DEF Deleted
    <2>2. QED BY <2>1
  <1>3. QED BY <1>1, <1>2 DEF Rewritten

LEMMA ListEditsFiles ==
  ASSUME NEW c \in Config, NEW r \in Requests, Templated(c)
  PROVE  /\ \A d \in AddList(c, r) \cup ChangeList(c, r) \cup ImportBundled(c, r)
                  \cup refresh_malwarebazaar_hash_list(c, r)
                  \cup refresh_urlhaus_url_list(c, r) \cup ChooseTemplate(c, r) :
             SameSecrets(c, d) /\ Templated(d)
         /\ \A d \in ChangeList(c, r) : d.lists \subseteq c.lists
         /\ \A d \in ImportBundled(c, r) : d.lists \subseteq c.lists \cup Words
         /\ \A d \in refresh_malwarebazaar_hash_list(c, r) : d.lists = c.lists \cup {Bazaar}
         /\ \A d \in refresh_urlhaus_url_list(c, r) : d.lists = c.lists \cup {Haus}
         /\ \A d \in ChooseTemplate(c, r) : d.lists = c.lists
  <1>0. c.template \in Templates \cup {"standard"} /\ c.lists \in SUBSET Lists
    BY DEF Config
  <1>1. ASSUME NEW d \in AddList(c, r) PROVE SameSecrets(c, d) /\ Templated(d)
    <2>1. SameSecrets(c, d) /\ d.template = c.template /\ c.lists \subseteq d.lists
      BY <1>1, SortEditsFiles, SortsAreLists
      DEF AddList, keyword_lists, hash_lists, url_lists, yara_rules, report_templates_custom
    <2>2. QED BY <2>1 DEF Templated
  <1>2. ASSUME NEW sort \in {Words, Hashes, Urls, Rules}, NEW d \in Rewritten(c, sort) \cup Deleted(c, sort)
        PROVE  SameSecrets(c, d) /\ Templated(d) /\ d.lists \subseteq c.lists
    <2>1. CASE d = c
      BY <2>1 DEF SameSecrets
    <2>2. CASE d # c
      <3>1. sort \in SUBSET Lists /\ sort \cap Templates = {}
        BY SortsAreLists, SettingsAssumption
      <3>2. PICK l \in sort : /\ SameSecrets(c, d) /\ d.template = c.template
                              /\ d.lists = c.lists \ {l}
        BY <1>2, <2>2, <3>1, SortEditsFiles
      <3>3. d.template = "standard" \/ (d.template \in Templates /\ d.template # l)
        BY <1>0, <3>1, <3>2
      <3>4. QED BY <3>2, <3>3 DEF Templated
    <2>3. QED BY <2>1, <2>2
  <1>3. ASSUME NEW d \in report_templates_custom_detail(c)
        PROVE  SameSecrets(c, d) /\ Templated(d) /\ d.lists \subseteq c.lists
    <2>1. CASE d \in Rewritten(c, Templates)
      BY <2>1, SortEditsFiles, SortsAreLists DEF SameSecrets
    <2>2. CASE d \notin Rewritten(c, Templates)
      <3>1. PICK e \in Deleted(c, Templates) :
                 d = [e EXCEPT !.template = IF @ \in e.lists THEN @ ELSE "standard"]
        BY <1>3, <2>2, Zenon DEF report_templates_custom_detail
      <3>2. e \in Config /\ SameSecrets(c, e) /\ e.lists \subseteq c.lists
        BY SortEdits, SortEditsFiles, SortsAreLists
      <3>3. /\ d.lists = e.lists /\ SameSecrets(e, d)
            /\ d.template = IF e.template \in e.lists THEN e.template ELSE "standard"
        BY <3>1, <3>2 DEF Config, SameSecrets
      <3>4. QED BY <3>2, <3>3 DEF SameSecrets, Templated
    <2>3. QED BY <2>1, <2>2
  <1>4. ASSUME NEW d \in ChangeList(c, r)
        PROVE  SameSecrets(c, d) /\ Templated(d) /\ d.lists \subseteq c.lists
    BY <1>2, <1>3, <1>4
    DEF ChangeList, keyword_list_detail, hash_list_detail, url_list_detail, yara_rule_detail
  <1>5. ASSUME NEW d, NEW l, d = [c EXCEPT !.lists = @ \cup l]
        PROVE  SameSecrets(c, d) /\ Templated(d) /\ d.lists = c.lists \cup l
    BY <1>5 DEF Config, SameSecrets, Templated
  <1>6. ASSUME NEW d \in ImportBundled(c, r)
        PROVE  SameSecrets(c, d) /\ Templated(d) /\ d.lists \subseteq c.lists \cup Words
    <2>1. PICK l \in SUBSET Words : d = [c EXCEPT !.lists = @ \cup l]
      BY <1>6, Zenon DEF ImportBundled
    <2>2. QED BY <1>5, <2>1
  <1>7. ASSUME NEW d \in refresh_malwarebazaar_hash_list(c, r)
        PROVE  SameSecrets(c, d) /\ Templated(d) /\ d.lists = c.lists \cup {Bazaar}
    BY <1>5, <1>7 DEF refresh_malwarebazaar_hash_list
  <1>8. ASSUME NEW d \in refresh_urlhaus_url_list(c, r)
        PROVE  SameSecrets(c, d) /\ Templated(d) /\ d.lists = c.lists \cup {Haus}
    BY <1>5, <1>8 DEF refresh_urlhaus_url_list
  <1>9. ASSUME NEW d \in ChooseTemplate(c, r)
        PROVE  SameSecrets(c, d) /\ Templated(d) /\ d.lists = c.lists
    <2>1. PICK t \in {"standard"} \cup (c.lists \cap Templates) : d = [c EXCEPT !.template = t]
      BY <1>9, Zenon DEF ChooseTemplate
    <2>2. d.template = t /\ d.lists = c.lists /\ SameSecrets(c, d)
      BY <2>1 DEF Config, SameSecrets
    <2>3. QED BY <2>1, <2>2 DEF Templated
  <1>10. QED BY <1>1, <1>4, <1>6, <1>7, <1>8, <1>9

(* ... and those of secrets and logo leave lists and template. *)
LEMMA SecretAndBrandEditsFiles ==
  ASSUME NEW c \in Config, NEW r \in Requests
  PROVE  /\ \A d \in AddShare(c, r) \cup DropShare(c, r) \cup SetFeedKey(c, r)
                     \cup SetKiosk(c, r) \cup UploadLogo(c, r) \cup ClearLogo(c, r) :
             d.lists = c.lists /\ d.template = c.template
         /\ \A d \in AddShare(c, r) : d.share = KeyInUse /\ d.feed = c.feed /\ d.logo = c.logo
         /\ \A d \in DropShare(c, r) : d.share = "none" /\ d.feed = c.feed /\ d.logo = c.logo
         /\ \A d \in SetFeedKey(c, r) : /\ d.feed \in {KeyInUse, "none"}
                                        /\ d.share = c.share /\ d.logo = c.logo
         /\ \A d \in SetKiosk(c, r) : SameSecrets(c, d)
         /\ \A d \in UploadLogo(c, r) : /\ d.share = c.share /\ d.feed = c.feed
                                        /\ d.logo \in Extensions
         /\ \A d \in ClearLogo(c, r) : /\ d.share = c.share /\ d.feed = c.feed
                                       /\ d.logo = "none"
  <1> USE DEF Config, SameSecrets
  <1>1. /\ \A k : LET d == [c EXCEPT !.share = k]
                  IN /\ d.lists = c.lists /\ d.template = c.template
                     /\ d.share = k /\ d.feed = c.feed /\ d.logo = c.logo
        /\ \A k : LET d == [c EXCEPT !.feed = k]
                  IN /\ d.lists = c.lists /\ d.template = c.template
                     /\ d.share = c.share /\ d.feed = k /\ d.logo = c.logo
        /\ \A k : LET d == [c EXCEPT !.logo = k]
                  IN /\ d.lists = c.lists /\ d.template = c.template
                     /\ d.share = c.share /\ d.feed = c.feed /\ d.logo = k
    OBVIOUS
  <1>2. \A k : LET d == [c EXCEPT !.kiosk = k]
               IN d.lists = c.lists /\ d.template = c.template /\ SameSecrets(c, d)
    OBVIOUS
  <1>3. QED
    BY <1>1, <1>2 DEF AddShare, DropShare, SetFeedKey, SetKiosk, UploadLogo, ClearLogo

(* Every account is in a group there is. *)
Grouped(c) == \A n \in UsersOf(c) : c.users[n].group \in GroupsOf(c)

LEMMA SameGrouped ==
  ASSUME NEW c, NEW d, d.users = c.users, c.groups \subseteq d.groups, Grouped(c)
  PROVE  Grouped(d)
  BY DEF Grouped, UsersOf, GroupsOf

LEMMA AccountGrouped ==
  ASSUME NEW c \in Config, NEW r \in Requests, Grouped(c),
         NEW d \in CreateUser(c, r) \cup DeleteUser(c, r) \cup ResetPassword(c, r)
                   \cup ChangePassword(c, r)
  PROVE  Grouped(d)
  <1> USE DEF Config
  <1>0. c.users \in [Names -> Accounts \cup {None}]
    OBVIOUS
  <1>1. CASE d \in CreateUser(c, r)
    <2>1. PICK x \in (Names \ UsersOf(c)) \X GroupsOf(c) :
               d = [c EXCEPT !.users[x[1]] = [group |-> x[2], pw |-> r],
                             !.installer = IF UsersOf(c) = {} THEN "none" ELSE @]
      BY <1>1, Zenon DEF CreateUser
    <2>2. /\ d.users = [c.users EXCEPT ![x[1]] = [group |-> x[2], pw |-> r]]
          /\ d.groups = c.groups
      BY <2>1
    <2>3. x[1] \in Names /\ x[2] \in GroupsOf(c)
      OBVIOUS
    <2>4. QED BY <1>0, <2>2, <2>3 DEF Grouped, UsersOf, GroupsOf
  <1>2. CASE d \in DeleteUser(c, r)
    <2>1. PICK m \in UsersOf(c) : d = [c EXCEPT !.users[m] = None]
      BY <1>2, Zenon DEF DeleteUser
    <2>2. d.users = [c.users EXCEPT ![m] = None] /\ d.groups = c.groups /\ m \in Names
      BY <2>1 DEF UsersOf
    <2>3. QED BY <1>0, <2>2 DEF Grouped, UsersOf, GroupsOf
  <1>3. CASE d \in ResetPassword(c, r) \cup ChangePassword(c, r)
    <2>1. \/ d = [c EXCEPT !.installer = r]
          \/ \E n \in UsersOf(c) : d = [c EXCEPT !.users[n].pw = r]
      BY <1>3, Zenon DEF ResetPassword, ChangePassword
    <2>2. CASE d = [c EXCEPT !.installer = r]
      BY <2>2, SameGrouped
    <2>3. ASSUME NEW n \in UsersOf(c), d = [c EXCEPT !.users[n].pw = r] PROVE Grouped(d)
      <3>1. n \in Names /\ c.users[n] \in Accounts
        BY <1>0 DEF UsersOf
      <3>2. [c.users[n] EXCEPT !.pw = r].group = c.users[n].group
        BY <3>1 DEF Accounts
      <3>3. /\ d.users = [c.users EXCEPT ![n] = [c.users[n] EXCEPT !.pw = r]]
            /\ d.groups = c.groups
        BY <2>3, <3>1
      <3>4. QED BY <1>0, <3>1, <3>2, <3>3 DEF Grouped, UsersOf, GroupsOf
    <2>4. QED BY <2>1, <2>2, <2>3
  <1>4. QED BY <1>1, <1>2, <1>3

LEMMA GroupGrouped ==
  ASSUME NEW c \in Config, NEW r \in Requests, Grouped(c),
         NEW d \in AddGroup(c, r) \cup EditGroup(c, r) \cup DeleteGroup(c, r)
  PROVE  Grouped(d)
  <1>1. CASE d \in AddGroup(c, r)
    <2>1. PICK x \in (Custom \ c.groups) \X BOOLEAN :
               d = [c EXCEPT !.groups = @ \cup {x[1]},
                             !.managers = IF x[2] THEN @ \cup {x[1]} ELSE @ \ {x[1]}]
      BY <1>1, Zenon DEF AddGroup
    <2>2. d.users = c.users /\ c.groups \subseteq d.groups
      BY <2>1 DEF Config
    <2>3. QED BY <2>2, SameGrouped
  <1>2. CASE d \in EditGroup(c, r)
    <2>1. d.users = c.users /\ d.groups = c.groups
      BY <1>2 DEF EditGroup, Config
    <2>2. QED BY <2>1, SameGrouped
  <1>3. CASE d \in DeleteGroup(c, r)
    <2>1. PICK g \in c.groups :
               d = [c EXCEPT !.groups = @ \ {g}, !.managers = @ \ {g},
                             !.users = [m \in Names |-> IF m \in UsersOf(c) /\ @[m].group = g
                                        THEN [@[m] EXCEPT !.group = "analyst"] ELSE @[m]]]
      BY <1>3, Zenon DEF DeleteGroup
    <2>2. /\ d.users = [m \in Names |-> IF m \in UsersOf(c) /\ c.users[m].group = g
                                        THEN [c.users[m] EXCEPT !.group = "analyst"] ELSE c.users[m]]
          /\ d.groups = c.groups \ {g}
      BY <2>1 DEF Config
    <2>3. \A m \in UsersOf(c) : [c.users[m] EXCEPT !.group = "analyst"].group = "analyst"
      BY AccountType DEF Accounts
    <2>4. ASSUME NEW m \in UsersOf(d) PROVE m \in UsersOf(c)
      BY <2>2, <2>4 DEF UsersOf
    <2>5. QED BY <2>2, <2>3, <2>4 DEF Grouped, GroupsOf, UsersOf
  <1>4. QED BY <1>1, <1>2, <1>3

(* Settings whose own parts fit: so are those on disk, those about to be   *)
(* saved and those in backups. *)
Coherent(c) == Grouped(c) /\ Templated(c)

CoherentInv ==
    /\ Coherent(disk)
    /\ \A r \in Requests : Coherent(draft[r]) /\ Coherent(pack[r].config)
    /\ \A m \in backups : Coherent(m.config)

LEMMA CoherentEdits ==
  ASSUME FlowInv, CoherentInv, NEW r \in Requests, NEW d \in Edits(disk, r)
  PROVE  Coherent(d)
  <1>1. disk \in Config /\ TypeOK /\ Grouped(disk) /\ Templated(disk)
    BY DEF FlowInv, TypeOK, CoherentInv, Coherent
  <1>2. CASE kind[r] = "restore"
    <2>1. d \in Restored(disk, r)
      BY <1>2, EditOf
    <2>2. QED BY <2>1, RestoredIs DEF CoherentInv
  <1>3. CASE kind[r] \in AccountKinds
    <2>1. Grouped(d)
      BY <1>1, <1>3, EditOf, AccountGrouped, GroupGrouped DEF AccountKinds
    <2>2. SameFiles(disk, d)
      BY <1>1, <1>3, EditOf, AccountEditsFiles DEF AccountKinds
    <2>3. QED BY <1>1, <2>1, <2>2 DEF Coherent, Templated, SameFiles
  <1>4. CASE kind[r] \notin AccountKinds \cup {"restore"}
    <2>1. Grouped(d)
      BY <1>1, <1>4, EditsType, SameGrouped DEF SameAccounts
    <2>2. Templated(d) \/ (d.lists = disk.lists /\ d.template = disk.template)
      BY <1>1, <1>4, EditOf, ListEditsFiles, SecretAndBrandEditsFiles DEF AccountKinds
    <2>3. QED BY <1>1, <2>1, <2>2 DEF Coherent, Templated
  <1>5. QED BY <1>2, <1>3, <1>4

LEMMA NewStationCoherent ==
  Coherent(NewStation) /\ Coherent(NoBackup.config)
  BY DEF Coherent, Grouped, Templated, NewStation, NoBackup, UsersOf

LEMMA NextCoherent ==
  ASSUME FlowInv, CoherentInv, [Next]_vars PROVE CoherentInv'
  <1>1. ASSUME NEW r \in Requests, RequestStep(r) PROVE CoherentInv'
    <2>1. \A q \in Requests \ {r} : draft'[q] = draft[q] /\ pack'[q] = pack[q]
      BY <1>1, OthersStay DEF FlowInv
    <2>2. \A d \in Edits(disk, r) : Coherent(d)
      BY CoherentEdits
    <2>3. QED BY <1>1, <2>1, <2>2, RequestStores, NewStationCoherent DEF CoherentInv
  <1>2. CASE (\E b \in Browsers : Logout(b)) \/ WindowEnds \/ UNCHANGED vars
    BY <1>2 DEF CoherentInv, Logout, WindowEnds, vars, stores, requestVars
  <1>3. CASE Restart
    BY <1>3, NewStationCoherent DEF CoherentInv, Restart, stores
  <1>4. QED BY <1>1, <1>2, <1>3 DEF Next, RequestStep

LEMMA InitCoherent ==
  ASSUME Init, \A m \in Foreign : Coherent(m.config) PROVE CoherentInv
  <1>1. ASSUME NEW n \in Names PROVE Coherent(Staffed(n))
    <2>1. /\ Staffed(n).users = [NewStation.users EXCEPT ![n] = [group |-> "admin", pw |-> "first"]]
          /\ Staffed(n).template = "standard"
      BY DEF Staffed, NewStation
    <2>2. UsersOf(Staffed(n)) \subseteq {n} /\ Staffed(n).users[n].group = "admin"
      BY <2>1 DEF UsersOf, NewStation
    <2>3. QED BY <2>1, <2>2 DEF Coherent, Grouped, Templated, GroupsOf
  <1>2. QED BY <1>1, NewStationCoherent DEF Init, CoherentInv

(* What the settings c name is among the files fs, the key k and the logo  *)
(* files ls. *)
NamedIn(c, fs, k, ls) ==
    /\ c.lists \cap Filed \subseteq fs
    /\ {c.share, c.feed} \subseteq {k, "none"}
    /\ c.logo \in ls \cup {"none"}

Whole(m) ==
    /\ m.config.lists \cap Filed \subseteq m.data
    /\ {m.config.share, m.config.feed} \subseteq {m.key, "none"}
    /\ m.config.logo \in {m.logo, "none"}

FeedOf(r) == IF kind[r] = "refresh_hashes" THEN Bazaar ELSE Haus

(* A request that has downloaded a feed finds its file; what one saves is  *)
(* there before it is saved, unless it is a restore, ... *)
DraftFiles(r) ==
    /\ holder = r => pc[r] \in {"saving", "filing", "logo", "data"}
    /\ pc[r] = "fetched" => /\ kind[r] \in {"refresh_hashes", "refresh_urls"}
                            /\ FeedOf(r) \in files
    /\ pc[r] \in {"saving", "filing"} /\ kind[r] # "restore" =>
          NamedIn(draft[r], files, key, logos)

(* ... which has a whole backup and puts its parts back one by one; ...    *)
RestoreFiles(r) ==
    kind[r] = "restore" =>
    /\ pc[r] \in {"saving", "filing", "logo", "data"} =>
          pack[r].config = draft[r] /\ Whole(pack[r])
    /\ pc[r] \in {"logo", "data"} => {draft[r].share, draft[r].feed} \subseteq {key, "none"}
    /\ pc[r] = "data" => draft[r].logo \in logos \cup {"none"}

(* ... a backup finds what it has not yet packed.                          *)
BackupFiles(r) ==
    kind[r] = "backup" =>
    /\ pc[r] = "key" => NamedIn(pack[r].config, files, key, logos)
    /\ pc[r] = "logo" => NamedIn(pack[r].config, files, pack[r].key, logos)
    /\ pc[r] = "data" => NamedIn(pack[r].config, files, pack[r].key, {pack[r].logo})

FilesOf(r) == DraftFiles(r) /\ RestoreFiles(r) /\ BackupFiles(r)

FilesInv ==
    /\ Rearranging \/ NamedIn(disk, files, key, logos)
    /\ \A r \in Requests : FilesOf(r)
    /\ \A m \in backups : Whole(m)

(* Kinds that are kept apart here, and those that are not cut short. *)
BackupsAlone ==
    \A k \in {"restore", "change_list", "logo", "clear_logo"} : {"backup", k} \in Apart
FeedsAlone == \A k \in {"refresh_hashes", "refresh_urls"} : {k, "change_list"} \in Apart
RearrangedInOneGo == {"restore", "logo", "clear_logo"} \subseteq Uncut

(* More files, and the key that is made with the first secret, take        *)
(* nothing away. *)
LEMMA MoreFiles ==
  ASSUME NEW c, NEW fs, NEW k, NEW ls, NamedIn(c, fs, k, ls),
         NEW gs, fs \subseteq gs, NEW l, l = k \/ k = "none"
  PROVE  NamedIn(c, gs, l, ls)
  BY DEF NamedIn

LEMMA KeyMade == ASSUME NEW k, k = key \/ k = KeyInUse PROVE k = key \/ key = "none"
  BY DEF KeyInUse

(* What a request does to the files of others, ... *)
LEMMA RequestFiles ==
  ASSUME FlowInv, NEW r \in Requests, RequestStep(r)
  PROVE  /\ holder' \in {holder, r, None}
         /\ \/ files \subseteq files' /\ UNCHANGED <<key, logos>>
            \/ /\ UnderWay(r) /\ holder \in {r, None}
               /\ files \subseteq files' \/ kind[r] = "change_list"
               /\ key' = key \/ key = "none" \/ kind[r] = "restore"
               /\ logos' = logos \/ kind[r] \in {"logo", "clear_logo", "restore"}
  <1> USE DEF FlowInv, LockInv, LockOf, TypeOK, stores
  <1>1. CASE Ask(r) \/ LoginAsk(r) \/ LoginCheck(r) \/ LoginStamp(r)
    BY <1>1 DEF Ask, LoginAsk, LoginCheck, LoginStamp
  <1>2. CASE Fetch(r)
    BY <1>2 DEF Fetch
  <1>3. CASE Take(r)
    <2>1. CASE UNCHANGED <<holder, files, key, logos>>
      BY <2>1
    <2>2. CASE \E new \in Edits(disk, r) : holder' = r /\ Prepare(r, new)
      <3>1. PICK new \in Edits(disk, r) : holder' = r /\ Prepare(r, new)
        BY <2>2
      <3>2. files \subseteq files'
        BY <3>1 DEF Prepare
      <3>3. key' = key \/ key = "none"
        BY <3>1, KeyMade DEF Prepare
      <3>4. logos' = logos \/ kind[r] \in {"logo", "clear_logo"}
        BY <3>1 DEF Prepare
      <3>5. UnderWay(r) /\ holder = None
        BY <1>3 DEF Take, Free, UnderWay
      <3>6. QED BY <3>1, <3>2, <3>3, <3>4, <3>5
    <2>3. QED BY <1>3, <2>1, <2>2 DEF Take
  <1>4. CASE Save(r) \/ SaveFails(r)
    BY <1>4 DEF Save, SaveFails
  <1>5. CASE Finish(r)
    BY <1>5 DEF Finish, UnderWay
  <1>6. CASE RestoreKey(r) \/ RestoreLogo(r) \/ RestoreLists(r)
    BY <1>6 DEF RestoreKey, RestoreLogo, RestoreLists, UnderWay
  <1>7. CASE BackupSettings(r) \/ BackupKey(r) \/ BackupLogo(r) \/ BackupLists(r)
    BY <1>7 DEF BackupSettings, BackupKey, BackupLogo, BackupLists, Packs
  <1>8. QED
    BY <1>1, <1>2, <1>3, <1>4, <1>5, <1>6, <1>7 DEF RequestStep

(* ... which is nothing they need. *)
LEMMA OthersFiles ==
  ASSUME FlowInv, ApartInv, FilesInv, BackupsAlone, FeedsAlone,
         NEW r \in Requests, RequestStep(r), NEW q \in Requests, q # r
  PROVE  FilesOf(q)'
  <1>1. /\ pc'[q] = pc[q] /\ draft'[q] = draft[q] /\ pack'[q] = pack[q] /\ UNCHANGED kind
    BY OthersStay, KindStays DEF FlowInv
  <1>2. /\ DraftFiles(q) /\ RestoreFiles(q) /\ BackupFiles(q) /\ LockOf(q)
        /\ q # None
    BY SettingsAssumption DEF FilesInv, FilesOf, FlowInv, LockInv
  <1>3. holder' = q => holder = q
    BY <1>2, RequestFiles
  <1>4. CASE files \subseteq files' /\ UNCHANGED <<key, logos>>
    <2>1. \A c, k, ls : NamedIn(c, files, k, ls) => NamedIn(c, files', k, ls)
      BY <1>4, MoreFiles
    <2>2. DraftFiles(q)' /\ RestoreFiles(q)'
      BY <1>1, <1>2, <1>3, <1>4, <2>1 DEF DraftFiles, RestoreFiles, FeedOf
    <2>3. BackupFiles(q)'
      BY <1>1, <1>2, <1>4, <2>1 DEF BackupFiles
    <2>4. QED BY <2>2, <2>3 DEF FilesOf
  <1>5. CASE /\ UnderWay(r) /\ holder \in {r, None}
             /\ files \subseteq files' \/ kind[r] = "change_list"
             /\ key' = key \/ key = "none" \/ kind[r] = "restore"
             /\ logos' = logos \/ kind[r] \in {"logo", "clear_logo", "restore"}
    <2>1. holder # q
      BY <1>2, <1>5
    <2>2. DraftFiles(q)'
      <3>1. pc[q] \notin {"saving", "filing"}
        BY <1>2, <2>1 DEF LockOf
      <3>2. ASSUME pc[q] = "fetched"
            PROVE  kind[q] \in {"refresh_hashes", "refresh_urls"} /\ FeedOf(q) \in files'
        <4>1. kind[q] \in {"refresh_hashes", "refresh_urls"} /\ FeedOf(q) \in files
          BY <1>2, <3>2 DEF DraftFiles
        <4>2. kind[r] # "change_list"
          BY <1>5, <3>2, <4>1 DEF ApartInv, FeedsAlone, UnderWay
        <4>3. QED BY <1>5, <4>1, <4>2
      <3>3. QED BY <1>1, <1>3, <2>1, <3>1, <3>2 DEF DraftFiles, FeedOf
    <2>3. RestoreFiles(q)'
      BY <1>1, <1>2, <2>1 DEF RestoreFiles, LockOf
    <2>4. BackupFiles(q)'
      <3>1. SUFFICES ASSUME kind[q] = "backup", pc[q] \in {"key", "logo", "data"}
                     PROVE  BackupFiles(q)'
        BY <1>1 DEF BackupFiles
      <3>2. kind[r] \notin {"restore", "change_list", "logo", "clear_logo"}
        BY <1>5, <3>1 DEF ApartInv, BackupsAlone, UnderWay
      <3>3. /\ files \subseteq files' /\ logos' = logos
            /\ key' = key \/ key = "none"
        BY <1>5, <3>2
      <3>4. /\ \A c, k, ls : NamedIn(c, files, k, ls) => NamedIn(c, files', k, ls)
            /\ \A c, ls : NamedIn(c, files, key, ls) => NamedIn(c, files', key', ls)
        BY <3>3, MoreFiles
      <3>5. QED BY <1>1, <1>2, <3>3, <3>4 DEF BackupFiles
    <2>5. QED BY <2>2, <2>3, <2>4 DEF FilesOf
  <1>6. QED BY <1>4, <1>5, RequestFiles

(* What an edit adds to the settings is there once its files are written.  *)
LEMMA EditNames ==
  ASSUME FlowInv, Coherent(disk), NEW r \in Requests, NEW d \in Edits(disk, r),
         kind[r] # "restore"
  PROVE  /\ \/ d.lists \cap Filed \subseteq disk.lists
            \/ kind[r] = "add_list"
            \/ kind[r] \in {"refresh_hashes", "refresh_urls"}
               /\ d.lists = disk.lists \cup {FeedOf(r)}
         /\ \/ SameSecrets(disk, d) /\ kind[r] \notin {"logo", "clear_logo"}
            \/ /\ kind[r] \in {"add_share", "feed_key"}
               /\ {d.share, d.feed} \subseteq {disk.share, disk.feed, KeyInUse, "none"}
               /\ d.logo = disk.logo
            \/ /\ kind[r] = "drop_share" /\ d.logo = disk.logo
               /\ {d.share, d.feed} \subseteq {disk.feed, "none"}
            \/ kind[r] = "logo" /\ d.share = disk.share /\ d.feed = disk.feed
            \/ /\ kind[r] = "clear_logo" /\ d.logo = "none"
               /\ d.share = disk.share /\ d.feed = disk.feed
  <1>1. disk \in Config /\ TypeOK /\ Templated(disk)
    BY DEF FlowInv, TypeOK, Coherent
  <1>2. CASE kind[r] \in AccountKinds
    <2>1. SameFiles(disk, d)
      BY <1>1, <1>2, EditOf, AccountEditsFiles DEF AccountKinds
    <2>2. QED BY <1>2, <2>1 DEF SameFiles, SameSecrets, AccountKinds
  <1>3. CASE kind[r] \in {"add_list", "import_list", "change_list", "choose_template",
                          "refresh_hashes", "refresh_urls"}
    <2>1. SameSecrets(disk, d)
      BY <1>1, <1>3, EditOf, ListEditsFiles
    <2>2. \/ kind[r] = "add_list"
          \/ kind[r] \in {"change_list", "choose_template"} /\ d.lists \subseteq disk.lists
          \/ kind[r] = "import_list" /\ d.lists \subseteq disk.lists \cup Words
          \/ kind[r] = "refresh_hashes" /\ d.lists = disk.lists \cup {Bazaar}
          \/ kind[r] = "refresh_urls" /\ d.lists = disk.lists \cup {Haus}
      BY <1>1, <1>3, EditOf, ListEditsFiles
    <2>3. Words \cap Filed = {}
      BY SettingsAssumption DEF Filed
    <2>4. QED BY <1>3, <2>1, <2>2, <2>3 DEF FeedOf
  <1>4. CASE kind[r] \in {"add_share", "drop_share", "feed_key", "kiosk", "logo", "clear_logo"}
    <2>1. d.lists = disk.lists
      BY <1>1, <1>4, EditOf, SecretAndBrandEditsFiles
    <2>2. \/ kind[r] = "add_share" /\ d \in AddShare(disk, r)
          \/ kind[r] = "drop_share" /\ d \in DropShare(disk, r)
          \/ kind[r] = "feed_key" /\ d \in SetFeedKey(disk, r)
          \/ kind[r] = "kiosk" /\ d \in SetKiosk(disk, r)
          \/ kind[r] = "logo" /\ d \in UploadLogo(disk, r)
          \/ kind[r] = "clear_logo" /\ d \in ClearLogo(disk, r)
      BY <1>4, EditOf
    <2>3. QED BY <1>1, <2>1, <2>2, SecretAndBrandEditsFiles
  <1>5. QED BY <1>2, <1>3, <1>4, EditOf DEF AccountKinds

LEMMA PreparedFiles ==
  ASSUME FlowInv, Coherent(disk), NamedIn(disk, files, key, logos),
         NEW r \in Requests, NEW d \in Edits(disk, r), kind[r] # "restore",
         kind[r] \in {"refresh_hashes", "refresh_urls"} => FeedOf(r) \in files,
         Prepare(r, d)
  PROVE  /\ NamedIn(d, files', key', logos')
         /\ kind[r] \notin {"logo", "clear_logo"} => NamedIn(disk, files', key', logos')
  <1>1. files \subseteq files' /\ (key' = key \/ key = "none")
    BY KeyMade DEF Prepare
  <1>2. d.lists \cap Filed \subseteq files'
    <2>1. CASE kind[r] = "add_list"
      <3>1. files' = files \cup (Filed \cap (d.lists \ disk.lists))
        BY <2>1 DEF Prepare
      <3>2. QED BY <3>1 DEF NamedIn
    <2>2. CASE kind[r] # "add_list"
      BY <1>1, <2>2, EditNames DEF NamedIn
    <2>3. QED BY <2>1, <2>2
  <1>3. {d.share, d.feed} \subseteq {key', "none"}
    <2>1. kind[r] \in {"add_share", "feed_key"} => key' = KeyInUse
      BY DEF Prepare
    <2>2. {disk.share, disk.feed} \subseteq {key', "none"}
      BY <1>1 DEF NamedIn
    <2>3. QED BY <2>1, <2>2, EditNames DEF SameSecrets
  <1>4. kind[r] \notin {"logo", "clear_logo"} => logos' = logos
    BY DEF Prepare
  <1>5. d.logo \in logos' \cup {"none"}
    <2>1. CASE kind[r] = "logo"
      <3>1. logos' = {d.logo}
        BY <2>1 DEF Prepare
      <3>2. QED BY <3>1
    <2>2. CASE kind[r] # "logo"
      <3>1. d.logo = "none" \/ (d.logo = disk.logo /\ kind[r] # "clear_logo")
        BY <2>2, EditNames DEF SameSecrets
      <3>2. QED BY <1>4, <2>2, <3>1 DEF NamedIn
    <2>3. QED BY <2>1, <2>2
  <1>6. kind[r] \notin {"logo", "clear_logo"} => NamedIn(disk, files', key', logos')
    BY <1>1, <1>4, MoreFiles
  <1>7. QED BY <1>2, <1>3, <1>5, <1>6 DEF NamedIn

Parts == Rearranging \/ NamedIn(disk, files, key, logos)

LEMMA TakeFiles ==
  ASSUME FlowInv, CoherentInv, FilesInv, NEW r \in Requests, Take(r)
  PROVE  FilesOf(r)' /\ Parts'
  <1>0. /\ TypeOK /\ FilesOf(r) /\ UNCHANGED <<disk, kind>> /\ r # None /\ LockOf(r)
        /\ kind[r] \notin {"login", "backup"} /\ holder = None
    BY SettingsAssumption DEF FlowInv, FilesInv, Take, LockInv, Free
  <1>1. NamedIn(disk, files, key, logos)
    BY <1>0, SettingsAssumption DEF FilesInv, Rearranging
  <1>2. CASE Ends(r) /\ UNCHANGED <<holder, files, key, logos>>
    <2>1. pc'[r] = "done" /\ holder' # r
      BY <1>0, <1>2 DEF Ends, TypeOK
    <2>2. FilesOf(r)'
      BY <2>1 DEF FilesOf, DraftFiles, RestoreFiles, BackupFiles
    <2>3. QED BY <1>0, <1>1, <1>2, <2>2 DEF Parts
  <1>3. CASE ~(Ends(r) /\ UNCHANGED <<holder, files, key, logos>>)
    <2>1. PICK new \in Edits(disk, r) :
             /\ holder' = r
             /\ draft' = [draft EXCEPT ![r] = new]
             /\ IF kind[r] = "restore"
                THEN \E m \in backups : m.config = new /\ pack' = [pack EXCEPT ![r] = m]
                ELSE UNCHANGED pack
             /\ Prepare(r, new)
             /\ pc' = [pc EXCEPT ![r] = "saving"]
      BY <1>3, Zenon DEF Take
    <2>2. pc'[r] = "saving" /\ draft'[r] = new /\ holder' = r
      BY <1>0, <2>1 DEF TypeOK
    <2>3. CASE kind[r] = "restore"
      <3>1. PICK m \in backups : m.config = new /\ pack' = [pack EXCEPT ![r] = m]
        BY <2>1, <2>3
      <3>2. pack'[r].config = new /\ Whole(pack'[r])
        BY <1>0, <3>1 DEF TypeOK, FilesInv
      <3>3. FilesOf(r)'
        BY <1>0, <2>2, <2>3, <3>2 DEF FilesOf, DraftFiles, RestoreFiles, BackupFiles
      <3>4. Rearranging'
        BY <1>0, <2>2, <2>3 DEF Rearranging
      <3>5. QED BY <3>3, <3>4 DEF Parts
    <2>4. CASE kind[r] # "restore"
      <3>1. kind[r] \in {"refresh_hashes", "refresh_urls"} => FeedOf(r) \in files
        BY <1>0 DEF Take, FilesOf, DraftFiles
      <3>2. Coherent(disk)
        BY DEF CoherentInv
      <3>3. /\ NamedIn(new, files', key', logos')
            /\ kind[r] \notin {"logo", "clear_logo"} => NamedIn(disk, files', key', logos')
        BY <1>1, <2>1, <2>4, <3>1, <3>2, PreparedFiles
      <3>4. FilesOf(r)'
        BY <1>0, <2>2, <2>4, <3>3 DEF FilesOf, DraftFiles, RestoreFiles, BackupFiles
      <3>5. kind[r] \in {"logo", "clear_logo"} => Rearranging'
        BY <1>0, <2>2 DEF Rearranging
      <3>6. QED BY <1>0, <3>3, <3>4, <3>5 DEF Parts
    <2>5. QED BY <2>3, <2>4
  <1>4. QED BY <1>2, <1>3

(* A request that has nothing in hand names no file. *)
LEMMA EmptyHanded ==
  ASSUME NEW r, pc'[r] \in {"new", "asked", "stamping", "done"}, holder' # r
  PROVE  FilesOf(r)'
  BY DEF FilesOf, DraftFiles, RestoreFiles, BackupFiles

LEMMA SaveFiles ==
  ASSUME FlowInv, FilesInv, RearrangedInOneGo, NEW r \in Requests,
         Save(r) \/ SaveFails(r) \/ Finish(r)
  PROVE  FilesOf(r)' /\ Parts'
  <1>0. /\ TypeOK /\ FilesOf(r) /\ LockOf(r) /\ UNCHANGED kind /\ r # None
        /\ holder = r
    BY SettingsAssumption
    DEF FlowInv, FilesInv, LockInv, LockOf, Save, SaveFails, Finish
  <1>1. CASE Save(r)
    <2>1. /\ pc[r] = "saving" /\ pc'[r] = "filing" /\ disk' = draft[r]
          /\ UNCHANGED <<draft, pack, files, key, logos, holder>>
      BY <1>0, <1>1 DEF Save, GoesOn, TypeOK
    <2>2. FilesOf(r)'
      BY <1>0, <2>1 DEF FilesOf, DraftFiles, RestoreFiles, BackupFiles, LockOf
    <2>3. CASE kind[r] = "restore"
      BY <1>0, <2>1, <2>2, <2>3 DEF Parts, Rearranging
    <2>4. CASE kind[r] # "restore"
      BY <1>0, <2>1, <2>2, <2>4 DEF Parts, FilesOf, DraftFiles
    <2>5. QED BY <2>3, <2>4
  <1>2. CASE SaveFails(r)
    <2>1. NamedIn(disk, files, key, logos)
      BY <1>0, <1>2 DEF FilesInv, Rearranging, SaveFails, RearrangedInOneGo
    <2>2. pc'[r] = "done" /\ holder' = None /\ UNCHANGED <<disk, files, key, logos>>
      BY <1>0, <1>2 DEF SaveFails, Ends, TypeOK, stores
    <2>3. QED BY <1>0, <2>1, <2>2, EmptyHanded DEF Parts
  <1>3. CASE Finish(r)
    <2>1. NamedIn(disk, files, key, logos) /\ draft[r] = disk
      BY <1>0, <1>3 DEF Finish, FilesOf, DraftFiles, LockOf
    <2>2. /\ pc'[r] = "done" /\ holder' = None /\ UNCHANGED <<disk, key, logos>>
          /\ files' \in {files, files \ (base[r].lists \ draft[r].lists)}
      BY <1>0, <1>3 DEF Finish, Ends, TypeOK
    <2>3. disk.lists \cap Filed \subseteq files'
      BY <2>1, <2>2 DEF NamedIn
    <2>4. NamedIn(disk', files', key', logos')
      BY <2>1, <2>2, <2>3 DEF NamedIn
    <2>5. QED BY <1>0, <2>2, <2>4, EmptyHanded DEF Parts
  <1>4. QED BY <1>1, <1>2, <1>3

(* A restore puts back the key, the logo and the lists its settings name.  *)
LEMMA RestoredFiles ==
  ASSUME FlowInv, FilesInv, NEW r \in Requests,
         RestoreKey(r) \/ RestoreLogo(r) \/ RestoreLists(r)
  PROVE  FilesOf(r)' /\ Parts'
  <1>0. /\ TypeOK /\ RestoreFiles(r) /\ LockOf(r) /\ UNCHANGED <<disk, kind>> /\ r # None
        /\ holder = r /\ draft[r] = disk /\ kind[r] = "restore"
    BY SettingsAssumption
    DEF FlowInv, FilesInv, FilesOf, LockInv, LockOf, RestoreKey, RestoreLogo, RestoreLists
  <1>1. pack[r].config = disk /\ Whole(pack[r])
    BY <1>0 DEF RestoreFiles, RestoreKey, RestoreLogo, RestoreLists
  <1>2. CASE RestoreKey(r)
    <2>1. /\ pc'[r] = "logo" /\ UNCHANGED <<draft, pack, holder>>
          /\ key' = IF pack[r].key = "none" THEN key ELSE pack[r].key
      BY <1>0, <1>2 DEF RestoreKey, GoesOn, TypeOK
    <2>2. {disk.share, disk.feed} \subseteq {key', "none"}
      BY <1>1, <2>1 DEF Whole
    <2>3. FilesOf(r)'
      BY <1>0, <1>1, <2>1, <2>2 DEF FilesOf, DraftFiles, RestoreFiles, BackupFiles
    <2>4. QED BY <1>0, <2>1, <2>3 DEF Parts, Rearranging
  <1>3. CASE RestoreLogo(r)
    <2>1. /\ pc[r] = "logo" /\ pc'[r] = "data" /\ UNCHANGED <<draft, pack, holder, key>>
          /\ logos' = logos \cup ({pack[r].logo} \ {"none"})
      BY <1>0, <1>3 DEF RestoreLogo, GoesOn, TypeOK
    <2>2. disk.logo \in logos' \cup {"none"}
      BY <1>1, <2>1 DEF Whole
    <2>3. FilesOf(r)'
      BY <1>0, <1>1, <2>1, <2>2 DEF FilesOf, DraftFiles, RestoreFiles, BackupFiles
    <2>4. QED BY <1>0, <2>1, <2>3 DEF Parts, Rearranging
  <1>4. CASE RestoreLists(r)
    <2>1. /\ pc[r] = "data" /\ pc'[r] = "done" /\ holder' = None
          /\ files' = files \cup pack[r].data /\ UNCHANGED <<key, logos>>
      BY <1>0, <1>4 DEF RestoreLists, Ends, TypeOK
    <2>2. NamedIn(disk, files', key, logos)
      BY <1>0, <1>1, <2>1 DEF RestoreFiles, Whole, NamedIn
    <2>3. QED BY <1>0, <2>1, <2>2, EmptyHanded DEF Parts
  <1>5. QED BY <1>2, <1>3, <1>4

(* A backup finds all that the settings it packed name: the logo too, if   *)
(* all logos are files of one type. *)
LEMMA PackedFiles ==
  ASSUME FlowInv, ApartInv, FilesInv, BackupsAlone, \A e, f \in Extensions : e = f,
         NEW r \in Requests,
         BackupSettings(r) \/ BackupKey(r) \/ BackupLogo(r) \/ BackupLists(r)
  PROVE  FilesOf(r)' /\ UNCHANGED <<disk, files, key, logos, holder, kind>>
         /\ \A m \in backups' : Whole(m)
  <1>0. /\ TypeOK /\ BackupFiles(r) /\ LockOf(r) /\ kind[r] = "backup" /\ pack[r] \in Backup
        /\ UNCHANGED <<disk, files, key, logos, holder, kind>>
        /\ holder # r
    BY DEF FlowInv, FilesInv, FilesOf, LockInv, LockOf, TypeOK, BackupSettings, BackupKey,
           BackupLogo, BackupLists, Packs, stores
  <1>1. ASSUME NEW m, NEW next \in {"key", "logo", "data"}, Packs(r, m, next),
               next = "key" => NamedIn(m.config, files, key, logos),
               next = "logo" => NamedIn(m.config, files, m.key, logos),
               next = "data" => NamedIn(m.config, files, m.key, {m.logo})
        PROVE  FilesOf(r)' /\ UNCHANGED backups
    <2>1. pc'[r] = next /\ pack'[r] = m /\ UNCHANGED backups
      BY <1>0, <1>1 DEF Packs, TypeOK
    <2>2. QED
      BY <1>0, <1>1, <2>1 DEF FilesOf, DraftFiles, RestoreFiles, BackupFiles
  <1>2. \A m \in backups : Whole(m)
    BY DEF FilesInv
  <1>3. CASE BackupSettings(r)
    <2>1. ~Rearranging
      <3>1. SUFFICES ASSUME NEW q \in Requests, holder = q,
                            kind[q] \in {"restore", "logo", "clear_logo"}
                     PROVE  FALSE
        BY DEF Rearranging
      <3>2. UnderWay(q) /\ UnderWay(r) /\ q # r
        BY <1>0, <1>3, <3>1 DEF FilesInv, FilesOf, DraftFiles, UnderWay, BackupSettings
      <3>3. QED BY <1>0, <3>1, <3>2 DEF ApartInv, BackupsAlone
    <2>2. NamedIn(disk, files, key, logos)
      BY <2>1 DEF FilesInv
    <2>3. [NoBackup EXCEPT !.config = disk].config = disk
      BY NewStationType DEF Backup
    <2>4. QED BY <1>0, <1>1, <1>2, <1>3, <2>2, <2>3 DEF BackupSettings
  <1>4. CASE BackupKey(r)
    <2>1. LET m == [pack[r] EXCEPT !.key = key] IN m.config = pack[r].config /\ m.key = key
      BY <1>0 DEF Backup
    <2>2. NamedIn(pack[r].config, files, key, logos)
      BY <1>0, <1>4 DEF BackupKey, BackupFiles
    <2>3. QED BY <1>0, <1>1, <1>2, <1>4, <2>1, <2>2 DEF BackupKey
  <1>5. CASE BackupLogo(r)
    <2>1. PICK e \in IF logos = {} THEN {"none"} ELSE logos :
                 Packs(r, [pack[r] EXCEPT !.logo = e], "data")
      BY <1>5 DEF BackupLogo
    <2>2. LET m == [pack[r] EXCEPT !.logo = e]
          IN m.config = pack[r].config /\ m.key = pack[r].key /\ m.logo = e
      BY <1>0 DEF Backup
    <2>3. NamedIn(pack[r].config, files, pack[r].key, logos)
      BY <1>0, <1>5 DEF BackupLogo, BackupFiles
    <2>4. logos \subseteq {e}
      BY <1>0, <2>1 DEF TypeOK
    <2>5. NamedIn(pack[r].config, files, pack[r].key, {e})
      BY <2>3, <2>4 DEF NamedIn
    <2>6. QED BY <1>0, <1>1, <1>2, <2>1, <2>2, <2>5
  <1>6. CASE BackupLists(r)
    <2>1. NamedIn(pack[r].config, files, pack[r].key, {pack[r].logo})
      BY <1>0, <1>6 DEF BackupLists, BackupFiles
    <2>2. LET m == [pack[r] EXCEPT !.data = pack[r].config.lists \cap files]
          IN /\ m.config = pack[r].config /\ m.key = pack[r].key /\ m.logo = pack[r].logo
             /\ m.data = pack[r].config.lists \cap files
      BY <1>0 DEF Backup
    <2>3. Whole([pack[r] EXCEPT !.data = pack[r].config.lists \cap files])
      BY <2>1, <2>2 DEF Whole, NamedIn
    <2>4. \A m \in backups' : Whole(m)
      BY <1>2, <1>6, <2>3 DEF BackupLists
    <2>5. pc'[r] = "done"
      BY <1>0, <1>6 DEF BackupLists, Ends, TypeOK
    <2>6. QED BY <1>0, <2>4, <2>5, EmptyHanded
  <1>7. QED BY <1>3, <1>4, <1>5, <1>6

(* Who arrives, downloads a feed or logs in takes nothing away. *)
LEMMA FetchedFiles ==
  ASSUME FlowInv, FilesInv, NEW r \in Requests,
         Ask(r) \/ Fetch(r) \/ LoginAsk(r) \/ LoginCheck(r) \/ LoginStamp(r)
  PROVE  FilesOf(r)' /\ Parts' /\ UNCHANGED backups
  <1>0. /\ TypeOK /\ DraftFiles(r) /\ UNCHANGED <<disk, key, logos, holder, kind, backups>>
        /\ files \subseteq files'
    BY DEF FlowInv, FilesInv, FilesOf, Ask, Fetch, LoginAsk, LoginCheck, LoginStamp, stores
  <1>1. Parts'
    <2>1. CASE Rearranging
      BY <1>0, <2>1 DEF Parts, Rearranging
    <2>2. CASE NamedIn(disk, files, key, logos)
      BY <1>0, <2>2, MoreFiles DEF Parts
    <2>3. QED BY <2>1, <2>2 DEF FilesInv
  <1>2. holder' # r
    BY <1>0 DEF DraftFiles, Ask, Arrives, Fetch, LoginAsk, LoginCheck, LoginStamp
  <1>3. CASE Fetch(r) /\ GoesOn(r, "fetched")
    <2>1. /\ pc'[r] = "fetched" /\ kind[r] \in {"refresh_hashes", "refresh_urls"}
          /\ FeedOf(r) \in files'
      BY <1>0, <1>3 DEF Fetch, GoesOn, Ends, TypeOK, FeedOf
    <2>2. FilesOf(r)'
      BY <1>0, <1>2, <2>1 DEF FilesOf, DraftFiles, RestoreFiles, BackupFiles, FeedOf
    <2>3. QED BY <1>0, <1>1, <2>2
  <1>4. CASE ~(Fetch(r) /\ GoesOn(r, "fetched"))
    <2>1. pc'[r] \in {"asked", "stamping", "done"}
      BY <1>0, <1>4 DEF Ask, Arrives, Fetch, LoginAsk, LoginCheck, LoginStamp, Ends, TypeOK
    <2>2. QED BY <1>0, <1>1, <1>2, <2>1, EmptyHanded
  <1>5. QED BY <1>3, <1>4

LEMMA NextFiles ==
  ASSUME FlowInv, CoherentInv, ApartInv, FilesInv, [Next]_vars,
         BackupsAlone, FeedsAlone, RearrangedInOneGo, \A e, f \in Extensions : e = f
  PROVE  FilesInv'
  <1>1. ASSUME NEW r \in Requests, RequestStep(r) PROVE FilesInv'
    <2>1. FilesOf(r)' /\ Parts' /\ \A m \in backups' : Whole(m)
      <3>1. \A m \in backups : Whole(m)
        BY DEF FilesInv
      <3>2. CASE Ask(r) \/ Fetch(r) \/ LoginAsk(r) \/ LoginCheck(r) \/ LoginStamp(r)
        BY <3>1, <3>2, FetchedFiles
      <3>3. CASE Take(r)
        BY <3>1, <3>3, TakeFiles DEF Take
      <3>4. CASE Save(r) \/ SaveFails(r) \/ Finish(r)
        BY <3>1, <3>4, SaveFiles DEF Save, SaveFails, Finish
      <3>5. CASE RestoreKey(r) \/ RestoreLogo(r) \/ RestoreLists(r)
        BY <3>1, <3>5, RestoredFiles DEF RestoreKey, RestoreLogo, RestoreLists
      <3>6. CASE BackupSettings(r) \/ BackupKey(r) \/ BackupLogo(r) \/ BackupLists(r)
        BY <3>6, PackedFiles DEF FilesInv, Parts, Rearranging
      <3>7. QED BY <1>1, <3>2, <3>3, <3>4, <3>5, <3>6 DEF RequestStep
    <2>2. \A q \in Requests : FilesOf(q)'
      BY <1>1, <2>1, OthersFiles
    <2>3. QED BY <2>1, <2>2 DEF FilesInv, Parts
  <1>2. CASE (\E b \in Browsers : Logout(b)) \/ WindowEnds \/ UNCHANGED vars
    <2>1. UNCHANGED <<disk, key, files, logos, backups, holder, kind, pc, draft, pack>>
      BY <1>2 DEF Logout, WindowEnds, vars, stores, requestVars
    <2>2. QED
      BY <2>1 DEF FilesInv, Rearranging, FilesOf, DraftFiles, RestoreFiles, BackupFiles, FeedOf
  <1>3. CASE Restart
    <2>1. /\ UNCHANGED <<disk, key, files, logos, backups>> /\ holder' = None
          /\ \A r \in Requests : pc'[r] \in {"new", "done"} /\ holder' # r
      BY <1>3, SettingsAssumption DEF Restart, UnderWay, FlowInv, TypeOK, stores
    <2>2. ~Rearranging
      BY <1>3 DEF Restart, RearrangedInOneGo, Rearranging, UnderWay, FilesInv, FilesOf, DraftFiles
    <2>3. NamedIn(disk, files, key, logos)'
      BY <2>1, <2>2 DEF FilesInv
    <2>4. QED BY <2>1, <2>3, EmptyHanded DEF FilesInv
  <1>4. QED BY <1>1, <1>2, <1>3 DEF Next, RequestStep

LEMMA InitFiles ==
  ASSUME Init, \A m \in Foreign : Whole(m) PROVE FilesInv
  <1>1. \A c, fs, k, ls : /\ c.lists = {} /\ c.share = "none" /\ c.feed = "none"
                          /\ c.logo = "none"
                          => NamedIn(c, fs, k, ls)
    BY DEF NamedIn
  <1>2. NamedIn(disk, files, key, logos)
    <2>1. ASSUME NEW n \in Names
          PROVE  /\ Staffed(n).lists = {} /\ Staffed(n).share = "none"
                 /\ Staffed(n).feed = "none" /\ Staffed(n).logo = "none"
      BY DEF Staffed, NewStation
    <2>2. /\ NewStation.lists = {} /\ NewStation.share = "none"
          /\ NewStation.feed = "none" /\ NewStation.logo = "none"
      BY DEF NewStation
    <2>3. disk = NewStation \/ \E n \in Names : disk = Staffed(n)
      BY DEF Init
    <2>4. QED BY <1>1, <2>1, <2>2, <2>3
  <1>3. \A r \in Requests : pc[r] = "new" /\ holder # r
    BY SettingsAssumption DEF Init
  <1>4. QED
    BY <1>2, <1>3 DEF Init, FilesInv, FilesOf, DraftFiles, RestoreFiles, BackupFiles

(* The files' part of the invariant, with all it rests on.                 *)
WholeInv == FlowInv /\ CoherentInv /\ ApartInv /\ FilesInv

(* Backups brought from elsewhere that can give back what they name. *)
ForeignWhole == \A m \in Foreign : Coherent(m.config) /\ Whole(m)

LEMMA WholeInvariance ==
  ASSUME ForeignWhole, BackupsAlone, FeedsAlone, RearrangedInOneGo,
         \A e, f \in Extensions : e = f
  PROVE  Spec => []WholeInv
  <1>1. Init => WholeInv
    BY InitFlow, InitCoherent, InitSession, InitFiles DEF WholeInv, ForeignWhole
  <1>2. ASSUME WholeInv, [Next]_vars PROVE WholeInv'
    <2>1. ApartInv'
      <3>1. ASSUME NEW r \in Requests, RequestStep(r) PROVE ApartInv'
        BY <1>2, <3>1, RequestApart DEF WholeInv
      <3>2. QED BY <1>2, <3>1, ByItselfApart DEF Next, RequestStep, WholeInv
    <2>2. QED BY <1>2, <2>1, NextFlow, NextCoherent, NextFiles DEF WholeInv
  <1>3. QED BY <1>1, <1>2, PTL DEF Spec

(* Whatever the settings name is there: groups, default template, list     *)
(* files, logo and key, through every order of changes, failed saves and   *)
(* restarts; where no restore and no change of logo is cut short, feeds    *)
(* are not downloaded while lists are deleted, and no two logos are files  *)
(* of different types. *)
THEOREM NothingNamedIsMissing ==
  ASSUME ForeignWhole, BackupsAlone, FeedsAlone, RearrangedInOneGo,
         \A e, f \in Extensions : e = f
  PROVE  Spec => []NothingDangles
  <1>1. WholeInv => NothingDangles
    BY DEF WholeInv, CoherentInv, Coherent, Grouped, Templated, FilesInv, NamedIn,
           NothingDangles
  <1>2. QED BY <1>1, WholeInvariance, PTL

(* A backup holds all that its settings name, under the same conditions.   *)
THEOREM BackupsHoldAll ==
  ASSUME ForeignWhole, BackupsAlone, FeedsAlone, RearrangedInOneGo,
         \A e, f \in Extensions : e = f
  PROVE  Spec => []BackupsAreWhole
  <1>1. WholeInv => BackupsAreWhole
    BY DEF WholeInv, FilesInv, Whole, BackupsAreWhole
  <1>2. QED BY <1>1, WholeInvariance, PTL

=============================================================================
