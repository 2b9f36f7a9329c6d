------------------------------ MODULE MCWorkers ------------------------------
(* The tables of the programs, and small instances of Workers for TLC. *)
EXTENDS Workers, AcquisitionPrograms, MobilePrograms, CompanionPrograms

AllPrograms ==
    [imaging |-> Imaging, ddrescue |-> Imaging, aff |-> ImagingAff,
     chained |-> ImagingChained, conversion |-> Conversion, logical |-> Logical,
     zipped |-> LogicalZipped, usb |-> BuildUsb, live |-> ImportLive,
     ios |-> IosBackup, android |-> AndroidAcquisition,
     physical |-> AndroidPhysical, mtp |-> MtpPull, photorec |-> Photorec,
     extundelete |-> Extundelete, foremost |-> Foremost, scalpel |-> Scalpel,
     triage |-> TriageScan, kml |-> GeolocationKml, imagetriage |-> ImageTriageScan,
     shadow |-> ShadowCopy, analyze |-> AutoAnalyzeImage, takeout |-> TakeoutImport,
     apple |-> AppleImport, memory |-> MemoryScan, mquire |-> MquireScan,
     leapp |-> LeappScan, phone |-> AutoAnalyzeMobile, bundle |-> BundleExport,
     companion |-> Companion, unread |-> CompanionUnread,
     lateRole |-> CompanionLateRole]

AllRoutes ==
    [imaging |-> StartImaging, ddrescue |-> StartDdrescue, aff |-> StartImaging,
     chained |-> StartImaging, conversion |-> StartConversion,
     logical |-> StartLogical, zipped |-> StartLogical, usb |-> StartBuildUsb,
     live |-> StartImportLive, ios |-> StartIosBackup, android |-> StartAndroid,
     physical |-> StartAndroidPhysical, mtp |-> StartMtpPull,
     photorec |-> StartPhotorec, extundelete |-> StartExtundelete,
     foremost |-> StartForemost, scalpel |-> StartScalpel,
     triage |-> StartTriageScan, kml |-> StartGeolocationKml,
     imagetriage |-> StartImageTriageScan, shadow |-> StartShadowCopy,
     analyze |-> StartAutoAnalyzeImage, takeout |-> StartTakeoutImport,
     apple |-> StartAppleImport, memory |-> StartMemoryScan,
     mquire |-> StartMquireScan, leapp |-> StartLeappScan,
     phone |-> StartAutoAnalyzeMobile, bundle |-> StartBundleExport,
     companion |-> StartCompanion, unread |-> StartCompanion,
     lateRole |-> StartCompanion]

AllKinds == DOMAIN AllPrograms

\* The runs that hold the slot across several workers.
HeldKinds == {"chained", "analyze", "phone"}

\* No branch for a Stop: the carvers, and AFF in its first phase.
OpenKinds == {"photorec", "extundelete", "foremost", "scalpel", "aff"}

\* No look for a Stop: the imports of exports, the conversion, and what is
\* captured after a pull.
DeafKinds == {"takeout", "apple", "conversion", "android"}

\* The kinds that the README's counterexamples are about.
SpecialKinds == {"zipped", "unread", "lateRole"}

\* What every worker of the repository takes it gives back, by its table.
ASSUME TablesBalance == \A k \in AllKinds \ {"lateRole"} :
                            IsAccount(LeastAccount(AllPrograms[k]), AllPrograms[k])

\* Of every worker but the one that copies into an archive, COMPLETED is
\* never said of less than everything (the README's counterexample).
ASSUME TablesAreSound == \A k \in AllKinds \ {"zipped"} :
                             IsAssessment(LeastAssessment(AllPrograms[k]), AllPrograms[k])

\* Between any two beginnings a worker looks for a Stop.
ASSUME TablesLook == \A k \in AllKinds \ DeafKinds :
                         IsLookout(LeastLookout(AllPrograms[k]), AllPrograms[k])

\* Every worker settles the record it opened, but for the kinds that the
\* README's counterexamples are about, and writes no exception into it.
ASSUME TablesSettle ==
    \A k \in AllKinds :
        LET opened == Opens(AllRoutes[k])
            books == LeastBooks(AllPrograms[k], opened)
        IN  /\ AreBooks(books, AllPrograms[k], opened)
            /\ k \notin OpenKinds \cup {"unread"} => Balanced(books)

\* One job of any kind; j1 stands for the plain ones, h1 for the held ones.
CONSTANTS j1, j2, h1

OneJob ==
    {[j \in Jobs |-> IF j = j1 THEN k ELSE NoKind] : k \in AllKinds \ (HeldKinds \cup SpecialKinds)}
    \cup {[j \in Jobs |-> IF j = h1 THEN k ELSE NoKind] : k \in HeldKinds}

JobAndNext(K) == {[j \in Jobs |-> IF j = j1 THEN k ELSE "imaging"] : k \in K}

LogicalThenImaging == JobAndNext({"logical"})
ImagingAndNext == JobAndNext({"imaging"})
AffAlone      == {[j \in Jobs |-> "aff"]}
ZippedAlone   == {[j \in Jobs |-> "zipped"]}
UnreadAlone   == {[j \in Jobs |-> "unread"]}
LateRoleAlone == {[j \in Jobs |-> "lateRole"]}
CarverAlone   == {[j \in Jobs |-> "photorec"]}
ConversionAlone == {[j \in Jobs |-> "conversion"]}
BundleAndNext == JobAndNext({"bundle"})

=============================================================================
