CONSTANTS
    r1 = r1
    r2 = r2
    r3 = r3
    ann = ann
    bob = bob
    Requests = {r1, r2, r3}
    Choices <- Everything
    Names = {ann, bob}
    Installer = Installer
    Kiosk = Kiosk
    Browsers = {b1}
    Custom = {g1}
    Hashes = {bazaar, hashes}
    Urls = {haus, urls}
    Bazaar = bazaar
    Haus = haus
    Words = {words1, words2}
    Rules = {rules}
    Templates = {letter}
    Extensions = {png, jpg}
    None = None
    Foreign <- OtherStation
    MaxLists = 2
    Chunks = 2
    MaxFailures = 2
    Apart <- Overlaps
    Uncut <- InOneGo
    MaxRestarts = 1
SPECIFICATION Spec
SYMMETRY Symmetry
INVARIANT ChangesStartFromTheLatest
INVARIANT AnAdminRemains
INVARIANT NothingDangles
INVARIANT BackupsAreWhole
INVARIANT OldPasswordIsOut
CHECK_DEADLOCK FALSE
