SPECIFICATION Spec
CONSTANTS
    Sessions = {s1}
    None = None
    Torn = Torn
    Policies = {"manual", "delete_on_success"}
    Tasks = {"plan"}
    Long = {"evidence"}
    Marked = {"evidence"}
    MaxTurns = 1
    MaxRuns = 3
INVARIANTS
    TypeOK
    ManifestIsTruthful
    SnapshotRefsExist
    CleanedStaysGone
    FinalStatusesAgree
PROPERTIES
    AlarmsAreAboutContents
