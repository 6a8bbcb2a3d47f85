SPECIFICATION FairSpec
CONSTANTS
    Urls = {u1}
    Files = {f1, f2}
    Locals = {l1}
    Lines <- MCLines
    Profiles <- MCProfiles
    None = None
INVARIANTS
    ChatTypeOK
    NothingWithoutApproval
    ReportIsTruthful
    ResultIsTruthful
    FineOutputIsKept
    AsksAreConsented
    EvidenceInUseIsListed
    TransformedAnswerIsLatest
    AnswerAndSessionAgree
PROPERTIES
    TurnsEnd
CHECK_DEADLOCK FALSE
