SPECIFICATION Spec
CONSTANTS
    Urls = {u1}
    Files = {f1}
    Commands = {c1}
    Console = Console
    Roots = {home}
    ConsoleSlug = ConsoleSlug
    None = None
    MaxAsks = 1
    MaxTurns = 3
    MaxRepairs = 1
INVARIANTS
    TypeOK
    NothingUnasked
    FetchesAreReported
    AnswersAreGrounded
    PromptStateIsCurrent
    RunsAreDistinct
    SavedTurnsSucceeded
    ZeroMeansAnswered
    ShownAnswersAreFit
PROPERTIES
    ModelCallsAreReported
    FineAnswersAreKept
CHECK_DEADLOCK FALSE
