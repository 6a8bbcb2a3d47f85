SPECIFICATION Spec
CONSTANTS
    Urls = {u1, u2}
    Files = {f1}
    Commands = {}
    Console = Console
    Roots = {home}
    ConsoleSlug = ConsoleSlug
    None = None
    MaxAsks = 2
    MaxTurns = 1
    MaxRepairs = 1
INVARIANTS
    SavedSourcesStay
CHECK_DEADLOCK FALSE
