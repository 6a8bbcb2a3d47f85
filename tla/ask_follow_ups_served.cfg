SPECIFICATION Spec
CONSTANTS
    Urls = {u1}
    Files = {f1}
    Commands = {}
    Console = Console
    Roots = {home}
    ConsoleSlug = ConsoleSlug
    None = None
    MaxAsks = 1
    MaxTurns = 2
    MaxRepairs = 1
INVARIANTS
    FollowUpsAreServed
CHECK_DEADLOCK FALSE
