SPECIFICATION Spec
CONSTANTS
    Urls = {u1}
    Files = {f1}
    Locals = {l1}
    Lines <- MCLines
    Profiles <- MCProfiles
    None = None
INVARIANTS
    NamedSourceIsAsked
CHECK_DEADLOCK FALSE
