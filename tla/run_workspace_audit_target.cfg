SPECIFICATION Spec
CONSTANTS
    Sessions = {s1}
    None = None
    Torn = Torn
    Policies = {"manual", "delete_on_success"}
    Tasks = {"plan", "review", "explain"}
    Long = {"evidence"}
    Marked = {}
    MaxTurns = 1
    MaxRuns = 2
PROPERTIES
    AuditLeavesTarget
