SPECIFICATION Spec
CONSTANTS
    Sessions = {s1}
    Writers = {w1, w2}
    Readers = {}
    TurnFiles <- MCOneTurnFile
    Shapes <- MCSmallShapes
    MaxSaves = 2
    Absent = Absent
INVARIANT
    DeletedIsGone
