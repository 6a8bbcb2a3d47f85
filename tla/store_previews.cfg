SPECIFICATION Spec
CONSTANTS
    Sessions = {s1}
    Writers = {w1}
    Readers = {r1}
    TurnFiles <- MCTurnFiles
    Shapes <- MCShapes
    MaxSaves = 2
    Absent = Absent
INVARIANTS
    PreviewIsCurrent
