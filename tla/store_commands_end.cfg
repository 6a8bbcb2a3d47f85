SPECIFICATION FairSpec
CONSTANTS
    Sessions = {s1}
    Writers = {w1, w2}
    Readers = {r1}
    TurnFiles <- MCOneTurnFile
    Shapes <- MCSmallShapes
    MaxSaves = 1
    Absent = Absent
PROPERTY
    EveryCommandEnds
