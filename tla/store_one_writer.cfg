SPECIFICATION Spec
CONSTANTS
    Sessions = {s1, s2}
    Writers = {w1}
    Readers = {}
    TurnFiles <- MCTurnFiles
    Shapes <- MCShapes
    MaxSaves = 2
    Absent = Absent
INVARIANTS
    TypeOK
    SavedIsListed
    ListedIsComplete
    DeletedIsGone
    ExpiredInManifestFirst
PROPERTIES
    ReceiptAfterRemoval
    EntriesChangeByOwnCommand
    ImplementsCatalog
