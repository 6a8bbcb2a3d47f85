SPECIFICATION Spec
CONSTANTS
    short = short
    long = long
    Docs = {short, long}
    Size <- MCSize
    Writers = {w1}
    Readers = {r1, r2}
    Inodes = {i1, i2, i3, i4}
    None = None
INVARIANTS
    PathIsWhole
    ReadsAreWhole
PROPERTIES
    ChangesAtOnce
