\* FairRefusal is violated, by a lost request and a review: outbox_lost of README.md, section 4.
CONSTANTS
    Blocks = {x, y}
    Known = {x, y}
    Texts = {t1, t2}
    Empty = Empty
    None = None
    Guest = FALSE
    MaxKeys = 3
    MaxElsewhere = 1
    MaxReads = 0
    MaxLost = 1
    Sides = {"local"}
SPECIFICATION CSpec
SYMMETRY Symmetric
INVARIANTS FairRefusal
CHECK_DEADLOCK FALSE
