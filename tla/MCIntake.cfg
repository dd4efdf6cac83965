\* Left out or excepted, for findings of README.md, section 4:
\* imports_files: that a delivery can be repeated is not among what ImportsWhole says.
\* Only scope failing has a store that fails or breaks an object (Whole, MaxStoreFaults).
CONSTANTS
    b1 = b1  b2 = b2  b3 = b3  ann = ann  bob = bob  k1 = k1  k2 = k2  f1 = f1  f2 = f2  s1 = s1
    c1 = c1  c2 = c2  mc = mc  web = web
    None = None
    Absent = Absent
    Keys = {k1, k2}
    Files = {f1, f2}
    Services = {s1}
    GuestKeys = {k1, k2}
    Whole = TRUE
    MaxActive = 2
    GuestBytes = 2
    TotalBytes = 2
    MaxCalls = 3
    MaxCrashes = 1
    MaxStoreFaults = 1
    Cards = {b1, b2, b3}
    Owner <- MCOwner
    Tabs = {t1, t2}
    UserLimit = 2
    TotalLimit = 2
    MaxEdits = 2
    MaxFaults = 2
SPECIFICATION MCSpec
SYMMETRY Alike
INVARIANTS ImportsWhole
PROPERTIES PagesKept ContextsTrue
CHECK_DEADLOCK FALSE
