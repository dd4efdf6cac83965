\* Left out or excepted, for findings of README.md, section 4:
\* workspace_revert: TitleKept excepts a title typed back to one shown out of date.
\* workspace_allowance: MaxBudgets = 0, no allowance is read.
\* import_tasks_dismiss: BytesKept says nothing of a file dismissed.
\* Scope tabs has no failing store, and failing and accounts have one tab.
CONSTANTS
    t1 = t1  t2 = t2  ann = ann
    Kinds = {}
    Things = {}
    Titles = {1, 2}
    MaxTypings = 3
    MaxReads = 2
    MaxAsks = 2
    MaxOpens = 2
    MaxFails = 1
    MaxChanges = 0
    MaxBudgets = 0
    None = None
    Files = {1}
    MaxUploads = 1
    MaxBytes = 1
    MaxPresses = 1
    MaxLeaves = 2
    Tabs = {t1, t2}
    Actors = {ann, bob}
    Blocks = {d1}
    MaxTyped = 2
    MaxCopies = 1
    MaxLoads = 3
    MaxLost = 1
    MaxLine = 2
    MaxForeign = 1
SPECIFICATION MCSpec
SYMMETRY Symmetry
INVARIANTS DraftsKept UploadsKept
PROPERTIES PageTrue
CHECK_DEADLOCK FALSE
