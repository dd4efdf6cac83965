\* Left out or excepted, for findings of README.md, section 4:
\* staleness_mode: FreshIsTrue is about machines of several slots.
\* output_dropped: how many arrows an answer is said to have dropped is not counted.
CONSTANTS
    r1 = r1  r2 = r2  ann = ann  ben = ben
    a = a  b = b  c = c  m1 = m1  m2 = m2  m3 = m3
    None = None
    Runs = {r1, r2}
    Owners = {ann, ben}
    Owner <- MCOwner
    FreeRuns = {r2}
    Workers = {w1, w2}
    Attempts = {a1, a2, a3}
    Texts = {t1, t2}
    LeaseTime = 2
    MaxCreated = 1
SPECIFICATION MCSpec
SYMMETRY Symmetry
INVARIANTS OneAttempt RowsExact AnswersDrawn StalenessTrue
PROPERTIES Fenced HistoryKept KeepsContract
CHECK_DEADLOCK FALSE
