\* Left out or excepted, for findings of README.md, section 4:
\* live_failed_read: in scope stream MaxFails = 0; in scope chain one read may fail, and Appears is not asked.
\* live_chain_waits: the chain has one machine.
\* Scope files is without presses of the person (MaxPresses) and without leaves (MaxLeaves).
CONSTANTS
    x = x  y = y  t1 = t1  Empty = Empty  None = None  c1 = c1
    N = 1
    MaxBreaks = 1
    MaxLocal = 0
    MaxFails = 0
    MaxReads = 2
SPECIFICATION MCSpec
PROPERTIES AllSettles
CHECK_DEADLOCK FALSE
