\* Left out or excepted, for findings of README.md, section 4:
\* outbox_lost: scope review has neither lost requests nor reads (MaxLost, MaxReads); plain and reads have no reviews.
\* outbox_two_reads: FairRefusal excepts the edits of a text forgotten while it was written, which scope reads reaches.
\* outbox_server: WritingSurvives excepts a card that is off the brane when the server's text is chosen (Unsaved).
CONSTANTS
    Blocks = {x, y}
    Known = {x}
    Texts = {t1, t2}
    Empty = Empty
    None = None
    Guest = TRUE
    MaxKeys = 4
    MaxElsewhere = 1
    MaxReads = 0
    MaxLost = 0
    Sides = {"local", "server"}
SPECIFICATION MCSpec
SYMMETRY Symmetric
INVARIANTS FairRefusal CacheTrue
PROPERTIES WritingSurvives PromiseKept
CHECK_DEADLOCK FALSE
