\* Left out or excepted, for findings of README.md, section 4:
\* mail_order: each mail is sent in the end, in whatever order.
\* imports_files: each delivery ends, with success or not.
CONSTANTS
    worker = worker  backup = backup  r1 = r1  r2 = r2  None = None  s1 = s1  s2 = s2
    b1 = b1  b2 = b2  ann = ann  t1 = t1  k1 = k1  k2 = k2  f1 = f1  i1 = i1  i2 = i2
    Jobs = {worker, backup}
    Claimers = {worker}
    Fatal = {worker}
    Requests = {r1, r2}
    Stale = 2
SPECIFICATION MCSpec
INVARIANTS ServerHolds
PROPERTIES Serves
CHECK_DEADLOCK FALSE
