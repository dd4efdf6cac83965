\* Left out or excepted, for findings of README.md, section 4:
\* changed_press: no two of a scope's requests have owner, key and first part in common.
\* user_share: UserConcurrency is the share of a library.
\* press_denied, submission_return: what scope refused may lose is excepted by Recoverable and NeverDenied;
\* scope sent has no refusal before the key is looked up, and no brane left and returned to.
CONSTANTS
    r1 = r1  r2 = r2  r3 = r3  f1 = f1  o1 = o1  o2 = o2  p1 = p1  p2 = p2  k1 = k1  k2 = k2
    cheap = cheap  dear = dear  mock = mock
    composing = composing  m = m  c = c  a = a  s = s
    None = None
    Runs = {r1, r2, r3, f1}
    FreeRuns = {f1}
    Owners = {o1, o2}
    Principals = {p1, p2}
    Guests = {p2}
    Keys = {k1, k2}
    Payloads = {cheap, dear, mock}
    Price <- MCPrice
    Requests <- Priced
    MaxCharge = 2
    MaxDay = 2
    MonthOf <- MCMonth
    GlobalDaily = 4
    GlobalMonthly = 4
    UserDaily = 3
    UserConcurrency = 2
    QueueLimit = 2
SPECIFICATION MCSpec
SYMMETRY Symmetric
INVARIANTS Budgets PressesWhole
PROPERTIES AccountBudget RequestsKept
CHECK_DEADLOCK FALSE
