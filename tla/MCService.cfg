\* Left out or excepted, for findings of README.md, section 4:
\* entry_left: one tab.
\* backups_age: RecentKept counts the dates of archives.
\* mail_order: the order of mails is not said.
\* An hourly job takes one half-day at most, a forced one less than KeepDays (Backups.Longest).
CONSTANTS
    Tabs = {tab}  Accounts = {account, other}  account = account  Nobody = Nobody
    MaxGuests = 2  MaxLost = 1  MaxLapses = 2
    Daily = {daily}  Forced = {forced}  Assets = {asset}  NoKey = NoKey
    KeepDays = 2  MaxHalves = 5  MaxMade = 2  MaxBackupFaults = 1
    None = None
    Servers = {s1, s2}  Ids = {1, 2, 3}  Rank <- RankDef  Prompt = FALSE
    Lease = 2  Cap = 2  Day = 4  LastReport = 2  MaxTime = 4  MaxFaults = 2
SPECIFICATION MCSpec
INVARIANTS OneSender
PROPERTIES LibrariesKept GuestsKept BackupsKept
CHECK_DEADLOCK FALSE
