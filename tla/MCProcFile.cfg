\* Two readers open the file three times in all; jiffies wrap around at four.
SPECIFICATION ProcSpec
CONSTANTS
    Readers = {r1, r2}
    Pids = {1, 2}
    JIFFIES_MOD = 4
    HZ = 2
    MaxOpens = 3
    MaxUptime = 4
INVARIANT FreshWhenUnused
INVARIANT LoneReaderReadsOnce
PROPERTY ReportIsRight
PROPERTY ReadersEnd
CHECK_DEADLOCK FALSE
