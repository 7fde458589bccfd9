\* Two servers, four commands, one change of a server's files or daemon.
SPECIFICATION FairSpec
CONSTANTS
    in = in
    out = out
    report = report
    a = a
    b = b
    Servers = {s1, s2}
    Paths = {in, out}
    SharedDir = {in}
    NameOf <- MCNameOf
    Contents <- MCContents
    NoFile = NoFile
    Disks <- MCDisks
    s1 = s1
    s2 = s2
    MaxChanges = 1
    MaxAsks = 4
CHECK_DEADLOCK FALSE
INVARIANTS
    SharesInv
    SavesWhatWasAsked
PROPERTIES
    AliasesKeepTheirResource
    GetOfListedEnds
