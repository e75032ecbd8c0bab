SPECIFICATION FairSpec
CONSTANTS
    p1 = p1
    p2 = p2
    p3 = p3
    pc1 = pc1
    pc2 = pc2
    NoProc = NoProc
    NoHost = NoHost
    Procs <- Three
    Hosts <- BothHosts
    Deployments <- OneOrTwo
    WindowsHosts <- OneHost
    Quiet <- OneQuiet
    Lease = 3
    BusyTimeout = 1
    MaxLeaseFaults = 1
INVARIANTS
    MutualExclusion
    RowNamesHolder
PROPERTY
    AbandonedRowRecovered
