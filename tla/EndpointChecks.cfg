SPECIFICATION FairSpec
CONSTANTS
    a1 = a1
    a2 = a2
    b1 = b1
    c1 = c1
    ha = ha
    hb = hb
    hc = hc
    Targets <- MCTargets
    Hosts <- MCHosts
    HostOf <- MCHostOf
    Nobody = Nobody
    Cap = 2
    Delay = 2
INVARIANTS
    TypeOK
    SlotsAreRequests
PROPERTIES
    EveryTargetAnswered
    ImplementsPoliteChecks
