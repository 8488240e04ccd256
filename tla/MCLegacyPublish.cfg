\* Two requests, by the owner or another user, with valid and invalid
\* bodies, racing two legacy workers, with failed calls and duplicates.
CONSTANTS
    d1 = d1
    d2 = d2
    w1 = w1
    w2 = w2
    dom1 = dom1
    u1 = u1
    u2 = u2
    NoDeployment = NoDeployment
    Deployments <- MCDeployments
    Workers <- MCTwoWorkers
    Domains <- MCDomains
    Users <- MCUsers
    Owner = u1
    NFiles = 2
    MaxDeliveries = 3
    MaxFailures = 1
\* Once every request is answered and the queue is empty the system waits.
CHECK_DEADLOCK FALSE
INIT Init
NEXT Next
INVARIANTS
    LegacyTypeOK
    MetaComplete
