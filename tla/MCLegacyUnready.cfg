\* One valid request by the owner and one legacy worker, no failures.
CONSTANTS
    d1 = d1
    d2 = d2
    w2 = w2
    w1 = w1
    dom1 = dom1
    u1 = u1
    u2 = u2
    NoDeployment = NoDeployment
    Deployments <- MCOneDeployment
    Workers <- MCOneWorker
    Domains <- MCDomains
    Users <- MCUsers
    Owner = u1
    NFiles = 1
    MaxDeliveries = 1
    MaxFailures = 0
CHECK_DEADLOCK FALSE
INIT Init
NEXT Next
INVARIANTS
    PublishOnlyReady
