\* A Deploy job refused with ErrProjectLocked is dropped: the deployment
\* stays in pending_deploy although the broker still has deliveries left.
CONSTANTS
    d1 = d1
    d2 = d2
    w1 = w1
    w2 = w2
    dom1 = dom1
    dom2 = dom2
    NoDeployment = NoDeployment
    Deployments <- MCDeployments
    Workers <- MCTwoWorkers
    Domains <- MCDomains
    NFiles = 2
    MaxDeliveries = 4
    MaxFailures = 1
    MaxConfigJobs = 1
SPECIFICATION LiveSpec
PROPERTIES
    PendingEventuallyDeployed
