\* Two deploy workers handling two deployments concurrently, with duplicate
\* deliveries, failures, locks and config-only jobs.
CONSTANTS
    d1 = d1
    d2 = d2
    w1 = w1
    w2 = w2
    dom1 = dom1
    dom2 = dom2
    NoDeployment = NoDeployment
    Deployments <- MCDeployments
    Workers <- MCTwoWorkers
    Domains <- MCDomains
    NFiles = 2
    MaxDeliveries = 4
    MaxFailures = 2
    MaxConfigJobs = 1
SYMMETRY MCSymmetry
INIT Init
NEXT Next
INVARIANTS
    TypeOK
    ActiveIsDeployed
    LiveContentComplete
PROPERTIES
    LifecycleRefined
