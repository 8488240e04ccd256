\* A lock taken while a worker uploads the webroot does not stop it publishing.
CONSTANTS
    d1 = d1
    d2 = d2
    w1 = w1
    w2 = w2
    dom1 = dom1
    dom2 = dom2
    NoDeployment = NoDeployment
    Deployments <- MCDeployments
    Workers <- MCOneWorker
    Domains <- MCDomains
    NFiles = 2
    MaxDeliveries = 4
    MaxFailures = 2
    MaxConfigJobs = 1
SYMMETRY MCSymmetry
INIT Init
NEXT Next
PROPERTY
    LockHaltsPublishing
