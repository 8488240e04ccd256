\* Liveness of the deploy workers under weak fairness: two workers, two
\* deployments, failures and redeliveries, locks and config-only jobs.
\* No symmetry: it is unsound with liveness checking.
CONSTANTS
    d1 = d1
    d2 = d2
    w1 = w1
    w2 = w2
    dom1 = dom1
    dom2 = dom2
    NoDeployment = NoDeployment
    Deployments <- MCDeployments
    Workers <- MCTwoWorkers
    Domains <- MCDomains
    NFiles = 2
    MaxDeliveries = 4
    MaxFailures = 1
    MaxConfigJobs = 1
SPECIFICATION LiveSpec
PROPERTIES
    UnlockedPendingDeployed
