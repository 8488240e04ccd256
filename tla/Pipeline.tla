------------------------------ MODULE Pipeline ------------------------------
(***************************************************************************)
(* The deploy worker of Deployer composed with the actors that share its   *)
(* state: the API server, which creates a deployment and uploads its raw  *)
(* bundle; the build worker, which turns a pending build into a Deploy    *)
(* job; the project controllers, which lock the project while they change *)
(* it and enqueue config-only Deploy jobs for the active deployment.  The *)
(* code of these actors is not in the source tree: they are modelled from *)
(* the specification and from the controller tests.                       *)
(***************************************************************************)
EXTENDS Deployer

CONSTANT MaxConfigJobs   \* bound on config-only Deploy jobs enqueued

ASSUME PipelineAssumption == MaxConfigJobs \in Nat

VARIABLE configJobs      \* config-only Deploy jobs enqueued so far

allVars == <<vars, configJobs>>

Init ==
    /\ deplState = [d \in Deployments |-> "pending_upload"]
    /\ activeDeployment = NoDeployment
    /\ lockedAt = FALSE
    /\ webroot = [d \in Deployments |-> {}]
    /\ meta = [dom \in Domains |-> NoDeployment]
    /\ broadcasts = {}
    /\ queue = [j \in Job |-> 0]
    /\ deliveries = 0
    /\ failures = 0
    /\ pc = [w \in Workers |-> "idle"]
    /\ job = [w \in Workers |-> NoJob]
    /\ sDepl = [w \in Workers |-> "pending_upload"]
    /\ sLocked = [w \in Workers |-> FALSE]
    /\ nextFile = [w \in Workers |-> 1]
    /\ domainNames = [w \in Workers |-> {}]
    /\ todo = [w \in Workers |-> {}]
    /\ configJobs = 0

-----------------------------------------------------------------------------
(* POST /projects/:name/deployments: the raw bundle is uploaded and the   *)
(* deployment marked uploaded.                                             *)
UploadBundle(d) ==
    /\ deplState[d] = "pending_upload"
    /\ deplState' = [deplState EXCEPT ![d] = "uploaded"]
    /\ UNCHANGED <<activeDeployment, lockedAt, webroot, meta, broadcasts,
                   queueVars, workerVars, configJobs>>

(* A build job is enqueued for the uploaded bundle.                       *)
RequestBuild(d) ==
    /\ deplState[d] = "uploaded"
    /\ deplState' = [deplState EXCEPT ![d] = "pending_build"]
    /\ UNCHANGED <<activeDeployment, lockedAt, webroot, meta, broadcasts,
                   queueVars, workerVars, configJobs>>

(* For a project with skip_build the raw bundle is deployed directly.     *)
SkipBuild(d) ==
    /\ deplState[d] = "uploaded"
    /\ deplState' = [deplState EXCEPT ![d] = "pending_deploy"]
    /\ Enqueue([depl |-> d, skipWebroot |-> FALSE, skipInvalidation |-> FALSE])
    /\ UNCHANGED <<activeDeployment, lockedAt, webroot, meta, broadcasts,
                   counters, workerVars, configJobs>>

(* The build worker optimizes the bundle and enqueues its Deploy job.      *)
BuildSucceeds(d) ==
    /\ deplState[d] = "pending_build"
    /\ deplState' = [deplState EXCEPT ![d] = "pending_deploy"]
    /\ Enqueue([depl |-> d, skipWebroot |-> FALSE, skipInvalidation |-> FALSE])
    /\ UNCHANGED <<activeDeployment, lockedAt, webroot, meta, broadcasts,
                   counters, workerVars, configJobs>>

BuildFails(d) ==
    /\ deplState[d] = "pending_build"
    /\ deplState' = [deplState EXCEPT ![d] = "failed"]
    /\ UNCHANGED <<activeDeployment, lockedAt, webroot, meta, broadcasts,
                   queueVars, workerVars, configJobs>>

(* PUT /projects/:name and POST|DELETE /projects/:name/auth: with an      *)
(* active deployment, a Deploy job that skips the webroot upload rewrites *)
(* meta.json (projects_test.go: force_https, default domain, basic auth). *)
(* Newly enabling the default domain also skips the invalidation.         *)
ConfigChange ==
    /\ activeDeployment # NoDeployment
    /\ configJobs < MaxConfigJobs
    /\ \E skipInv \in BOOLEAN :
         Enqueue([depl |-> activeDeployment, skipWebroot |-> TRUE,
                  skipInvalidation |-> skipInv])
    /\ configJobs' = configJobs + 1
    /\ UNCHANGED <<storeVars, counters, workerVars>>

(* Mutating project endpoints set projects.locked_at while they run.       *)
LockProject ==
    /\ ~lockedAt
    /\ lockedAt' = TRUE
    /\ UNCHANGED <<deplState, activeDeployment, webroot, meta, broadcasts,
                   queueVars, workerVars, configJobs>>

UnlockProject ==
    /\ lockedAt
    /\ lockedAt' = FALSE
    /\ UNCHANGED <<deplState, activeDeployment, webroot, meta, broadcasts,
                   queueVars, workerVars, configJobs>>

EnvNext ==
    \/ \E d \in Deployments :
         \/ UploadBundle(d)
         \/ RequestBuild(d)
         \/ SkipBuild(d)
         \/ BuildSucceeds(d)
         \/ BuildFails(d)
    \/ ConfigChange
    \/ LockProject
    \/ UnlockProject

Next ==
    \/ \E w \in Workers : WorkerNext(w) /\ UNCHANGED configJobs
    \/ EnvNext

Spec == Init /\ [][Next]_allVars

(* A deploy worker is a process that loops on the queue: each step of     *)
(* Work that can make progress (a delivery waiting, a call to make) is    *)
(* eventually taken.  Failures, redeliveries and the other actors (users, *)
(* the build worker, the project controllers) are not assumed to act.     *)
WorkerProgress(w) ==
    \/ LoadDeployment(w)
    \/ LoadProject(w)
    \/ UploadFile(w)
    \/ EndOfArchive(w)
    \/ ListDomains(w)
    \/ UploadMeta(w)
    \/ PublishInvalidation(w)
    \/ Commit(w)

Fairness == \A w \in Workers : WF_allVars(WorkerProgress(w) /\ UNCHANGED configJobs)

LiveSpec == Spec /\ Fairness

-----------------------------------------------------------------------------
TypeOK ==
    /\ deplState \in [Deployments -> States]
    /\ activeDeployment \in Deployments \cup {NoDeployment}
    /\ lockedAt \in BOOLEAN
    /\ webroot \in [Deployments -> SUBSET Files]
    /\ meta \in [Domains -> Deployments \cup {NoDeployment}]
    /\ broadcasts \in SUBSET SUBSET Domains
    /\ queue \in [Job -> Nat]
    /\ deliveries \in 0..MaxDeliveries
    /\ failures \in 0..MaxFailures
    /\ pc \in [Workers -> PCs]
    /\ job \in [Workers -> Job \cup {NoJob}]
    /\ sDepl \in [Workers -> States]
    /\ sLocked \in [Workers -> BOOLEAN]
    /\ nextFile \in [Workers -> 1..(NFiles + 1)]
    /\ domainNames \in [Workers -> SUBSET Domains]
    /\ todo \in [Workers -> SUBSET Domains]
    /\ configJobs \in 0..MaxConfigJobs

(* The activation transaction (deployer.go:195-211) keeps the project's    *)
(* active_deployment_id on a deployment in state deployed: a crash or a   *)
(* failed commit between the two updates never leaves them disagreeing.    *)
ActiveIsDeployed ==
    activeDeployment # NoDeployment => deplState[activeDeployment] = "deployed"

(* A domain never resolves to a half-uploaded webroot: every meta.json and *)
(* the active deployment name a prefix whose archive was uploaded in full, *)
(* however the upload loop (deployer.go:125-149), failures, redeliveries   *)
(* and config-only jobs that skip the upload interleave.                   *)
LiveContentComplete ==
    /\ \A dom \in Domains : meta[dom] # NoDeployment => webroot[meta[dom]] = Files
    /\ activeDeployment # NoDeployment => webroot[activeDeployment] = Files

(* The spec (4.4 step 3) re-checks locked_at after the webroot upload: a   *)
(* lock set by another actor before that check must stop publishing.  No *)
(* worker passes the lock check (deployer.go:152) while the project is     *)
(* locked.                                                                 *)
LockHaltsPublishing ==
    [][\A w \in Workers :
         (pc[w] \in {"upload", "loadProject"} /\ pc'[w] = "listDomains") => ~lockedAt
      ]_allVars

(* Once no Deploy job is queued or running, every domain's meta.json names *)
(* the project's active deployment (the pointer document names the        *)
(* currently active PrefixID), whatever order the jobs ran in.             *)
Quiescent ==
    /\ \A w \in Workers : pc[w] = "idle"
    /\ \A j \in Job : queue[j] = 0

MetaMatchesActiveWhenQuiescent ==
    Quiescent => \A dom \in Domains : meta[dom] = activeDeployment

(* The deploy pipeline implements the deployment state machine of         *)
(* Lifecycle: every step of the API server, the build worker, the project  *)
(* controllers and the deploy workers is a legal transition of the table  *)
(* or an activation that moves state and pointer together, or leaves both *)
(* alone.                                                                  *)
Life == INSTANCE Lifecycle WITH state <- deplState, active <- activeDeployment

LifecycleRefined == Life!Spec

(* A deployment in pending_deploy has its Deploy job in the queue; the     *)
(* workers must eventually make it live, unless the broker has used up    *)
(* its deliveries (the model's bound).  ErrProjectLocked (deployer.go:153) *)
(* drops the job, and nothing re-enqueues it.                              *)
PendingEventuallyDeployed ==
    \A d \in Deployments :
        deplState[d] = "pending_deploy"
            ~> (deplState[d] = "deployed" \/ deliveries = MaxDeliveries)

(* In a run in which the project is never locked, every pending_deploy    *)
(* deployment is eventually deployed: failed calls requeue the job        *)
(* (deployer.go returns the error), duplicates are refused only once the  *)
(* deployment is deployed, and nothing else drops a Deploy job.            *)
UnlockedPendingDeployed ==
    []~lockedAt => PendingEventuallyDeployed

=============================================================================
