------------------------------ MODULE Deployer ------------------------------
(***************************************************************************)
(* The deploy worker of deployer/deployer/deployer.go: Work(data) consumes *)
(* one Deploy job, uploads the deployment's webroot, publishes the         *)
(* per-domain meta.json pointer documents, broadcasts an invalidation and  *)
(* commits the activation transaction.  Every database query and every     *)
(* object-store or broker call is a suspension point, so each is a step   *)
(* of its own; several worker processes run Work concurrently.            *)
(*                                                                         *)
(* This module holds the shared state (the deployments and project rows,  *)
(* the object store, the job queue) and the worker's actions.  The actors  *)
(* that create deployments, build them, lock the project and enqueue      *)
(* config-only jobs are added by Pipeline.                                 *)
(***************************************************************************)
EXTENDS Naturals

CONSTANTS
    Deployments,    \* the deployments of the one modelled project
    Workers,        \* deploy worker processes
    Domains,        \* domain names bound to the project (default + explicit)
    NFiles,         \* regular files in every bundle archive
    NoDeployment,   \* model value: a null active_deployment_id / no meta.json
    MaxDeliveries,  \* bound on deliveries of Deploy jobs by the broker
    MaxFailures     \* bound on failed database, storage and broker calls

ASSUME ConstantsAssumption ==
    /\ NoDeployment \notin Deployments
    /\ NFiles \in Nat \ {0}
    /\ MaxDeliveries \in Nat
    /\ MaxFailures \in Nat

VARIABLES
    deplState,          \* deployments.state
    activeDeployment,   \* projects.active_deployment_id
    lockedAt,           \* projects.locked_at # nil
    webroot,            \* files present under deployments/<prefixID>/webroot
    meta,               \* domains/<domain>/meta.json: the prefix it names
    broadcasts,         \* invalidation messages published on the edges exchange
    queue,              \* Deploy jobs waiting in the queue: job -> copies
    deliveries,         \* deliveries so far (bounded by MaxDeliveries)
    failures,           \* failed calls so far (bounded by MaxFailures)
    pc,                 \* where each worker is in Work
    job,                \* the job a worker is handling
    sDepl,              \* depl.State as read at deployer.go:71
    sLocked,            \* proj.LockedAt # nil as read at deployer.go:83
    nextFile,           \* next archive entry the upload loop reads
    domainNames,        \* proj.DomainNames(db) as read at deployer.go:170
    todo                \* domains whose meta.json the loop has yet to upload

storeVars  == <<deplState, activeDeployment, lockedAt, webroot, meta, broadcasts>>
counters   == <<deliveries, failures>>
queueVars  == <<queue, counters>>
workerVars == <<pc, job, sDepl, sLocked, nextFile, domainNames, todo>>
vars       == <<storeVars, queueVars, workerVars>>

States == {"pending_upload", "uploaded", "pending_build",
           "pending_deploy", "deployed", "failed"}

Files == 1..NFiles

(* The JSON body of a Deploy job (messages.DeployJobData).  UseRawBundle   *)
(* only chooses which archive is downloaded and is left out.               *)
Job == [depl: Deployments, skipWebroot: BOOLEAN, skipInvalidation: BOOLEAN]

NoJob == [depl |-> NoDeployment, skipWebroot |-> FALSE, skipInvalidation |-> FALSE]

PCs == {"idle", "loadProject", "upload", "listDomains", "uploadMeta",
        "invalidate", "commit"}

Enqueue(j) == queue' = [queue EXCEPT ![j] = @ + 1]

(* Work returns: the worker drops its locals and waits for the next job.   *)
Finish(w) ==
    /\ pc' = [pc EXCEPT ![w] = "idle"]
    /\ job' = [job EXCEPT ![w] = NoJob]
    /\ sDepl' = [sDepl EXCEPT ![w] = "pending_upload"]
    /\ sLocked' = [sLocked EXCEPT ![w] = FALSE]
    /\ nextFile' = [nextFile EXCEPT ![w] = 1]
    /\ domainNames' = [domainNames EXCEPT ![w] = {}]
    /\ todo' = [todo EXCEPT ![w] = {}]

(* Mutant: an error acknowledges the message instead of nacking it.      *)
AckOnError(w) ==
    /\ Finish(w)
    /\ UNCHANGED queue

(* An error returned by Work nacks the message, which the broker puts back *)
(* for redelivery (at-least-once delivery).                                *)
ReturnTransientError(w) ==
    /\ Enqueue(job[w])
    /\ Finish(w)

(* errUnexpectedState and ErrProjectLocked are terminal for the message.   *)
ReturnTerminalError(w) ==
    /\ Finish(w)
    /\ UNCHANGED queue

(* The step after the webroot upload: the lock check of deployer.go:152,   *)
(* made on the project row read at deployer.go:83.                         *)
CheckLock(w) ==
    IF sLocked[w]
    THEN ReturnTerminalError(w)
    ELSE /\ pc' = [pc EXCEPT ![w] = "listDomains"]
         /\ UNCHANGED <<queue, job, sDepl, sLocked, nextFile, domainNames, todo>>

-----------------------------------------------------------------------------
(* Mutant: only a deployment still pending_upload is refused.            *)
LoadDeploymentUploadedOK(w) ==
    /\ pc[w] = "idle"
    /\ deliveries < MaxDeliveries
    /\ \E j \in Job :
         /\ queue[j] > 0
         /\ deliveries' = deliveries + 1
         /\ UNCHANGED failures
         /\ queue' = [queue EXCEPT ![j] = @ - 1]
         /\ IF deplState[j.depl] = "pending_upload"
            THEN UNCHANGED workerVars
            ELSE /\ pc' = [pc EXCEPT ![w] = "loadProject"]
                 /\ job' = [job EXCEPT ![w] = j]
                 /\ sDepl' = [sDepl EXCEPT ![w] = deplState[j.depl]]
                 /\ UNCHANGED <<sLocked, nextFile, domainNames, todo>>
    /\ UNCHANGED storeVars

(* The broker delivers a job and Work loads the deployment row; a bundle  *)
(* that is not uploaded yet is refused with errUnexpectedState.            *)
LoadDeployment(w) ==
    /\ pc[w] = "idle"
    /\ deliveries < MaxDeliveries
    /\ \E j \in Job :
         /\ queue[j] > 0
         /\ deliveries' = deliveries + 1
         /\ UNCHANGED failures
         /\ IF deplState[j.depl] \in {"uploaded", "pending_upload"}
            THEN /\ queue' = [queue EXCEPT ![j] = @ - 1]
                 /\ UNCHANGED workerVars
            ELSE /\ queue' = [queue EXCEPT ![j] = @ - 1]
                 /\ pc' = [pc EXCEPT ![w] = "loadProject"]
                 /\ job' = [job EXCEPT ![w] = j]
                 /\ sDepl' = [sDepl EXCEPT ![w] = deplState[j.depl]]
                 /\ UNCHANGED <<sLocked, nextFile, domainNames, todo>>
    /\ UNCHANGED storeVars

(* Work loads the project row once.  Unless the webroot upload is skipped, *)
(* a deployed deployment is refused and the bundle is downloaded; with it  *)
(* skipped, Work goes straight on to the lock check.                       *)
LoadProject(w) ==
    /\ pc[w] = "loadProject"
    /\ IF job[w].skipWebroot
       THEN IF lockedAt
            THEN ReturnTerminalError(w)
            ELSE /\ pc' = [pc EXCEPT ![w] = "listDomains"]
                 /\ UNCHANGED <<queue, job, sDepl, sLocked, nextFile, domainNames, todo>>
       ELSE IF sDepl[w] = "deployed"
       THEN /\ ReturnTerminalError(w)
       ELSE /\ pc' = [pc EXCEPT ![w] = "upload"]
            /\ sLocked' = [sLocked EXCEPT ![w] = lockedAt]
            /\ UNCHANGED <<queue, job, sDepl, nextFile, domainNames, todo>>
    /\ UNCHANGED <<storeVars, counters>>

(* Mutant: the loop reads past the last archive entry.                    *)
UploadFilePastEnd(w) ==
    /\ pc[w] = "upload"
    /\ webroot' = [webroot EXCEPT ![job[w].depl] = @ \cup {nextFile[w]}]
    /\ nextFile' = [nextFile EXCEPT ![w] = @ + 1]
    /\ UNCHANGED <<deplState, activeDeployment, lockedAt, meta, broadcasts,
                   queueVars, pc, job, sDepl, sLocked, domainNames, todo>>

(* Mutant: the loop stops one entry before the end of the archive.        *)
EndOfArchiveEarly(w) ==
    /\ pc[w] = "upload"
    /\ nextFile[w] >= NFiles
    /\ CheckLock(w)
    /\ UNCHANGED <<storeVars, counters>>

(* One pass of the archive loop: a regular file is uploaded, public-read,  *)
(* under the deployment's own prefix.  At the end of the archive Work      *)
(* makes the lock check.                                                   *)
UploadFile(w) ==
    /\ pc[w] = "upload"
    /\ nextFile[w] <= NFiles
    /\ webroot' = [webroot EXCEPT ![job[w].depl] = @ \cup {nextFile[w]}]
    /\ nextFile' = [nextFile EXCEPT ![w] = @ + 1]
    /\ UNCHANGED <<deplState, activeDeployment, lockedAt, meta, broadcasts,
                   queueVars, pc, job, sDepl, sLocked, domainNames, todo>>

EndOfArchive(w) ==
    /\ pc[w] = "upload"
    /\ nextFile[w] > NFiles
    /\ CheckLock(w)
    /\ UNCHANGED <<storeVars, counters>>

(* proj.DomainNames(db): the names currently bound to the project.         *)
ListDomains(w) ==
    /\ pc[w] = "listDomains"
    /\ domainNames' = [domainNames EXCEPT ![w] = Domains]
    /\ todo' = [todo EXCEPT ![w] = Domains]
    /\ pc' = [pc EXCEPT ![w] =
                IF Domains # {} THEN "uploadMeta"
                ELSE IF job[w].skipInvalidation THEN "commit" ELSE "invalidate"]
    /\ UNCHANGED <<storeVars, queueVars, job, sDepl, sLocked, nextFile>>

(* One pass of the meta.json loop: the domain's pointer document now names *)
(* this deployment's prefix.                                               *)
UploadMeta(w) ==
    /\ pc[w] = "uploadMeta"
    /\ \E dom \in todo[w] :
         /\ meta' = [meta EXCEPT ![dom] = job[w].depl]
         /\ todo' = [todo EXCEPT ![w] = @ \ {dom}]
         /\ pc' = [pc EXCEPT ![w] =
                     IF todo[w] # {dom} THEN "uploadMeta"
                     ELSE IF job[w].skipInvalidation THEN "commit" ELSE "invalidate"]
    /\ UNCHANGED <<deplState, activeDeployment, lockedAt, webroot, broadcasts,
                   queueVars, job, sDepl, sLocked, nextFile, domainNames>>

(* The V1 invalidation message lists the domain names just updated.        *)
PublishInvalidation(w) ==
    /\ pc[w] = "invalidate"
    /\ broadcasts' = broadcasts \cup {domainNames[w]}
    /\ pc' = [pc EXCEPT ![w] = "commit"]
    /\ UNCHANGED <<deplState, activeDeployment, lockedAt, webroot, meta,
                   queueVars, job, sDepl, sLocked, nextFile, domainNames, todo>>

(* Mutant: the project is repointed but the deployment's state update is  *)
(* left out of the transaction.                                            *)
CommitPointerOnly(w) ==
    /\ pc[w] = "commit"
    /\ activeDeployment' = job[w].depl
    /\ Finish(w)
    /\ UNCHANGED <<deplState, lockedAt, webroot, meta, broadcasts, queueVars>>

(* Mutant: the deployment is marked deployed but the project's pointer    *)
(* update is left out of the transaction.                                  *)
CommitStateOnly(w) ==
    /\ pc[w] = "commit"
    /\ deplState' = [deplState EXCEPT ![job[w].depl] = "deployed"]
    /\ Finish(w)
    /\ UNCHANGED <<activeDeployment, lockedAt, webroot, meta, broadcasts, queueVars>>

(* The transaction: the deployment becomes deployed and the project points *)
(* at it, both or neither.  The analytics event after it is best-effort;  *)
(* Work returns nil and the message is acknowledged.                       *)
Commit(w) ==
    /\ pc[w] = "commit"
    /\ deplState' = [deplState EXCEPT ![job[w].depl] = "deployed"]
    /\ activeDeployment' = job[w].depl
    /\ Finish(w)
    /\ UNCHANGED <<lockedAt, webroot, meta, broadcasts, queueVars>>

(* Any database, object-store or broker call Work makes fails; the error  *)
(* is returned (a failed transaction is rolled back) and the job requeued. *)
Fail(w) ==
    /\ pc[w] # "idle"
    /\ failures < MaxFailures
    /\ failures' = failures + 1
    /\ ReturnTransientError(w)
    /\ UNCHANGED <<storeVars, deliveries>>

(* The broker's ack timeout expires on a job still being worked on: a      *)
(* second copy is delivered while the first keeps running.                 *)
Redeliver(w) ==
    /\ pc[w] # "idle"
    /\ deliveries < MaxDeliveries
    /\ Enqueue(job[w])
    /\ deliveries' = deliveries + 1
    /\ UNCHANGED <<storeVars, workerVars, failures>>

WorkerNext(w) ==
    \/ LoadDeployment(w)
    \/ LoadProject(w)
    \/ UploadFile(w)
    \/ EndOfArchive(w)
    \/ ListDomains(w)
    \/ UploadMeta(w)
    \/ PublishInvalidation(w)
    \/ Commit(w)
    \/ Fail(w)
    \/ Redeliver(w)

=============================================================================
