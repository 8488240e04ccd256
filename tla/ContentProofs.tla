---------------------------- MODULE ContentProofs ----------------------------
(***************************************************************************)
(* Machine-checked proof that no domain's meta.json and no active pointer *)
(* ever names a partially uploaded webroot, for every value of Pipeline's *)
(* constants.  It rests on the type invariant proved in PipelineProofs.    *)
(***************************************************************************)
EXTENDS PipelineProofs

USE ConstantsAssumption, PipelineAssumption

(* Why no domain ever names a partial webroot.  A config-only job is only *)
(* enqueued for the active deployment, whose webroot is complete, and the *)
(* webroot only grows; a full job passes the archive loop from the first  *)
(* entry to the last before it reaches the meta.json loop.                 *)
Complete(d) == webroot[d] = Files

QueuedConfigJobsComplete ==
    \A j \in Job : queue[j] > 0 /\ j.skipWebroot => Complete(j.depl)

UploadPrefixDone ==
    \A w \in Workers :
        /\ pc[w] \in {"idle", "loadProject"} => nextFile[w] = 1
        /\ pc[w] = "upload" =>
              /\ ~job[w].skipWebroot
              /\ 1..(nextFile[w] - 1) \subseteq webroot[job[w].depl]

PublishingComplete ==
    \A w \in Workers :
        \/ pc[w] \in {"listDomains", "uploadMeta", "invalidate", "commit"}
        \/ pc[w] = "loadProject" /\ job[w].skipWebroot
        => Complete(job[w].depl)

ContentInv ==
    /\ TypeInv
    /\ LiveContentComplete
    /\ QueuedConfigJobsComplete
    /\ UploadPrefixDone
    /\ PublishingComplete

(* The webroot only grows: a complete webroot stays complete.             *)
LEMMA WebrootFrame ==
  ASSUME [Next]_allVars
  PROVE  \/ webroot' = webroot
         \/ \E w \in Workers : UploadFile(w)
<1>1. CASE \E w \in Workers : WorkerNext(w) /\ UNCHANGED configJobs
  BY <1>1 DEF WorkerNext, LoadDeployment, LoadProject, ReturnTerminalError,
              EndOfArchive, CheckLock, ListDomains, UploadMeta,
              PublishInvalidation, Commit, Fail, ReturnTransientError,
              Redeliver, storeVars
<1>2. CASE EnvNext
  BY <1>2, Zenon DEF EnvNext, UploadBundle, RequestBuild, SkipBuild, BuildSucceeds,
              BuildFails, ConfigChange, LockProject, UnlockProject, storeVars
<1>3. CASE UNCHANGED allVars
  BY <1>3 DEF allVars, vars, storeVars
<1>4. QED
  BY <1>1, <1>2, <1>3 DEF Next

LEMMA CompleteStable ==
  ASSUME TypeInv, [Next]_allVars
  PROVE  \A d \in Deployments : Complete(d) => Complete(d)'
<1>1. CASE \E w \in Workers : UploadFile(w)
  <2>1. PICK w \in Workers : UploadFile(w)
    BY <1>1
  <2>2. job[w] \in Job
    BY <2>1 DEF UploadFile, TypeInv, WorkerJobs
  <2>3. nextFile[w] \in Files
    BY <2>1 DEF UploadFile, TypeInv, TypeOK, Files
  <2>4. QED
    BY <2>1, <2>2, <2>3 DEF UploadFile, Complete, TypeInv, TypeOK, Job
<1>2. CASE webroot' = webroot
  BY <1>2 DEF Complete
<1>3. QED
  BY <1>1, <1>2, WebrootFrame

(* Requeueing a job keeps the queued config-only jobs complete, provided  *)
(* the requeued job is either a full job or one for a complete webroot.   *)
LEMMA EnqueueComplete ==
  ASSUME QueuedConfigJobsComplete, queue \in [Job -> Nat], NEW j \in Job,
         Enqueue(j), j.skipWebroot => Complete(j.depl), UNCHANGED webroot
  PROVE  QueuedConfigJobsComplete'
  BY DEF QueuedConfigJobsComplete, Enqueue, Complete

(* The part of TypeOK the content proofs need: it leaves out the Boolean  *)
(* flags, which only slow the SMT backend down.                            *)
ContentTypes ==
    /\ activeDeployment \in Deployments \cup {NoDeployment}
    /\ webroot \in [Deployments -> SUBSET Files]
    /\ meta \in [Domains -> Deployments \cup {NoDeployment}]
    /\ queue \in [Job -> Nat]
    /\ pc \in [Workers -> PCs]
    /\ job \in [Workers -> Job \cup {NoJob}]
    /\ nextFile \in [Workers -> 1..(NFiles + 1)]
    /\ todo \in [Workers -> SUBSET Domains]
    /\ WorkerJobs

LEMMA TypeContentTypes == TypeInv => ContentTypes
  BY Zenon DEF TypeInv, TypeOK, ContentTypes

(* Work returning puts the worker back at the start of the upload loop.    *)
LEMMA FinishContent ==
  ASSUME ContentTypes, UploadPrefixDone, PublishingComplete, NEW w \in Workers,
         Finish(w), \A d \in Deployments : Complete(d) => Complete(d)',
         \A d \in Deployments : webroot[d] \subseteq webroot'[d]
  PROVE  UploadPrefixDone' /\ PublishingComplete'
<1>1. ASSUME NEW v \in Workers, v # w
      PROVE  /\ pc'[v] = pc[v] /\ job'[v] = job[v] /\ nextFile'[v] = nextFile[v]
  BY <1>1 DEF Finish, ContentTypes
<1>2. pc'[w] = "idle" /\ nextFile'[w] = 1
  BY DEF Finish, ContentTypes
<1>3. \A v \in Workers : pc[v] # "idle" => job[v].depl \in Deployments
  BY DEF ContentTypes, WorkerJobs, Job
<1>4. UploadPrefixDone'
  BY <1>1, <1>2, <1>3 DEF UploadPrefixDone
<1>5. PublishingComplete'
  BY <1>1, <1>2, <1>3 DEF PublishingComplete
<1>6. QED
  BY <1>4, <1>5

LEMMA WebrootGrows ==
  ASSUME ContentTypes, [Next]_allVars
  PROVE  \A d \in Deployments : webroot[d] \subseteq webroot'[d]
<1>1. CASE \E w \in Workers : UploadFile(w)
  <2>1. PICK w \in Workers : UploadFile(w)
    BY <1>1
  <2>2. job[w] \in Job
    BY <2>1 DEF UploadFile, ContentTypes, WorkerJobs
  <2>3. QED
    BY <2>1, <2>2 DEF UploadFile, ContentTypes, Job
<1>2. QED
  BY <1>1, WebrootFrame

ContentParts ==
    /\ LiveContentComplete
    /\ QueuedConfigJobsComplete
    /\ UploadPrefixDone
    /\ PublishingComplete

(* The delivery of a job: a config-only job comes out of the queue, where *)
(* it named a complete webroot; a full job starts the archive loop afresh. *)
LEMMA LoadDeploymentContent ==
  ASSUME ContentInv, NEW w \in Workers, LoadDeployment(w)
  PROVE  ContentParts'
<1>0. /\ TypeInv /\ ContentTypes
      /\ LiveContentComplete /\ QueuedConfigJobsComplete
      /\ UploadPrefixDone /\ PublishingComplete
  BY TypeContentTypes DEF ContentInv
<1>. USE <1>0
<1>1. PICK j \in Job :
        /\ queue[j] > 0
        /\ IF deplState[j.depl] \in {"uploaded", "pending_upload"}
           THEN /\ queue' = [queue EXCEPT ![j] = @ - 1]
                /\ UNCHANGED workerVars
           ELSE /\ queue' = [queue EXCEPT ![j] = @ - 1]
                /\ pc' = [pc EXCEPT ![w] = "loadProject"]
                /\ job' = [job EXCEPT ![w] = j]
                /\ UNCHANGED <<nextFile>>
  BY DEF LoadDeployment, workerVars
<1>2. UNCHANGED storeVars /\ pc[w] = "idle"
  BY DEF LoadDeployment
<1>3. LiveContentComplete'
  BY <1>2 DEF LiveContentComplete, storeVars
<1>4. QueuedConfigJobsComplete'
  <2>1. queue' = [queue EXCEPT ![j] = @ - 1]
    BY <1>1
  <2>2. QED
    BY <1>2, <2>1 DEF QueuedConfigJobsComplete, Complete, storeVars,
                      ContentTypes
<1>5. CASE deplState[j.depl] \in {"uploaded", "pending_upload"}
  BY <1>1, <1>2, <1>3, <1>4, <1>5 DEF ContentParts, UploadPrefixDone,
     PublishingComplete, Complete, workerVars, storeVars
<1>6. CASE deplState[j.depl] \notin {"uploaded", "pending_upload"}
  <2>1. nextFile[w] = 1
    BY <1>2 DEF UploadPrefixDone
  <2>2. j.skipWebroot => Complete(j.depl)
    BY <1>1 DEF QueuedConfigJobsComplete
  <2>3. UploadPrefixDone'
    BY <1>1, <1>2, <1>6, <2>1 DEF UploadPrefixDone, storeVars, ContentTypes
  <2>4. PublishingComplete'
    BY <1>1, <1>2, <1>6, <2>2 DEF PublishingComplete, Complete, storeVars,
                                  ContentTypes
  <2>5. QED
    BY <1>3, <1>4, <2>3, <2>4 DEF ContentParts
<1>7. QED
  BY <1>5, <1>6

(* Steps that leave the webroot alone meet FinishContent's frame premises. *)
LEMMA WebrootUnchanged ==
  ASSUME UNCHANGED webroot
  PROVE  /\ \A d \in Deployments : Complete(d) => Complete(d)'
         /\ \A d \in Deployments : webroot[d] \subseteq webroot'[d]
  BY DEF Complete

(* Loading the project: a config-only job goes on to publish a webroot it *)
(* knows to be complete; a full job enters the archive loop at entry 1.    *)
LEMMA LoadProjectContent ==
  ASSUME ContentInv, NEW w \in Workers, LoadProject(w)
  PROVE  ContentParts'
<1>0. /\ TypeInv /\ ContentTypes
      /\ LiveContentComplete /\ QueuedConfigJobsComplete
      /\ UploadPrefixDone /\ PublishingComplete
  BY TypeContentTypes DEF ContentInv
<1>. USE <1>0
<1>1. UNCHANGED <<storeVars, queue>> /\ pc[w] = "loadProject"
  BY DEF LoadProject, ReturnTerminalError
<1>2. LiveContentComplete' /\ QueuedConfigJobsComplete'
  BY <1>1 DEF LiveContentComplete, QueuedConfigJobsComplete, Complete, storeVars
<1>3. ASSUME \/ job[w].skipWebroot /\ lockedAt
             \/ ~job[w].skipWebroot /\ sDepl[w] = "deployed"
      PROVE  ContentParts'
  <2>1. Finish(w)
    BY <1>3 DEF LoadProject, ReturnTerminalError
  <2>2. QED
    BY <1>1, <1>2, <2>1, WebrootUnchanged, FinishContent DEF ContentParts, storeVars
<1>4. CASE job[w].skipWebroot /\ ~lockedAt
  <2>1. pc' = [pc EXCEPT ![w] = "listDomains"] /\ UNCHANGED <<job, nextFile>>
    BY <1>4 DEF LoadProject
  <2>2. Complete(job[w].depl)
    BY <1>1, <1>4 DEF PublishingComplete
  <2>3. QED
    BY <1>1, <1>2, <2>1, <2>2 DEF ContentParts, UploadPrefixDone,
       PublishingComplete, Complete, storeVars, ContentTypes
<1>5. CASE ~job[w].skipWebroot /\ sDepl[w] # "deployed"
  <2>1. pc' = [pc EXCEPT ![w] = "upload"] /\ UNCHANGED <<job, nextFile>>
    BY <1>5 DEF LoadProject
  <2>2. nextFile[w] = 1
    BY <1>1 DEF UploadPrefixDone
  <2>3. QED
    BY <1>1, <1>2, <1>5, <2>1, <2>2 DEF ContentParts, UploadPrefixDone,
       PublishingComplete, Complete, storeVars, ContentTypes
<1>6. QED
  BY <1>3, <1>4, <1>5

(* One pass of the archive loop extends the uploaded prefix by one entry. *)
LEMMA UploadFileContent ==
  ASSUME ContentInv, NEW w \in Workers, UploadFile(w), UNCHANGED configJobs
  PROVE  ContentParts'
<1>0. /\ TypeInv /\ ContentTypes
      /\ LiveContentComplete /\ QueuedConfigJobsComplete
      /\ UploadPrefixDone /\ PublishingComplete
  BY TypeContentTypes DEF ContentInv
<1>. USE <1>0
<1>1. [Next]_allVars
  BY DEF Next, WorkerNext
<1>2. /\ \A d \in Deployments : Complete(d) => Complete(d)'
      /\ \A d \in Deployments : webroot[d] \subseteq webroot'[d]
  BY <1>1, CompleteStable, WebrootGrows
<1>3. /\ UNCHANGED <<meta, activeDeployment, queue, pc, job>>
      /\ nextFile' = [nextFile EXCEPT ![w] = @ + 1]
      /\ pc[w] = "upload"
      /\ nextFile[w] \in webroot'[job[w].depl]
  BY DEF UploadFile, queueVars, ContentTypes, WorkerJobs, Job
<1>4. \A v \in Workers : pc[v] # "idle" => job[v].depl \in Deployments
  BY DEF ContentTypes, WorkerJobs, Job
<1>5. LiveContentComplete'
  BY <1>2, <1>3 DEF LiveContentComplete, Complete, ContentTypes
<1>8. QueuedConfigJobsComplete'
  BY <1>2, <1>3 DEF QueuedConfigJobsComplete, Job
<1>9. PublishingComplete'
  BY <1>2, <1>3, <1>4 DEF PublishingComplete
<1>6. UploadPrefixDone'
  <2>1. 1..(nextFile[w] - 1) \subseteq webroot'[job[w].depl]
    BY <1>2, <1>3, <1>4, Zenon DEF UploadPrefixDone
  <2>2. 1..(nextFile'[w] - 1) \subseteq webroot'[job[w].depl]
    BY <1>3, <2>1 DEF ContentTypes
  <2>3. QED
    BY <1>2, <1>3, <1>4, <2>2 DEF UploadPrefixDone, ContentTypes
<1>7. QED
  BY <1>5, <1>6, <1>8, <1>9 DEF ContentParts

(* Leaving the archive loop: every entry 1..NFiles has been uploaded, so   *)
(* the webroot the meta.json loop will publish is complete.               *)
LEMMA EndOfArchiveContent ==
  ASSUME ContentInv, NEW w \in Workers, EndOfArchive(w)
  PROVE  ContentParts'
<1>0. /\ TypeInv /\ ContentTypes
      /\ LiveContentComplete /\ QueuedConfigJobsComplete
      /\ UploadPrefixDone /\ PublishingComplete
  BY TypeContentTypes DEF ContentInv
<1>. USE <1>0
<1>1. UNCHANGED <<storeVars, queue>> /\ pc[w] = "upload" /\ nextFile[w] > NFiles
  BY DEF EndOfArchive, CheckLock, ReturnTerminalError
<1>2. LiveContentComplete' /\ QueuedConfigJobsComplete'
  BY <1>1 DEF LiveContentComplete, QueuedConfigJobsComplete, Complete, storeVars
<1>3. CASE sLocked[w]
  <2>1. Finish(w)
    BY <1>3 DEF EndOfArchive, CheckLock, ReturnTerminalError
  <2>2. QED
    BY <1>1, <1>2, <2>1, WebrootUnchanged, FinishContent DEF ContentParts, storeVars
<1>4. CASE ~sLocked[w]
  <2>1. pc' = [pc EXCEPT ![w] = "listDomains"] /\ UNCHANGED <<job, nextFile>>
    BY <1>4 DEF EndOfArchive, CheckLock
  <2>2. job[w] \in Job /\ nextFile[w] = NFiles + 1
    BY <1>1 DEF ContentTypes, WorkerJobs
  <2>6. 1..(nextFile[w] - 1) \subseteq webroot[job[w].depl]
    BY <1>1 DEF UploadPrefixDone
  <2>7. nextFile[w] - 1 = NFiles
    BY <2>2
  <2>3. 1..NFiles \subseteq webroot[job[w].depl]
    BY <2>6, <2>7, Zenon
  <2>4. Complete(job[w].depl)
    BY <2>2, <2>3, Zenon DEF Complete, Files, ContentTypes, Job
  <2>5. QED
    BY <1>1, <1>2, <2>1, <2>4 DEF ContentParts, UploadPrefixDone,
       PublishingComplete, Complete, storeVars, ContentTypes
<1>5. QED
  BY <1>3, <1>4

(* The meta.json loop and the invalidation only move the worker between   *)
(* the publishing steps; each document it writes names its job's prefix,  *)
(* which is complete there.                                                *)
LEMMA PublishContent ==
  ASSUME ContentInv, NEW w \in Workers,
         ListDomains(w) \/ UploadMeta(w) \/ PublishInvalidation(w)
  PROVE  ContentParts'
<1>0. /\ TypeInv /\ ContentTypes
      /\ LiveContentComplete /\ QueuedConfigJobsComplete
      /\ UploadPrefixDone /\ PublishingComplete
  BY TypeContentTypes DEF ContentInv
<1>. USE <1>0
<1>1. /\ UNCHANGED <<deplState, activeDeployment, webroot, queue, job, nextFile>>
      /\ pc[w] \in {"listDomains", "uploadMeta", "invalidate"}
      /\ pc' = [pc EXCEPT ![w] = pc'[w]]
      /\ pc'[w] \in {"uploadMeta", "invalidate", "commit"}
  BY DEF ListDomains, UploadMeta, PublishInvalidation, storeVars, queueVars,
         ContentTypes
<1>2. Complete(job[w].depl)
  BY <1>1 DEF PublishingComplete
<1>3. \/ meta' = meta
      \/ \E dom \in Domains : meta' = [meta EXCEPT ![dom] = job[w].depl]
  <2>1. CASE UploadMeta(w)
    BY <2>1, Zenon DEF UploadMeta, ContentTypes
  <2>2. CASE ListDomains(w) \/ PublishInvalidation(w)
    BY <2>2 DEF ListDomains, PublishInvalidation, storeVars
  <2>3. QED
    BY <2>1, <2>2
<1>4. LiveContentComplete'
  BY <1>1, <1>2, <1>3 DEF LiveContentComplete, Complete, ContentTypes
<1>5. QueuedConfigJobsComplete' /\ UploadPrefixDone'
  BY <1>1 DEF QueuedConfigJobsComplete, UploadPrefixDone, Complete, ContentTypes
<1>6. PublishingComplete'
  BY <1>1, <1>2 DEF PublishingComplete, Complete, ContentTypes
<1>7. QED
  BY <1>4, <1>5, <1>6 DEF ContentParts

(* A busy worker's job, if it is config-only, names a complete webroot:    *)
(* what a failure or a redelivery puts back in the queue.                  *)
LEMMA BusyJobComplete ==
  ASSUME ContentInv, NEW w \in Workers, pc[w] # "idle"
  PROVE  job[w].skipWebroot => Complete(job[w].depl)
  BY TypeContentTypes DEF ContentInv, ContentTypes, PCs, UploadPrefixDone,
     PublishingComplete

(* The activation transaction points the project at its job's prefix,      *)
(* complete since the worker is past the archive loop.                    *)
LEMMA CommitContent ==
  ASSUME ContentInv, NEW w \in Workers, Commit(w)
  PROVE  ContentParts'
<1>0. /\ TypeInv /\ ContentTypes
      /\ LiveContentComplete /\ QueuedConfigJobsComplete
      /\ UploadPrefixDone /\ PublishingComplete
  BY TypeContentTypes DEF ContentInv
<1>. USE <1>0
<1>1. UNCHANGED <<meta, webroot, queue>> /\ pc[w] = "commit"
      /\ activeDeployment' = job[w].depl
  BY DEF Commit, queueVars
<1>2. Complete(job[w].depl)
  BY <1>1 DEF PublishingComplete
<1>3. LiveContentComplete' /\ QueuedConfigJobsComplete'
  BY <1>1, <1>2 DEF LiveContentComplete, QueuedConfigJobsComplete, Complete
<1>4. UploadPrefixDone' /\ PublishingComplete'
  BY <1>1, WebrootUnchanged, FinishContent DEF Commit
<1>5. QED
  BY <1>3, <1>4 DEF ContentParts

(* A failed call requeues the job and returns; a redelivery requeues it   *)
(* while the worker carries on.                                            *)
LEMMA RequeueContent ==
  ASSUME ContentInv, NEW w \in Workers, Fail(w) \/ Redeliver(w)
  PROVE  ContentParts'
<1>0. /\ TypeInv /\ ContentTypes
      /\ LiveContentComplete /\ QueuedConfigJobsComplete
      /\ UploadPrefixDone /\ PublishingComplete
  BY TypeContentTypes DEF ContentInv
<1>. USE <1>0
<1>1. UNCHANGED storeVars /\ pc[w] # "idle" /\ Enqueue(job[w])
  BY DEF Fail, Redeliver, ReturnTransientError
<1>2. job[w] \in Job
  BY <1>1 DEF ContentTypes, WorkerJobs
<1>3. LiveContentComplete'
  BY <1>1 DEF LiveContentComplete, storeVars
<1>4. QueuedConfigJobsComplete'
  BY <1>1, <1>2, BusyJobComplete, EnqueueComplete DEF storeVars, ContentTypes
<1>5. CASE Fail(w)
  BY <1>1, <1>3, <1>4, <1>5, WebrootUnchanged, FinishContent
     DEF Fail, ReturnTransientError, ContentParts, storeVars
<1>6. CASE Redeliver(w)
  BY <1>1, <1>3, <1>4, <1>6, Zenon DEF Redeliver, ContentParts, UploadPrefixDone,
     PublishingComplete, Complete, workerVars, storeVars
<1>7. QED
  BY <1>5, <1>6

(* The other actors: a build or skip_build enqueues a full job, and a      *)
(* config change a config-only job for the active, complete, deployment.   *)
LEMMA EnvContent ==
  ASSUME ContentInv, EnvNext
  PROVE  ContentParts'
<1>0. /\ TypeInv /\ ContentTypes
      /\ LiveContentComplete /\ QueuedConfigJobsComplete
      /\ UploadPrefixDone /\ PublishingComplete
  BY TypeContentTypes DEF ContentInv
<1>. USE <1>0
<1>1. UNCHANGED <<activeDeployment, webroot, meta, workerVars>>
  BY Zenon DEF EnvNext, UploadBundle, RequestBuild, SkipBuild, BuildSucceeds,
         BuildFails, ConfigChange, LockProject, UnlockProject, storeVars
<1>2. LiveContentComplete' /\ UploadPrefixDone' /\ PublishingComplete'
  BY <1>1, Zenon DEF LiveContentComplete, UploadPrefixDone, PublishingComplete,
              Complete, workerVars
<1>3. ASSUME NEW d \in Deployments, SkipBuild(d) \/ BuildSucceeds(d)
      PROVE  QueuedConfigJobsComplete'
  <2>1. [depl |-> d, skipWebroot |-> FALSE, skipInvalidation |-> FALSE] \in Job
    BY DEF Job
  <2>2. QED
    BY <1>1, <1>3, <2>1, EnqueueComplete DEF SkipBuild, BuildSucceeds,
       ContentTypes
<1>4. CASE ConfigChange
  <2>1. PICK skipInv \in BOOLEAN :
          Enqueue([depl |-> activeDeployment, skipWebroot |-> TRUE,
                   skipInvalidation |-> skipInv])
    BY <1>4, Zenon DEF ConfigChange
  <2>2. activeDeployment \in Deployments /\ Complete(activeDeployment)
    BY <1>4 DEF ConfigChange, LiveContentComplete, Complete, ContentTypes
  <2>3. [depl |-> activeDeployment, skipWebroot |-> TRUE,
         skipInvalidation |-> skipInv] \in Job
    BY <2>2 DEF Job
  <2>4. QueuedConfigJobsComplete'
    BY <1>1, <2>1, <2>2, <2>3, EnqueueComplete DEF ContentTypes
  <2>5. QED
    BY <1>2, <2>4 DEF ContentParts
<1>5. ASSUME \/ \E d \in Deployments :
                \/ UploadBundle(d) \/ RequestBuild(d) \/ BuildFails(d)
             \/ LockProject \/ UnlockProject
      PROVE  QueuedConfigJobsComplete'
  BY <1>1, <1>5 DEF UploadBundle, RequestBuild, BuildFails, LockProject,
     UnlockProject, QueuedConfigJobsComplete, Complete, queueVars
<1>6. QED
  BY <1>2, <1>3, <1>4, <1>5 DEF EnvNext, ContentParts

(* No domain's meta.json and no active_deployment_id ever names a prefix   *)
(* whose archive was not uploaded in full (deployer.go:125-211), for any    *)
(* number of deployments, workers, domains, files, failures and            *)
(* redeliveries.                                                           *)
THEOREM LiveContent == Spec => []LiveContentComplete
<1>1. Init => ContentInv
  <2> SUFFICES ASSUME Init PROVE ContentInv
    OBVIOUS
  <2>1. TypeInv
    BY InitTypeInv
  <2>2. LiveContentComplete /\ QueuedConfigJobsComplete
    BY ConstantsAssumption DEF Init, LiveContentComplete, QueuedConfigJobsComplete
  <2>3. UploadPrefixDone /\ PublishingComplete
    BY DEF Init, UploadPrefixDone, PublishingComplete
  <2>4. QED
    BY <2>1, <2>2, <2>3 DEF ContentInv
<1>2. ContentInv /\ [Next]_allVars => ContentInv'
  <2> SUFFICES ASSUME ContentInv, [Next]_allVars PROVE ContentInv'
    OBVIOUS
  <2>1. TypeInv'
    BY NextTypeInv DEF ContentInv
  <2>2. CASE \E w \in Workers : WorkerNext(w) /\ UNCHANGED configJobs
    <3>1. PICK w \in Workers : WorkerNext(w) /\ UNCHANGED configJobs
      BY <2>2
    <3>2. ContentParts'
      BY <3>1, LoadDeploymentContent, LoadProjectContent, UploadFileContent,
         EndOfArchiveContent, PublishContent, CommitContent, RequeueContent
         DEF WorkerNext
    <3>3. QED
      BY <2>1, <3>2 DEF ContentInv, ContentParts
  <2>3. CASE EnvNext
    BY <2>1, <2>3, EnvContent DEF ContentInv, ContentParts
  <2>4. CASE UNCHANGED allVars
    BY <2>1, <2>4 DEF ContentInv, LiveContentComplete, QueuedConfigJobsComplete,
       UploadPrefixDone, PublishingComplete, Complete, allVars, vars, storeVars,
       queueVars, workerVars
  <2>5. QED
    BY <2>2, <2>3, <2>4 DEF Next
<1>3. ContentInv => LiveContentComplete
  BY DEF ContentInv
<1>4. QED
  BY <1>1, <1>2, <1>3, PTL DEF Spec
=============================================================================
