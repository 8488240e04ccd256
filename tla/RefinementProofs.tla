-------------------------- MODULE RefinementProofs --------------------------
(***************************************************************************)
(* Machine-checked proof that Pipeline implements Lifecycle under the      *)
(* refinement mapping state <- deplState, active <- activeDeployment, for  *)
(* every value of the constants.  It rests on the type invariant and on    *)
(* ActiveIsDeployed, proved in PipelineProofs.                             *)
(***************************************************************************)
EXTENDS PipelineProofs

USE ConstantsAssumption, PipelineAssumption

Ready == {"pending_deploy", "deployed"}

(* Why the activation is always legal.  A Deploy job is enqueued only for *)
(* a deployment that is pending_deploy (SkipBuild, BuildSucceeds) or      *)
(* active, hence deployed (ConfigChange); a failed or redelivered job is   *)
(* one a worker held; and the only writers of deployments.state that start *)
(* from pending_deploy or deployed move it to deployed.                    *)
JobsReady ==
    /\ \A j \in Job : queue[j] > 0 => deplState[j.depl] \in Ready
    /\ \A w \in Workers : pc[w] # "idle" => deplState[job[w].depl] \in Ready

RefInv == TypeInv /\ ActiveIsDeployed /\ JobsReady


-----------------------------------------------------------------------------
(* JobsReady is preserved by a step that keeps every ready deployment      *)
(* ready and whose queued and held jobs are either old ones or ready.      *)
LEMMA ReadyPreserved ==
  ASSUME JobsReady,
         \A x \in Deployments : deplState[x] \in Ready => deplState'[x] \in Ready,
         \A j \in Job : queue'[j] > 0 =>
            \/ queue[j] > 0 /\ j.depl \in Deployments
            \/ deplState'[j.depl] \in Ready,
         \A v \in Workers : pc'[v] # "idle" =>
            \/ pc[v] # "idle" /\ job'[v] = job[v] /\ job[v].depl \in Deployments
            \/ deplState'[job'[v].depl] \in Ready
  PROVE  JobsReady'
BY DEF JobsReady

LEMMA InitReady == Init => JobsReady
BY DEF Init, JobsReady

(* A step that leaves deployments.state and the queue alone and gives no   *)
(* worker a new job keeps JobsReady.                                       *)
LEMMA QuietStep ==
  ASSUME TypeInv, JobsReady,
         deplState' = deplState, queue' = queue,
         \A v \in Workers : pc'[v] # "idle" => pc[v] # "idle" /\ job'[v] = job[v]
  PROVE  JobsReady'
BY ReadyPreserved DEF TypeInv, TypeOK, WorkerJobs, Job

(* Finish(w) idles w and leaves the other workers' jobs alone.             *)
LEMMA FinishHeld ==
  ASSUME TypeInv, NEW w \in Workers, Finish(w)
  PROVE  \A v \in Workers : pc'[v] # "idle" => pc[v] # "idle" /\ job'[v] = job[v]
BY DEF Finish, TypeInv, TypeOK

LEMMA WorkerReady ==
  ASSUME TypeInv, ActiveIsDeployed, JobsReady, NEW w \in Workers, WorkerNext(w)
  PROVE  JobsReady'
<1>1. CASE LoadDeployment(w)
  <2>1. PICK j \in Job :
          /\ queue[j] > 0
          /\ queue' = [queue EXCEPT ![j] = @ - 1]
          /\ \/ UNCHANGED workerVars
             \/ pc' = [pc EXCEPT ![w] = "loadProject"] /\ job' = [job EXCEPT ![w] = j]
    BY <1>1 DEF LoadDeployment
  <2>2. deplState' = deplState
    BY <1>1 DEF LoadDeployment, storeVars
  <2>3. \A k \in Job : queue'[k] > 0 => queue[k] > 0 /\ k.depl \in Deployments
    BY <2>1 DEF TypeInv, TypeOK, Job
  <2>4. deplState[j.depl] \in Ready
    BY <2>1 DEF JobsReady
  <2>5. \A v \in Workers : pc'[v] # "idle" =>
            \/ pc[v] # "idle" /\ job'[v] = job[v] /\ job[v].depl \in Deployments
            \/ deplState'[job'[v].depl] \in Ready
    BY <2>1, <2>2, <2>4 DEF workerVars, TypeInv, TypeOK, WorkerJobs, Job
  <2>6. QED
    BY <2>2, <2>3, <2>5, ReadyPreserved
<1>2. CASE LoadProject(w) \/ EndOfArchive(w)
  <2>1. deplState' = deplState /\ queue' = queue
    BY <1>2 DEF LoadProject, EndOfArchive, CheckLock, ReturnTerminalError, storeVars
  <2>2. \/ Finish(w)
        \/ /\ \/ pc' = [pc EXCEPT ![w] = "listDomains"]
              \/ pc' = [pc EXCEPT ![w] = "upload"]
           /\ job' = job
    BY <1>2 DEF LoadProject, EndOfArchive, CheckLock, ReturnTerminalError
  <2>3. \A v \in Workers : pc'[v] # "idle" => pc[v] # "idle" /\ job'[v] = job[v]
    <3>1. CASE Finish(w)
      BY <3>1, FinishHeld
    <3>2. CASE ~Finish(w)
      <4>1. pc[w] # "idle"
        BY <1>2 DEF LoadProject, EndOfArchive
      <4>2. QED
        BY <2>2, <3>2, <4>1 DEF TypeInv, TypeOK
    <3>3. QED
      BY <3>1, <3>2
  <2>4. QED
    BY <2>1, <2>3, QuietStep
<1>3. CASE UploadFile(w) \/ ListDomains(w) \/ UploadMeta(w) \/ PublishInvalidation(w)
  <2>1. deplState' = deplState /\ queue' = queue
    BY <1>3 DEF UploadFile, ListDomains, UploadMeta, PublishInvalidation, storeVars, queueVars
  <2>2. pc[w] # "idle" /\ job' = job
    BY <1>3 DEF UploadFile, ListDomains, UploadMeta, PublishInvalidation
  <2>3. \A v \in Workers : pc'[v] = pc[v] \/ (v = w /\ pc'[v] # "idle")
    BY <1>3 DEF UploadFile, ListDomains, UploadMeta, PublishInvalidation, TypeInv, TypeOK
  <2>4. \A v \in Workers : pc'[v] # "idle" => pc[v] # "idle" /\ job'[v] = job[v]
    BY <2>2, <2>3 DEF TypeInv, TypeOK
  <2>5. QED
    BY <2>1, <2>4, QuietStep
<1>4. CASE Commit(w)
  <2>1. deplState' = [deplState EXCEPT ![job[w].depl] = "deployed"] /\ queue' = queue
    BY <1>4 DEF Commit, queueVars
  <2>2. job[w] \in Job
    BY <1>4 DEF Commit, TypeInv, WorkerJobs
  <2>3. \A x \in Deployments : deplState[x] \in Ready => deplState'[x] \in Ready
    BY <2>1, <2>2 DEF TypeInv, TypeOK, Job, Ready
  <2>4. \A v \in Workers : pc'[v] # "idle" => pc[v] # "idle" /\ job'[v] = job[v]
    BY <1>4, FinishHeld DEF Commit
  <2>5. QED
    BY <2>1, <2>3, <2>4, ReadyPreserved DEF TypeInv, TypeOK, WorkerJobs, Job, JobsReady
<1>5. CASE Fail(w)
  <2>1. deplState' = deplState /\ queue' = [queue EXCEPT ![job[w]] = @ + 1]
    BY <1>5 DEF Fail, ReturnTransientError, Enqueue, storeVars
  <2>2. job[w] \in Job /\ deplState[job[w].depl] \in Ready
    BY <1>5 DEF Fail, TypeInv, WorkerJobs, JobsReady
  <2>3. \A v \in Workers : pc'[v] # "idle" => pc[v] # "idle" /\ job'[v] = job[v]
    BY <1>5, FinishHeld DEF Fail, ReturnTransientError
  <2>4. QED
    BY <2>1, <2>2, <2>3, ReadyPreserved DEF TypeInv, TypeOK, WorkerJobs, Job
<1>6. CASE Redeliver(w)
  <2>1. deplState' = deplState /\ queue' = [queue EXCEPT ![job[w]] = @ + 1]
    BY <1>6 DEF Redeliver, Enqueue, storeVars
  <2>2. job[w] \in Job /\ deplState[job[w].depl] \in Ready
    BY <1>6 DEF Redeliver, TypeInv, WorkerJobs, JobsReady
  <2>3. UNCHANGED <<pc, job>>
    BY <1>6 DEF Redeliver, workerVars
  <2>4. QED
    BY <2>1, <2>2, <2>3, ReadyPreserved DEF TypeInv, TypeOK, WorkerJobs, Job
<1>7. QED
  BY <1>1, <1>2, <1>3, <1>4, <1>5, <1>6 DEF WorkerNext

(* The API server and the build worker only move a deployment that is not *)
(* ready, so no queued or held job names it; SkipBuild and BuildSucceeds  *)
(* enqueue the job of a deployment they make pending_deploy; ConfigChange *)
(* enqueues a job of the active, hence deployed, deployment.               *)
LEMMA EnvReady ==
  ASSUME TypeInv, ActiveIsDeployed, JobsReady, EnvNext
  PROVE  JobsReady'
<1>1. ASSUME NEW d \in Deployments,
             \/ UploadBundle(d) \/ RequestBuild(d) \/ BuildFails(d)
      PROVE  JobsReady'
  <2>1. deplState[d] \notin Ready /\ queue' = queue /\ UNCHANGED <<pc, job>>
    BY <1>1 DEF UploadBundle, RequestBuild, BuildFails, Ready, queueVars, workerVars
  <2>2. deplState' = [deplState EXCEPT ![d] = deplState'[d]]
    BY <1>1 DEF UploadBundle, RequestBuild, BuildFails
  <2>3. \A x \in Deployments : deplState[x] \in Ready => deplState'[x] \in Ready
    BY <2>1, <2>2 DEF TypeInv, TypeOK
  <2>4. QED
    BY <2>1, <2>3, ReadyPreserved DEF TypeInv, TypeOK, WorkerJobs, Job
<1>2. ASSUME NEW d \in Deployments, SkipBuild(d) \/ BuildSucceeds(d)
      PROVE  JobsReady'
  <2> DEFINE j == [depl |-> d, skipWebroot |-> FALSE, skipInvalidation |-> FALSE]
  <2>1. /\ deplState' = [deplState EXCEPT ![d] = "pending_deploy"]
        /\ queue' = [queue EXCEPT ![j] = @ + 1]
        /\ UNCHANGED <<pc, job>>
    BY <1>2 DEF SkipBuild, BuildSucceeds, Enqueue, workerVars
  <2>2. \A x \in Deployments : deplState[x] \in Ready => deplState'[x] \in Ready
    BY <2>1 DEF TypeInv, TypeOK, Ready
  <2>3. j \in Job
    BY DEF Job
  <2>4. QED
    BY <2>1, <2>2, <2>3, ReadyPreserved DEF TypeInv, TypeOK, WorkerJobs, Job, Ready
<1>3. CASE ConfigChange
  <2>1. PICK skipInv \in BOOLEAN :
          queue' = [queue EXCEPT ![[depl |-> activeDeployment, skipWebroot |-> TRUE,
                                   skipInvalidation |-> skipInv]] = @ + 1]
    BY <1>3 DEF ConfigChange, Enqueue
  <2>2. activeDeployment \in Deployments /\ deplState[activeDeployment] \in Ready
    BY <1>3 DEF ConfigChange, ActiveIsDeployed, TypeInv, TypeOK, Ready
  <2>3. deplState' = deplState /\ UNCHANGED <<pc, job>>
    BY <1>3 DEF ConfigChange, storeVars, workerVars
  <2>4. QED
    BY <2>1, <2>2, <2>3, ReadyPreserved DEF TypeInv, TypeOK, WorkerJobs, Job
<1>4. CASE LockProject \/ UnlockProject
  BY <1>4, QuietStep DEF LockProject, UnlockProject, queueVars, workerVars
<1>5. QED
  BY <1>1, <1>2, <1>3, <1>4 DEF EnvNext

LEMMA NextRefInv == RefInv /\ [Next]_allVars => RefInv'
<1> SUFFICES ASSUME RefInv, [Next]_allVars PROVE RefInv'
  OBVIOUS
<1>1. TypeInv'
  BY NextTypeInv DEF RefInv
<1>2. ActiveIsDeployed'
  <2>1. CASE \E w \in Workers : WorkerNext(w) /\ UNCHANGED configJobs
    BY <2>1, WorkerActive DEF RefInv
  <2>2. CASE EnvNext
    BY <2>2, EnvActive DEF RefInv
  <2>3. CASE UNCHANGED allVars
    BY <2>3, Zenon DEF RefInv, ActiveIsDeployed, allVars, vars, storeVars
  <2>4. QED
    BY <2>1, <2>2, <2>3 DEF Next
<1>3. JobsReady'
  <2>1. CASE \E w \in Workers : WorkerNext(w) /\ UNCHANGED configJobs
    BY <2>1, WorkerReady DEF RefInv
  <2>2. CASE EnvNext
    BY <2>2, EnvReady DEF RefInv
  <2>3. CASE UNCHANGED allVars
    BY <2>3, Zenon DEF RefInv, JobsReady, allVars, vars, storeVars, queueVars, workerVars
  <2>4. QED
    BY <2>1, <2>2, <2>3 DEF Next
<1>4. QED
  BY <1>1, <1>2, <1>3 DEF RefInv

-----------------------------------------------------------------------------
(* Every step of Pipeline is a step of Lifecycle or leaves deployments.    *)
(* state and the active pointer alone.                                     *)
LEMMA WorkerRefines ==
  ASSUME RefInv, NEW w \in Workers, WorkerNext(w)
  PROVE  [Life!Next]_<<deplState, activeDeployment>>
<1>1. CASE Commit(w)
  <2>1. job[w] \in Job /\ deplState[job[w].depl] \in Ready
    BY <1>1 DEF Commit, RefInv, TypeInv, WorkerJobs, JobsReady
  <2>2. Life!Activate(job[w].depl)
    BY <1>1, <2>1 DEF Commit, Life!Activate, Ready
  <2>3. QED
    BY <2>1, <2>2 DEF Life!Next, Job
<1>2. CASE ~Commit(w)
  BY <1>2, Zenon DEF WorkerNext, LoadDeployment, LoadProject, UploadFile,
                EndOfArchive, CheckLock, ReturnTerminalError, ListDomains,
                UploadMeta, PublishInvalidation, Fail, ReturnTransientError,
                Redeliver, storeVars
<1>3. QED
  BY <1>1, <1>2

LEMMA EnvRefines ==
  ASSUME RefInv, EnvNext
  PROVE  [Life!Next]_<<deplState, activeDeployment>>
<1>1. ASSUME NEW d \in Deployments, NEW s \in Life!States,
             deplState' = [deplState EXCEPT ![d] = s],
             <<deplState[d], s>> \in Life!Edges,
             activeDeployment' = activeDeployment
      PROVE  Life!Next
  BY <1>1 DEF Life!Next, Life!Advance
<1>2. CASE \E d \in Deployments : UploadBundle(d)
  BY <1>2, <1>1 DEF UploadBundle, Life!States, Life!Edges
<1>3. CASE \E d \in Deployments : RequestBuild(d)
  BY <1>3, <1>1 DEF RequestBuild, Life!States, Life!Edges
<1>4. CASE \E d \in Deployments : SkipBuild(d)
  BY <1>4, <1>1 DEF SkipBuild, Life!States, Life!Edges
<1>5. CASE \E d \in Deployments : BuildSucceeds(d)
  BY <1>5, <1>1 DEF BuildSucceeds, Life!States, Life!Edges
<1>6. CASE \E d \in Deployments : BuildFails(d)
  BY <1>6, <1>1 DEF BuildFails, Life!States, Life!Edges
<1>7. CASE ConfigChange \/ LockProject \/ UnlockProject
  BY <1>7 DEF ConfigChange, LockProject, UnlockProject, storeVars
<1>8. QED
  BY <1>2, <1>3, <1>4, <1>5, <1>6, <1>7 DEF EnvNext

(* Pipeline implements the deployment state machine of Lifecycle, for any *)
(* number of deployments, workers, domains, failures and deliveries: every *)
(* state change of the API server, the build worker and the deploy worker *)
(* (deployer.go:195-211) is a legal transition or an activation.           *)
THEOREM Refinement == Spec => LifecycleRefined
<1>1. Init => RefInv
  BY InitTypeInv, InitReady DEF Init, RefInv, ActiveIsDeployed
<1>2. Init => Life!Init
  BY DEF Init, Life!Init
<1>3. RefInv /\ [Next]_allVars => [Life!Next]_<<deplState, activeDeployment>>
  <2> SUFFICES ASSUME RefInv, [Next]_allVars
               PROVE  [Life!Next]_<<deplState, activeDeployment>>
    OBVIOUS
  <2>1. CASE \E w \in Workers : WorkerNext(w) /\ UNCHANGED configJobs
    BY <2>1, WorkerRefines
  <2>2. CASE EnvNext
    BY <2>2, EnvRefines
  <2>3. CASE UNCHANGED allVars
    BY <2>3 DEF allVars, vars, storeVars
  <2>4. QED
    BY <2>1, <2>2, <2>3 DEF Next
<1>4. QED
  BY <1>1, <1>2, <1>3, NextRefInv, PTL DEF Spec, LifecycleRefined, Life!Spec

=============================================================================
