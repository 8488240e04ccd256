--------------------------- MODULE PipelineProofs ---------------------------
(***************************************************************************)
(* Machine-checked proofs about Pipeline for every value of its constants: *)
(* type correctness, and that the activation transaction keeps the        *)
(* project's active deployment in state deployed.  ContentProofs builds on *)
(* them.                                                                   *)
(***************************************************************************)
EXTENDS Pipeline, TLAPS

(* A worker that is not idle holds a real job: the one it dequeued.        *)
WorkerJobs == \A w \in Workers : pc[w] # "idle" => job[w] \in Job

(* TypeOK alone is not inductive: the steps that enqueue or write through  *)
(* job[w] need job[w] to be a job, which holds only for busy workers.      *)
TypeInv == TypeOK /\ WorkerJobs

USE ConstantsAssumption, PipelineAssumption

-----------------------------------------------------------------------------
(* Enqueueing a job keeps the queue a multiset of jobs.                    *)
LEMMA EnqueueType ==
  ASSUME NEW j \in Job, queue \in [Job -> Nat], Enqueue(j)
  PROVE  queue' \in [Job -> Nat]
  BY DEF Enqueue

LEMMA InitTypeInv == Init => TypeInv
<1> SUFFICES ASSUME Init PROVE TypeInv
  OBVIOUS
<1>1. deplState \in [Deployments -> States]
  BY DEF Init, States
<1>8. activeDeployment \in Deployments \cup {NoDeployment}
  BY DEF Init
<1>9. lockedAt \in BOOLEAN
  BY Zenon DEF Init
<1>10. webroot \in [Deployments -> SUBSET Files]
  BY DEF Init
<1>11. meta \in [Domains -> Deployments \cup {NoDeployment}]
  BY DEF Init
<1>12. broadcasts \in SUBSET SUBSET Domains
  BY DEF Init
<1>7. queue \in [Job -> Nat]
  BY Zenon DEF Init
<1>2. /\ deliveries \in 0..MaxDeliveries
      /\ failures \in 0..MaxFailures
      /\ configJobs \in 0..MaxConfigJobs
  BY DEF Init
<1>3. /\ pc \in [Workers -> PCs]
      /\ job \in [Workers -> Job \cup {NoJob}]
      /\ sDepl \in [Workers -> States]
      /\ sLocked \in [Workers -> BOOLEAN]
      /\ domainNames \in [Workers -> SUBSET Domains]
      /\ todo \in [Workers -> SUBSET Domains]
  BY DEF Init, PCs, States
<1>4. nextFile \in [Workers -> 1..(NFiles + 1)]
  BY DEF Init
<1>5. WorkerJobs
  BY DEF Init, WorkerJobs
<1>6. QED
  BY <1>1, <1>2, <1>3, <1>4, <1>5, <1>7, <1>8, <1>9, <1>10, <1>11, <1>12
     DEF TypeInv, TypeOK

(* TypeOK split by the part of the state it constrains, so that a proof   *)
(* step only carries the conjuncts an action can disturb.                  *)
StoreTypes ==
    /\ deplState \in [Deployments -> States]
    /\ activeDeployment \in Deployments \cup {NoDeployment}
    /\ webroot \in [Deployments -> SUBSET Files]
    /\ meta \in [Domains -> Deployments \cup {NoDeployment}]
    /\ broadcasts \in SUBSET SUBSET Domains

QueueTypes ==
    /\ queue \in [Job -> Nat]
    /\ deliveries \in 0..MaxDeliveries
    /\ failures \in 0..MaxFailures
    /\ configJobs \in 0..MaxConfigJobs

WorkerTypes ==
    /\ pc \in [Workers -> PCs]
    /\ job \in [Workers -> Job \cup {NoJob}]
    /\ sDepl \in [Workers -> States]
    /\ nextFile \in [Workers -> 1..(NFiles + 1)]
    /\ domainNames \in [Workers -> SUBSET Domains]
    /\ todo \in [Workers -> SUBSET Domains]

(* The lock flags are kept apart: Z3 handles membership of a Boolean      *)
(* variable in BOOLEAN poorly, so these two are left to Zenon.             *)
BoolTypes ==
    /\ lockedAt \in BOOLEAN
    /\ sLocked \in [Workers -> BOOLEAN]

LEMMA TypeSplit ==
  TypeInv <=> StoreTypes /\ QueueTypes /\ WorkerTypes /\ BoolTypes /\ WorkerJobs
  BY Zenon DEF TypeInv, TypeOK, StoreTypes, QueueTypes, WorkerTypes, BoolTypes

(* The project lock is only ever set or cleared, and a worker's snapshot   *)
(* of it is only ever reset or copied from the project row.                *)
LEMMA LockFrame ==
  ASSUME [Next]_allVars
  PROVE  /\ lockedAt' \in {lockedAt, TRUE, FALSE}
         /\ \/ sLocked' = sLocked
            \/ \E w \in Workers : \/ sLocked' = [sLocked EXCEPT ![w] = FALSE]
                                 \/ sLocked' = [sLocked EXCEPT ![w] = lockedAt]
<1>1. CASE \E w \in Workers : WorkerNext(w) /\ UNCHANGED configJobs
  <2>1. PICK w \in Workers : WorkerNext(w)
    BY <1>1
  <2>2. lockedAt' = lockedAt
    BY <2>1 DEF WorkerNext, LoadDeployment, LoadProject, ReturnTerminalError,
                UploadFile, EndOfArchive, CheckLock, ListDomains, UploadMeta,
                PublishInvalidation, Commit, Fail, ReturnTransientError,
                Redeliver, storeVars
  <2>3. \/ sLocked' = sLocked
        \/ sLocked' = [sLocked EXCEPT ![w] = FALSE]
        \/ sLocked' = [sLocked EXCEPT ![w] = lockedAt]
    BY <2>1 DEF WorkerNext, LoadDeployment, LoadProject, ReturnTerminalError,
                UploadFile, EndOfArchive, CheckLock, ListDomains, UploadMeta,
                PublishInvalidation, Commit, Fail, ReturnTransientError,
                Redeliver, Finish, workerVars
  <2>4. QED
    BY <2>2, <2>3
<1>2. CASE EnvNext
  BY <1>2, Zenon DEF EnvNext, UploadBundle, RequestBuild, SkipBuild, BuildSucceeds,
              BuildFails, ConfigChange, LockProject, UnlockProject, storeVars,
              workerVars
<1>3. CASE UNCHANGED allVars
  BY <1>3 DEF allVars, vars, storeVars, workerVars
<1>4. QED
  BY <1>1, <1>2, <1>3, Zenon DEF Next

LEMMA NextBoolTypes ==
  ASSUME BoolTypes, [Next]_allVars
  PROVE  BoolTypes'
<1>1. lockedAt' \in BOOLEAN
  BY LockFrame, Zenon DEF BoolTypes
<1>2. sLocked' \in [Workers -> BOOLEAN]
  BY LockFrame, Zenon DEF BoolTypes
<1>3. QED
  BY <1>1, <1>2 DEF BoolTypes

(* Work returning leaves the worker idle with well-typed locals.           *)
LEMMA FinishType ==
  ASSUME WorkerTypes, WorkerJobs, NEW w \in Workers, Finish(w)
  PROVE  WorkerTypes' /\ WorkerJobs'
<1>1. pc' \in [Workers -> PCs] /\ pc'[w] = "idle"
  BY DEF WorkerTypes, Finish, PCs
<1>2. job' \in [Workers -> Job \cup {NoJob}]
  BY DEF WorkerTypes, Finish
<1>3. sDepl' \in [Workers -> States]
  BY DEF WorkerTypes, Finish, States
<1>5. nextFile' \in [Workers -> 1..(NFiles + 1)]
  BY DEF WorkerTypes, Finish
<1>6. domainNames' \in [Workers -> SUBSET Domains] /\ todo' \in [Workers -> SUBSET Domains]
  BY DEF WorkerTypes, Finish
<1>7. WorkerJobs'
  BY <1>1 DEF WorkerTypes, WorkerJobs, Finish
<1>8. QED
  BY <1>1, <1>2, <1>3, <1>5, <1>6, <1>7 DEF WorkerTypes

(* Every step of a worker keeps TypeInv; one step per action, and under   *)
(* it one per part of the state the action writes.                         *)
LEMMA WorkerTypeInv ==
  ASSUME TypeInv, NEW w \in Workers, WorkerNext(w), UNCHANGED configJobs
  PROVE  StoreTypes' /\ QueueTypes' /\ WorkerTypes' /\ WorkerJobs'
<1>0. StoreTypes /\ QueueTypes /\ WorkerTypes /\ WorkerJobs
  BY TypeSplit, Zenon
<1>. USE <1>0
<1>1. CASE LoadDeployment(w)
  <2>1. PICK j \in Job : /\ queue[j] > 0
                         /\ deliveries' = deliveries + 1
                         /\ UNCHANGED failures
                         /\ IF deplState[j.depl] \in {"uploaded", "pending_upload"}
                            THEN /\ queue' = [queue EXCEPT ![j] = @ - 1]
                                 /\ UNCHANGED workerVars
                            ELSE /\ queue' = [queue EXCEPT ![j] = @ - 1]
                                 /\ pc' = [pc EXCEPT ![w] = "loadProject"]
                                 /\ job' = [job EXCEPT ![w] = j]
                                 /\ sDepl' = [sDepl EXCEPT ![w] = deplState[j.depl]]
                                 /\ UNCHANGED <<sLocked, nextFile, domainNames, todo>>
    BY <1>1 DEF LoadDeployment
  <2>2. StoreTypes'
    BY <1>1 DEF LoadDeployment, StoreTypes, storeVars
  <2>3. QueueTypes'
    BY <1>1, <2>1 DEF LoadDeployment, QueueTypes
  <2>4. ASSUME deplState[j.depl] \in {"uploaded", "pending_upload"}
        PROVE  WorkerTypes' /\ WorkerJobs'
    BY <2>1, <2>4 DEF WorkerTypes, WorkerJobs, workerVars
  <2>5. ASSUME deplState[j.depl] \notin {"uploaded", "pending_upload"}
        PROVE  WorkerTypes' /\ WorkerJobs'
    <3>1. deplState[j.depl] \in States
      BY DEF StoreTypes, Job
    <3>2. QED
      BY <2>1, <2>5, <3>1 DEF WorkerTypes, WorkerJobs, PCs
  <2>6. QED
    BY <2>2, <2>3, <2>4, <2>5
<1>2. CASE LoadProject(w)
  <2>1. StoreTypes' /\ QueueTypes'
    BY <1>2 DEF LoadProject, ReturnTerminalError, StoreTypes, QueueTypes,
                storeVars, counters
  <2>2. ASSUME job[w].skipWebroot /\ lockedAt
        PROVE  WorkerTypes' /\ WorkerJobs'
    BY <1>2, <2>2, FinishType DEF LoadProject, ReturnTerminalError
  <2>3. ASSUME job[w].skipWebroot /\ ~lockedAt
        PROVE  WorkerTypes' /\ WorkerJobs'
    BY <1>2, <2>3 DEF LoadProject, WorkerTypes, WorkerJobs, PCs
  <2>4. ASSUME ~job[w].skipWebroot /\ sDepl[w] = "deployed"
        PROVE  WorkerTypes' /\ WorkerJobs'
    BY <1>2, <2>4, FinishType DEF LoadProject, ReturnTerminalError
  <2>5. ASSUME ~job[w].skipWebroot /\ sDepl[w] # "deployed"
        PROVE  WorkerTypes' /\ WorkerJobs'
    BY <1>2, <2>5 DEF LoadProject, WorkerTypes, WorkerJobs, PCs
  <2>6. QED
    BY <2>1, <2>2, <2>3, <2>4, <2>5
<1>3. CASE UploadFile(w)
  <2>1. job[w] \in Job
    BY <1>3 DEF UploadFile, WorkerJobs
  <2>2. StoreTypes'
    BY <1>3, <2>1 DEF UploadFile, StoreTypes, WorkerTypes, Job, Files
  <2>3. QED
    BY <1>3, <2>2 DEF UploadFile, QueueTypes, WorkerTypes, WorkerJobs, queueVars,
                      counters
<1>4. CASE EndOfArchive(w)
  <2>1. StoreTypes' /\ QueueTypes'
    BY <1>4 DEF EndOfArchive, CheckLock, ReturnTerminalError, StoreTypes,
                QueueTypes, storeVars, counters
  <2>2. ASSUME sLocked[w] PROVE WorkerTypes' /\ WorkerJobs'
    BY <1>4, <2>2, FinishType DEF EndOfArchive, CheckLock, ReturnTerminalError
  <2>3. ASSUME ~sLocked[w] PROVE WorkerTypes' /\ WorkerJobs'
    BY <1>4, <2>3 DEF EndOfArchive, CheckLock, WorkerTypes, WorkerJobs, PCs
  <2>4. QED
    BY <2>1, <2>2, <2>3
<1>5. CASE ListDomains(w)
  BY <1>5 DEF ListDomains, StoreTypes, QueueTypes, WorkerTypes, WorkerJobs, PCs,
              storeVars, queueVars, counters
<1>6. CASE UploadMeta(w)
  <2>1. job[w] \in Job
    BY <1>6 DEF UploadMeta, WorkerJobs
  <2>2. StoreTypes'
    BY <1>6, <2>1, Zenon DEF UploadMeta, StoreTypes, Job
  <2>3. QED
    BY <1>6, <2>2 DEF UploadMeta, QueueTypes, WorkerTypes, WorkerJobs, PCs,
                      queueVars, counters
<1>7. CASE PublishInvalidation(w)
  BY <1>7 DEF PublishInvalidation, StoreTypes, QueueTypes, WorkerTypes,
              WorkerJobs, PCs, queueVars, counters
<1>8. CASE Commit(w)
  <2>1. job[w] \in Job
    BY <1>8 DEF Commit, WorkerJobs
  <2>2. StoreTypes'
    BY <1>8, <2>1 DEF Commit, StoreTypes, Job, States
  <2>3. QueueTypes'
    BY <1>8 DEF Commit, QueueTypes, queueVars, counters
  <2>4. QED
    BY <1>8, <2>2, <2>3, FinishType DEF Commit
<1>9. CASE Fail(w)
  <2>1. job[w] \in Job
    BY <1>9 DEF Fail, WorkerJobs
  <2>2. queue' \in [Job -> Nat]
    BY <1>9, <2>1, EnqueueType DEF Fail, ReturnTransientError, QueueTypes
  <2>3. QueueTypes'
    BY <1>9, <2>2 DEF Fail, QueueTypes
  <2>4. StoreTypes'
    BY <1>9 DEF Fail, StoreTypes, storeVars
  <2>5. QED
    BY <1>9, <2>3, <2>4, FinishType DEF Fail, ReturnTransientError
<1>10. CASE Redeliver(w)
  <2>1. job[w] \in Job
    BY <1>10 DEF Redeliver, WorkerJobs
  <2>2. queue' \in [Job -> Nat]
    BY <1>10, <2>1, EnqueueType DEF Redeliver, QueueTypes
  <2>3. QED
    BY <1>10, <2>2 DEF Redeliver, StoreTypes, QueueTypes, WorkerTypes,
                       WorkerJobs, storeVars, workerVars
<1>11. QED
  BY <1>1, <1>2, <1>3, <1>4, <1>5, <1>6, <1>7, <1>8, <1>9, <1>10 DEF WorkerNext

(* Every step of the environment keeps TypeInv.                            *)
LEMMA EnvTypeInv ==
  ASSUME TypeInv, EnvNext
  PROVE  StoreTypes' /\ QueueTypes' /\ WorkerTypes' /\ WorkerJobs'
<1>0. StoreTypes /\ QueueTypes /\ WorkerTypes /\ WorkerJobs
  BY TypeSplit, Zenon
<1>. USE <1>0 DEF StoreTypes, QueueTypes, WorkerTypes, WorkerJobs, storeVars,
                 queueVars, counters, workerVars
<1>1. ASSUME NEW d \in Deployments,
             UploadBundle(d) \/ RequestBuild(d) \/ BuildFails(d)
      PROVE  StoreTypes' /\ QueueTypes' /\ WorkerTypes' /\ WorkerJobs'
  BY <1>1 DEF UploadBundle, RequestBuild, BuildFails, States
<1>2. ASSUME NEW d \in Deployments, SkipBuild(d) \/ BuildSucceeds(d)
      PROVE  StoreTypes' /\ QueueTypes' /\ WorkerTypes' /\ WorkerJobs'
  <2>1. [depl |-> d, skipWebroot |-> FALSE, skipInvalidation |-> FALSE] \in Job
    BY DEF Job
  <2>2. queue' \in [Job -> Nat]
    BY <1>2, <2>1, EnqueueType DEF SkipBuild, BuildSucceeds
  <2>3. QED
    BY <1>2, <2>2 DEF SkipBuild, BuildSucceeds, States
<1>3. CASE ConfigChange
  <2>1. PICK skipInv \in BOOLEAN :
          Enqueue([depl |-> activeDeployment, skipWebroot |-> TRUE,
                   skipInvalidation |-> skipInv])
    BY <1>3, Zenon DEF ConfigChange
  <2>2. activeDeployment \in Deployments
    BY <1>3 DEF ConfigChange
  <2>3. [depl |-> activeDeployment, skipWebroot |-> TRUE,
         skipInvalidation |-> skipInv] \in Job
    BY <2>2 DEF Job
  <2>4. queue' \in [Job -> Nat]
    BY <2>1, <2>3, EnqueueType
  <2>5. QED
    BY <1>3, <2>4 DEF ConfigChange
<1>4. CASE LockProject \/ UnlockProject
  BY <1>4 DEF LockProject, UnlockProject
<1>5. QED
  BY <1>1, <1>2, <1>3, <1>4 DEF EnvNext

LEMMA NextTypeInv == TypeInv /\ [Next]_allVars => TypeInv'
<1> SUFFICES ASSUME TypeInv, [Next]_allVars PROVE TypeInv'
  OBVIOUS
<1>1. BoolTypes'
  BY NextBoolTypes, TypeSplit, Zenon
<1>2. StoreTypes' /\ QueueTypes' /\ WorkerTypes' /\ WorkerJobs'
  <2>1. CASE \E w \in Workers : WorkerNext(w) /\ UNCHANGED configJobs
    BY <2>1, WorkerTypeInv
  <2>2. CASE EnvNext
    BY <2>2, EnvTypeInv
  <2>3. CASE UNCHANGED allVars
    <3>1. StoreTypes /\ QueueTypes /\ WorkerTypes /\ WorkerJobs
      BY TypeSplit, Zenon
    <3>2. QED
      BY <2>3, <3>1 DEF StoreTypes, QueueTypes, WorkerTypes, WorkerJobs,
         allVars, vars, storeVars, queueVars, counters, workerVars
  <2>4. QED
    BY <2>1, <2>2, <2>3 DEF Next
<1>3. QED
  BY <1>1, <1>2, Zenon DEF TypeInv, TypeOK, StoreTypes, QueueTypes, WorkerTypes,
                          BoolTypes

(* Type correctness of the pipeline: every reachable state satisfies      *)
(* TypeOK, for every set of deployments, workers and domains and every    *)
(* bound.                                                                  *)
THEOREM TypeCorrect == Spec => []TypeOK
<1>1. TypeInv => TypeOK
  BY DEF TypeInv
<1>2. QED
  BY <1>1, InitTypeInv, NextTypeInv, PTL DEF Spec

-----------------------------------------------------------------------------
(* Only the activation transaction writes the active pointer, and it sets  *)
(* the deployment's state in the same step; the other writers of           *)
(* deployments.state start from a state other than deployed.               *)
LEMMA WorkerActive ==
  ASSUME TypeInv, ActiveIsDeployed, NEW w \in Workers, WorkerNext(w)
  PROVE  ActiveIsDeployed'
<1>1. CASE Commit(w)
  BY <1>1 DEF Commit, ActiveIsDeployed, TypeInv, TypeOK, WorkerJobs, Job
<1>2. CASE ~Commit(w)
  <2>1. UNCHANGED <<deplState, activeDeployment>>
    BY <1>2, Zenon DEF WorkerNext, LoadDeployment, LoadProject, UploadFile,
                EndOfArchive, CheckLock, ReturnTerminalError, ListDomains,
                UploadMeta, PublishInvalidation, Fail, ReturnTransientError,
                Redeliver, storeVars
  <2>2. QED
    BY <2>1 DEF ActiveIsDeployed
<1>3. QED
  BY <1>1, <1>2

LEMMA EnvActive ==
  ASSUME TypeInv, ActiveIsDeployed, EnvNext
  PROVE  ActiveIsDeployed'
<1>1. ASSUME NEW d \in Deployments,
             \/ UploadBundle(d) \/ RequestBuild(d) \/ SkipBuild(d)
             \/ BuildSucceeds(d) \/ BuildFails(d)
      PROVE  ActiveIsDeployed'
  <2>1. deplState[d] # "deployed" /\ activeDeployment' = activeDeployment
    BY <1>1 DEF UploadBundle, RequestBuild, SkipBuild, BuildSucceeds, BuildFails
  <2>2. deplState' = [deplState EXCEPT ![d] = deplState'[d]]
    BY <1>1 DEF UploadBundle, RequestBuild, SkipBuild, BuildSucceeds, BuildFails
  <2>3. QED
    BY <2>1, <2>2 DEF ActiveIsDeployed, TypeInv, TypeOK
<1>2. CASE ConfigChange \/ LockProject \/ UnlockProject
  BY <1>2 DEF ConfigChange, LockProject, UnlockProject, ActiveIsDeployed, storeVars
<1>3. QED
  BY <1>1, <1>2 DEF EnvNext

(* The project's active_deployment_id always names a deployment in state  *)
(* deployed (deployer.go:195-211), for any number of deployments, workers, *)
(* domains and failures.                                                   *)
THEOREM ActiveDeployed == Spec => []ActiveIsDeployed
<1>1. Init => ActiveIsDeployed
  BY DEF Init, ActiveIsDeployed
<1>2. TypeInv /\ ActiveIsDeployed /\ [Next]_allVars => ActiveIsDeployed'
  <2> SUFFICES ASSUME TypeInv, ActiveIsDeployed, [Next]_allVars
               PROVE  ActiveIsDeployed'
    OBVIOUS
  <2>1. CASE \E w \in Workers : WorkerNext(w) /\ UNCHANGED configJobs
    BY <2>1, WorkerActive
  <2>2. CASE EnvNext
    BY <2>2, EnvActive
  <2>3. CASE UNCHANGED allVars
    BY <2>3 DEF ActiveIsDeployed, allVars, vars, storeVars
  <2>4. QED
    BY <2>1, <2>2, <2>3 DEF Next
<1>3. QED
  BY <1>1, <1>2, InitTypeInv, NextTypeInv, PTL DEF Spec
=============================================================================
