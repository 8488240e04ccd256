------------------------- MODULE LegacyDeployProofs -------------------------
(***************************************************************************)
(* Machine-checked proof that the legacy create handler and legacy deploy *)
(* workers never point a domain at a partially uploaded webroot, for every *)
(* set of deployments, workers, domains and users and every bound.         *)
(***************************************************************************)
EXTENDS LegacyDeploy, TLAPS

USE LegacyAssumption

(* A busy worker holds the deployment of the job it was delivered.         *)
BusyHasJob ==
    \A w \in Workers : pc[w] # "idle" => job[w] \in Deployments

(* The archive loop has uploaded every entry before the one it reads next; *)
(* it starts from the first entry.                                         *)
UploadPrefixDone ==
    \A w \in Workers :
        /\ pc[w] \in {"idle", "download"} => nextFile[w] = 1
        /\ pc[w] = "upload" => 1..(nextFile[w] - 1) \subseteq webroot[job[w]]

(* A worker in the meta.json loop or about to publish has finished the    *)
(* archive of its deployment.                                              *)
PublishingComplete ==
    \A w \in Workers :
        pc[w] \in {"uploadMeta", "publish"} => webroot[job[w]] = Files

(* MetaComplete alone is not inductive: UploadMeta may write any domain,  *)
(* so the invariant must know that the writer's webroot is complete, and  *)
(* that in turn needs the archive loop's prefix.                           *)
LInv ==
    /\ LegacyTypeOK
    /\ BusyHasJob
    /\ MetaComplete
    /\ UploadPrefixDone
    /\ PublishingComplete

workerState == <<pc, job, nextFile, todo>>

-----------------------------------------------------------------------------
LEMMA InitLInv == Init => LInv
<1> SUFFICES ASSUME Init PROVE LInv
  OBVIOUS
<1>1. LegacyTypeOK
  BY DEF Init, LegacyTypeOK, ReqPCs, PCs
<1>2. BusyHasJob /\ MetaComplete /\ UploadPrefixDone /\ PublishingComplete
  BY DEF Init, BusyHasJob, MetaComplete, UploadPrefixDone, PublishingComplete
<1>3. QED
  BY <1>1, <1>2 DEF LInv

(* A step of a create request changes neither the webroots, nor meta.json *)
(* nor any worker.                                                         *)
LEMMA RequestStep ==
  ASSUME LInv, NEW d \in Deployments, HandleRequest(d)
  PROVE  LInv'
<1>1. UNCHANGED <<webroot, meta, workerState>>
  BY DEF HandleRequest, Checks, CreateRow, UploadRaw, MarkUploaded, EnqueueJob,
         MarkPendingDeploy, RequestFails, storeVars, workerVars, workerState
<1>2. LegacyTypeOK'
  BY DEF LInv, LegacyTypeOK, HandleRequest, Checks, CreateRow, UploadRaw,
         MarkUploaded, EnqueueJob, MarkPendingDeploy, RequestFails, Goto,
         storeVars, queueVars, workerVars, ReqPCs
<1>3. QED
  BY <1>1, <1>2 DEF LInv, BusyHasJob, MetaComplete, UploadPrefixDone,
                    PublishingComplete, workerState

-----------------------------------------------------------------------------
LEMMA ReceiveStep ==
  ASSUME LInv, NEW w \in Workers, Receive(w)
  PROVE  LInv'
<1>1. PICK d \in Deployments :
         /\ queue[d] > 0
         /\ queue' = [queue EXCEPT ![d] = @ - 1]
         /\ pc' = [pc EXCEPT ![w] = "download"]
         /\ job' = [job EXCEPT ![w] = d]
  BY DEF Receive
<1>2. pc[w] = "idle" /\ UNCHANGED <<webroot, meta, nextFile, todo>>
  BY DEF Receive, storeVars
<1>3. LegacyTypeOK'
  BY <1>1, <1>2 DEF Receive, LInv, LegacyTypeOK, storeVars, reqVars, PCs
<1>4. QED
  BY <1>1, <1>2, <1>3 DEF LInv, LegacyTypeOK, BusyHasJob, MetaComplete,
                          UploadPrefixDone, PublishingComplete

LEMMA DownloadStep ==
  ASSUME LInv, NEW w \in Workers, Download(w)
  PROVE  LInv'
<1>1. UNCHANGED <<webroot, meta, job, nextFile, todo>> /\ pc[w] = "download"
  BY DEF Download, storeVars
<1>2. LegacyTypeOK'
  BY <1>1 DEF Download, LInv, LegacyTypeOK, storeVars, queueVars, reqVars, PCs
<1>3. QED
  BY <1>1, <1>2 DEF Download, LInv, LegacyTypeOK, BusyHasJob, MetaComplete,
                    UploadPrefixDone, PublishingComplete

(* An upload only adds a file to the webroot of the worker's deployment;  *)
(* a complete webroot stays complete.                                      *)
LEMMA UploadFileStep ==
  ASSUME LInv, NEW w \in Workers, UploadFile(w)
  PROVE  LInv'
<1>1. /\ pc[w] = "upload"
      /\ job[w] \in Deployments
      /\ nextFile[w] \in Files
  BY DEF UploadFile, LInv, LegacyTypeOK, BusyHasJob, Files
<1>2. webroot' = [webroot EXCEPT ![job[w]] = @ \cup {nextFile[w]}]
      /\ UNCHANGED <<meta, pc, job, todo>>
  BY DEF UploadFile
<1>3. \A d \in Deployments : webroot[d] \subseteq webroot'[d]
  BY <1>1, <1>2 DEF LInv, LegacyTypeOK
<1>4. LegacyTypeOK'
  BY <1>1, <1>2 DEF UploadFile, LInv, LegacyTypeOK, storeVars, queueVars,
                    reqVars, Files
<1>5. MetaComplete'
  BY <1>2, <1>3, <1>4 DEF LInv, MetaComplete, LegacyTypeOK
<1>6. UploadPrefixDone'
  BY <1>1, <1>2, <1>3, <1>4 DEF UploadFile, LInv, UploadPrefixDone, LegacyTypeOK,
                                BusyHasJob
<1>7. PublishingComplete'
  BY <1>2, <1>3, <1>4 DEF LInv, PublishingComplete, LegacyTypeOK, BusyHasJob
<1>8. QED
  BY <1>2, <1>4, <1>5, <1>6, <1>7 DEF LInv, BusyHasJob

(* The end of the archive: every entry before NFiles + 1 is uploaded, so  *)
(* the webroot is complete.                                                *)
LEMMA EndOfArchiveStep ==
  ASSUME LInv, NEW w \in Workers, EndOfArchive(w)
  PROVE  LInv'
<1>1. /\ pc[w] = "upload"
      /\ nextFile[w] = NFiles + 1
      /\ job[w] \in Deployments
  BY DEF EndOfArchive, LInv, LegacyTypeOK, BusyHasJob
<1>2. webroot[job[w]] = Files
  <2>1. 1..(nextFile[w] - 1) \subseteq webroot[job[w]]
    BY <1>1 DEF LInv, UploadPrefixDone
  <2>2. Files \subseteq webroot[job[w]]
    BY <1>1, <2>1 DEF Files
  <2>3. webroot[job[w]] \subseteq Files
    BY <1>1 DEF LInv, LegacyTypeOK
  <2>4. QED
    BY <2>2, <2>3
<1>3. UNCHANGED <<webroot, meta, job, nextFile>>
      /\ pc' = [pc EXCEPT ![w] = IF Domains # {} THEN "uploadMeta" ELSE "publish"]
      /\ todo' = [todo EXCEPT ![w] = Domains]
  BY DEF EndOfArchive, storeVars
<1>4. LegacyTypeOK'
  BY <1>3 DEF EndOfArchive, LInv, LegacyTypeOK, storeVars, queueVars, reqVars, PCs
<1>5. QED
  BY <1>1, <1>2, <1>3, <1>4 DEF LInv, LegacyTypeOK, BusyHasJob, MetaComplete,
                                UploadPrefixDone, PublishingComplete

(* A domain is pointed at the worker's deployment, whose webroot is       *)
(* complete.                                                               *)
LEMMA UploadMetaStep ==
  ASSUME LInv, NEW w \in Workers, UploadMeta(w)
  PROVE  LInv'
<1>1. PICK dom \in todo[w] :
         /\ meta' = [meta EXCEPT ![dom] = job[w]]
         /\ todo' = [todo EXCEPT ![w] = @ \ {dom}]
         /\ pc' = [pc EXCEPT ![w] = IF todo[w] = {dom} THEN "publish" ELSE "uploadMeta"]
  BY DEF UploadMeta
<1>2. /\ pc[w] = "uploadMeta"
      /\ job[w] \in Deployments
      /\ webroot[job[w]] = Files
      /\ dom \in Domains
  BY DEF UploadMeta, LInv, LegacyTypeOK, BusyHasJob, PublishingComplete
<1>3. UNCHANGED <<webroot, job, nextFile>>
  BY DEF UploadMeta
<1>4. LegacyTypeOK'
  BY <1>1, <1>2, <1>3 DEF UploadMeta, LInv, LegacyTypeOK, storeVars, queueVars,
                          reqVars, PCs
<1>5. MetaComplete'
  BY <1>1, <1>2, <1>3 DEF LInv, LegacyTypeOK, MetaComplete
<1>6. QED
  BY <1>1, <1>2, <1>3, <1>4, <1>5 DEF LInv, LegacyTypeOK, BusyHasJob,
                                      UploadPrefixDone, PublishingComplete

(* Work returns, by success or by error: the worker is idle again.        *)
LEMMA FinishStep ==
  ASSUME LInv, NEW w \in Workers, Finish(w), UNCHANGED <<webroot, meta>>
  PROVE  /\ BusyHasJob'
         /\ MetaComplete'
         /\ UploadPrefixDone'
         /\ PublishingComplete'
         /\ pc' \in [Workers -> PCs]
         /\ job' \in [Workers -> Deployments \cup {NoDeployment}]
         /\ nextFile' \in [Workers -> 1..(NFiles + 1)]
         /\ todo' \in [Workers -> SUBSET Domains]
<1>1. /\ pc' = [pc EXCEPT ![w] = "idle"]
      /\ job' = [job EXCEPT ![w] = NoDeployment]
      /\ nextFile' = [nextFile EXCEPT ![w] = 1]
      /\ todo' = [todo EXCEPT ![w] = {}]
  BY DEF Finish
<1>2. QED
  BY <1>1 DEF LInv, LegacyTypeOK, BusyHasJob, MetaComplete, UploadPrefixDone,
              PublishingComplete, PCs

LEMMA PublishStep ==
  ASSUME LInv, NEW w \in Workers, Publish(w)
  PROVE  LInv'
<1>1. UNCHANGED <<deplState, rawBundle, webroot, meta, queue, deliveries,
                  failures, reqPc>>
  BY DEF Publish, storeVars, queueVars, reqVars
<1>2. QED
  BY <1>1, FinishStep DEF Publish, LInv, LegacyTypeOK

LEMMA FailStep ==
  ASSUME LInv, NEW w \in Workers, Fail(w)
  PROVE  LInv'
<1>1. /\ job[w] \in Deployments
      /\ queue' = [queue EXCEPT ![job[w]] = @ + 1]
      /\ failures' = failures + 1
      /\ failures < MaxFailures
      /\ UNCHANGED <<deplState, rawBundle, webroot, meta, deliveries, reqPc>>
  BY DEF Fail, LInv, BusyHasJob, storeVars, reqVars
<1>2. queue' \in [Deployments -> Nat] /\ failures' \in 0..MaxFailures
  BY <1>1 DEF LInv, LegacyTypeOK
<1>3. QED
  BY <1>1, <1>2, FinishStep DEF Fail, LInv, LegacyTypeOK

LEMMA RedeliverStep ==
  ASSUME LInv, NEW w \in Workers, Redeliver(w)
  PROVE  LInv'
<1>1. /\ job[w] \in Deployments
      /\ queue' = [queue EXCEPT ![job[w]] = @ + 1]
      /\ deliveries' = deliveries + 1
      /\ deliveries < MaxDeliveries
      /\ UNCHANGED <<storeVars, failures, workerState, reqPc>>
  BY DEF Redeliver, LInv, BusyHasJob, workerVars, workerState, reqVars
<1>2. LegacyTypeOK'
  BY <1>1 DEF LInv, LegacyTypeOK, storeVars, workerState
<1>3. QED
  BY <1>1, <1>2 DEF LInv, BusyHasJob, MetaComplete, UploadPrefixDone,
                    PublishingComplete, storeVars, workerState

LEMMA StutterStep ==
  ASSUME LInv, UNCHANGED vars
  PROVE  LInv'
BY Zenon DEF vars, storeVars, queueVars, workerVars, reqVars, LInv, LegacyTypeOK,
             BusyHasJob, MetaComplete, UploadPrefixDone, PublishingComplete

LEMMA NextLInv == LInv /\ [Next]_vars => LInv'
<1> SUFFICES ASSUME LInv, [Next]_vars PROVE LInv'
  OBVIOUS
<1>1. CASE \E w \in Workers : WorkerNext(w)
  BY <1>1, ReceiveStep, DownloadStep, UploadFileStep, EndOfArchiveStep,
     UploadMetaStep, PublishStep, FailStep, RedeliverStep DEF WorkerNext
<1>2. CASE \E d \in Deployments : HandleRequest(d)
  BY <1>2, RequestStep
<1>3. CASE UNCHANGED vars
  BY <1>3, StutterStep
<1>4. QED
  BY <1>1, <1>2, <1>3 DEF Next

(* For every value of the constants, no domain's meta.json ever names a   *)
(* webroot that the legacy Work has not uploaded in full (part_005:76-117),*)
(* however create requests, failures, redeliveries and workers interleave.*)
THEOREM LegacyMetaComplete == Spec => []MetaComplete
<1>1. Init => LInv
  BY InitLInv
<1>2. LInv /\ [Next]_vars => LInv'
  BY NextLInv
<1>3. LInv => MetaComplete
  BY DEF LInv
<1>4. QED
  BY <1>1, <1>2, <1>3, PTL DEF Spec

=============================================================================
