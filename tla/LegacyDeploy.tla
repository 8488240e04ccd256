---------------------------- MODULE LegacyDeploy ----------------------------
(***************************************************************************)
(* The earlier version of the deploy path, kept in the tree as            *)
(* unnamed/part_000 (the deployments controller's Create) and              *)
(* unnamed/part_005 (the deploy worker's Work); both use the old import   *)
(* paths and the job payload of one another.  Create checks the request,  *)
(* inserts the row, uploads the raw bundle, marks the row uploaded,       *)
(* enqueues the Deploy job and only then marks it pending_deploy.  Work   *)
(* downloads the raw bundle, uploads every regular file of it under the   *)
(* deployment's prefix, points each of the job's domains at that prefix   *)
(* and publishes an invalidation.  It reads and writes no deployment row. *)
(*                                                                         *)
(* Each deployment d is created by one request, also named d.  Every      *)
(* database, object-store and broker call is a step of its own and may    *)
(* fail.  The status codes are left out: a request either goes on or is   *)
(* answered and ends.                                                      *)
(***************************************************************************)
EXTENDS Naturals

CONSTANTS
    Deployments,    \* deployments, one per create request
    Workers,        \* legacy deploy worker processes
    Domains,        \* the domains a Deploy job names
    NFiles,         \* regular files in every bundle archive
    NoDeployment,   \* model value: no meta.json for a domain
    Users,          \* accounts sending requests
    Owner,          \* the project's user_id
    MaxDeliveries,  \* bound on deliveries of Deploy jobs by the broker
    MaxFailures     \* bound on failed database, storage and broker calls

ASSUME LegacyAssumption ==
    /\ NoDeployment \notin Deployments
    /\ NFiles \in Nat \ {0}
    /\ Owner \in Users
    /\ MaxDeliveries \in Nat
    /\ MaxFailures \in Nat

VARIABLES
    deplState,  \* deployments.state
    rawBundle,  \* deployments whose raw-bundle.tar.gz is in the store
    webroot,    \* files present under deployments/<prefix>-<id>/webroot
    meta,       \* domains/<domain>/meta.json: the deployment it names
    queue,      \* Deploy jobs waiting in the queue: deployment -> copies
    deliveries, \* deliveries so far (bounded by MaxDeliveries)
    failures,   \* failed calls so far (bounded by MaxFailures)
    pc,         \* where each worker is in Work
    job,        \* the deployment of the job a worker is handling
    nextFile,   \* next archive entry the upload loop reads
    todo,       \* domains whose meta.json the loop has yet to upload
    reqUser,    \* controllers.CurrentUser(c) of each request
    body,       \* what the multipart body of each request holds
    reqPc       \* where each request is in Create

storeVars  == <<deplState, rawBundle, webroot, meta>>
queueVars  == <<queue, deliveries, failures>>
workerVars == <<pc, job, nextFile, todo>>
reqVars    == <<reqUser, body, reqPc>>
vars       == <<storeVars, queueVars, workerVars, reqVars>>

Files == 1..NFiles

(* A body with a "payload" part, or one Create rejects before it writes:  *)
(* not multipart/form-data (:39-47), a missing or too large               *)
(* Content-Length (:60-73), no payload part (:76-86), or a malformed part *)
(* (NextPart's error leaves part nil, and part.FormName() panics at :88). *)
Bodies == {"payload", "invalid"}

ReqPCs == {"checks", "createRow", "uploadRaw", "markUploaded", "enqueue",
           "markPending", "done"}

PCs == {"idle", "download", "upload", "uploadMeta", "publish"}

Init ==
    /\ deplState = [d \in Deployments |-> "pending_upload"]
    /\ rawBundle = {}
    /\ webroot = [d \in Deployments |-> {}]
    /\ meta = [dom \in Domains |-> NoDeployment]
    /\ queue = [d \in Deployments |-> 0]
    /\ deliveries = 0
    /\ failures = 0
    /\ pc = [w \in Workers |-> "idle"]
    /\ job = [w \in Workers |-> NoDeployment]
    /\ nextFile = [w \in Workers |-> 1]
    /\ todo = [w \in Workers |-> {}]
    /\ reqUser \in [Deployments -> Users]
    /\ body \in [Deployments -> Bodies]
    /\ reqPc = [d \in Deployments |-> "checks"]

Goto(d, l) == reqPc' = [reqPc EXCEPT ![d] = l]

-----------------------------------------------------------------------------
(* Create's checks before it writes anything: the project named in the   *)
(* path must belong to the current user (404), and the body must hold a   *)
(* valid payload part.                                                     *)
Checks(d) ==
    /\ reqPc[d] = "checks"
    /\ Goto(d, IF reqUser[d] = Owner /\ body[d] = "payload" THEN "createRow" ELSE "done")
    /\ UNCHANGED <<storeVars, queueVars, workerVars, reqUser, body>>

(* db.Create(depl): the row is inserted in state pending_upload.           *)
CreateRow(d) ==
    /\ reqPc[d] = "createRow"
    /\ Goto(d, "uploadRaw")
    /\ UNCHANGED <<storeVars, queueVars, workerVars, reqUser, body>>

(* common.Upload of deployments/<prefix>-<id>/raw-bundle.tar.gz: one PUT.  *)
UploadRaw(d) ==
    /\ reqPc[d] = "uploadRaw"
    /\ rawBundle' = rawBundle \cup {d}
    /\ Goto(d, "markUploaded")
    /\ UNCHANGED <<deplState, webroot, meta, queueVars, workerVars, reqUser, body>>

(* UpdateColumn("state", uploaded): an unconditional single-column write.  *)
MarkUploaded(d) ==
    /\ reqPc[d] = "markUploaded"
    /\ deplState' = [deplState EXCEPT ![d] = "uploaded"]
    /\ Goto(d, "enqueue")
    /\ UNCHANGED <<rawBundle, webroot, meta, queueVars, workerVars, reqUser, body>>

(* job.NewWithJSON(queues.Deploy, ...).Enqueue().                          *)
EnqueueJob(d) ==
    /\ reqPc[d] = "enqueue"
    /\ queue' = [queue EXCEPT ![d] = @ + 1]
    /\ Goto(d, "markPending")
    /\ UNCHANGED <<storeVars, deliveries, failures, workerVars, reqUser, body>>

(* UpdateColumn("state", pending_deploy), unconditional, then 202.         *)
MarkPendingDeploy(d) ==
    /\ reqPc[d] = "markPending"
    /\ deplState' = [deplState EXCEPT ![d] = "pending_deploy"]
    /\ Goto(d, "done")
    /\ UNCHANGED <<rawBundle, webroot, meta, queueVars, workerVars, reqUser, body>>

(* project.FindByName, dbconn.DB, db.Create, common.Upload, an update,    *)
(* NewWithJSON or Enqueue fails: 500, and Create returns keeping what it  *)
(* wrote.  A failed FindByName is not followed by a return (:28-29), but  *)
(* the nil project then gets a 404 and Create returns before any write.   *)
RequestFails(d) ==
    /\ reqPc[d] # "done"
    /\ failures < MaxFailures
    /\ failures' = failures + 1
    /\ Goto(d, "done")
    /\ UNCHANGED <<storeVars, queue, deliveries, workerVars, reqUser, body>>

HandleRequest(d) ==
    \/ Checks(d)
    \/ CreateRow(d)
    \/ UploadRaw(d)
    \/ MarkUploaded(d)
    \/ EnqueueJob(d)
    \/ MarkPendingDeploy(d)
    \/ RequestFails(d)

-----------------------------------------------------------------------------
(* Work returns: the worker drops its locals and waits for the next job.   *)
Finish(w) ==
    /\ pc' = [pc EXCEPT ![w] = "idle"]
    /\ job' = [job EXCEPT ![w] = NoDeployment]
    /\ nextFile' = [nextFile EXCEPT ![w] = 1]
    /\ todo' = [todo EXCEPT ![w] = {}]

(* The broker delivers a Deploy job to an idle worker.                     *)
Receive(w) ==
    /\ pc[w] = "idle"
    /\ deliveries < MaxDeliveries
    /\ \E d \in Deployments :
         /\ queue[d] > 0
         /\ queue' = [queue EXCEPT ![d] = @ - 1]
         /\ pc' = [pc EXCEPT ![w] = "download"]
         /\ job' = [job EXCEPT ![w] = d]
    /\ deliveries' = deliveries + 1
    /\ UNCHANGED <<storeVars, failures, nextFile, todo, reqVars>>

(* The temp file, S3.Download of the raw bundle and the gzip reader: the  *)
(* download succeeds only if the object exists.                            *)
Download(w) ==
    /\ pc[w] = "download"
    /\ job[w] \in rawBundle
    /\ pc' = [pc EXCEPT ![w] = "upload"]
    /\ UNCHANGED <<storeVars, queueVars, job, nextFile, todo, reqVars>>

(* Mutant: the loop stops one entry before the end of the archive.        *)
EndOfArchiveEarly(w) ==
    /\ pc[w] = "upload"
    /\ nextFile[w] >= NFiles
    /\ pc' = [pc EXCEPT ![w] = IF Domains # {} THEN "uploadMeta" ELSE "publish"]
    /\ todo' = [todo EXCEPT ![w] = Domains]
    /\ UNCHANGED <<storeVars, queueVars, job, nextFile, reqVars>>

(* Mutant: the loop reads one entry past the end of the archive.           *)
UploadFilePastEnd(w) ==
    /\ pc[w] = "upload"
    /\ nextFile[w] <= NFiles + 1
    /\ webroot' = [webroot EXCEPT ![job[w]] = @ \cup {nextFile[w]}]
    /\ nextFile' = [nextFile EXCEPT ![w] = @ + 1]
    /\ UNCHANGED <<deplState, rawBundle, meta, queueVars, pc, job, todo, reqVars>>

(* One pass of the archive loop: a regular file is uploaded, public-read,  *)
(* under the deployment's prefix.                                          *)
UploadFile(w) ==
    /\ pc[w] = "upload"
    /\ nextFile[w] <= NFiles
    /\ webroot' = [webroot EXCEPT ![job[w]] = @ \cup {nextFile[w]}]
    /\ nextFile' = [nextFile EXCEPT ![w] = @ + 1]
    /\ UNCHANGED <<deplState, rawBundle, meta, queueVars, pc, job, todo, reqVars>>

(* io.EOF ends the loop; the meta.json loop runs over the job's domains.   *)
EndOfArchive(w) ==
    /\ pc[w] = "upload"
    /\ nextFile[w] > NFiles
    /\ pc' = [pc EXCEPT ![w] = IF Domains # {} THEN "uploadMeta" ELSE "publish"]
    /\ todo' = [todo EXCEPT ![w] = Domains]
    /\ UNCHANGED <<storeVars, queueVars, job, nextFile, reqVars>>

(* One pass of the meta.json loop: the domain now names this prefix.       *)
UploadMeta(w) ==
    /\ pc[w] = "uploadMeta"
    /\ \E dom \in todo[w] :
         /\ meta' = [meta EXCEPT ![dom] = job[w]]
         /\ todo' = [todo EXCEPT ![w] = @ \ {dom}]
         /\ pc' = [pc EXCEPT ![w] = IF todo[w] = {dom} THEN "publish" ELSE "uploadMeta"]
    /\ UNCHANGED <<deplState, rawBundle, webroot, queueVars, job, nextFile, reqVars>>

(* The V1 invalidation message is published and Work returns nil: the     *)
(* message is acknowledged.                                                *)
Publish(w) ==
    /\ pc[w] = "publish"
    /\ Finish(w)
    /\ UNCHANGED <<storeVars, queueVars, reqVars>>

(* A call of Work fails and its error is returned; the message goes back   *)
(* to the queue for redelivery.                                            *)
Fail(w) ==
    /\ pc[w] # "idle"
    /\ failures < MaxFailures
    /\ failures' = failures + 1
    /\ queue' = [queue EXCEPT ![job[w]] = @ + 1]
    /\ Finish(w)
    /\ UNCHANGED <<storeVars, deliveries, reqVars>>

(* The broker's ack timeout expires on a job still being worked on: a      *)
(* second copy is delivered while the first keeps running.                 *)
Redeliver(w) ==
    /\ pc[w] # "idle"
    /\ deliveries < MaxDeliveries
    /\ queue' = [queue EXCEPT ![job[w]] = @ + 1]
    /\ deliveries' = deliveries + 1
    /\ UNCHANGED <<storeVars, failures, workerVars, reqVars>>

WorkerNext(w) ==
    \/ Receive(w)
    \/ Download(w)
    \/ UploadFile(w)
    \/ EndOfArchive(w)
    \/ UploadMeta(w)
    \/ Publish(w)
    \/ Fail(w)
    \/ Redeliver(w)

Next ==
    \/ \E w \in Workers : WorkerNext(w)
    \/ \E d \in Deployments : HandleRequest(d)

Spec == Init /\ [][Next]_vars

-----------------------------------------------------------------------------
LegacyTypeOK ==
    /\ deplState \in [Deployments -> {"pending_upload", "uploaded", "pending_deploy"}]
    /\ rawBundle \subseteq Deployments
    /\ webroot \in [Deployments -> SUBSET Files]
    /\ meta \in [Domains -> Deployments \cup {NoDeployment}]
    /\ queue \in [Deployments -> Nat]
    /\ deliveries \in 0..MaxDeliveries
    /\ failures \in 0..MaxFailures
    /\ pc \in [Workers -> PCs]
    /\ job \in [Workers -> Deployments \cup {NoDeployment}]
    /\ nextFile \in [Workers -> 1..(NFiles + 1)]
    /\ todo \in [Workers -> SUBSET Domains]
    /\ reqPc \in [Deployments -> ReqPCs]

(* A domain never serves a half-uploaded webroot: each meta.json names a   *)
(* prefix whose archive was uploaded in full, however failed uploads      *)
(* (part_005:97), redeliveries and two workers on the same or different   *)
(* deployments interleave.  The new prefix per deployment and the upload  *)
(* of meta.json after the archive loop are what make cutover atomic.      *)
MetaComplete ==
    \A dom \in Domains : meta[dom] # NoDeployment => webroot[meta[dom]] = Files

(* Spec §3: a job consumer that observes a deployment in uploaded or       *)
(* pending_upload must refuse to publish it.  No domain names a deployment *)
(* that is still pending_upload or uploaded.                               *)
PublishOnlyReady ==
    \A dom \in Domains :
        meta[dom] # NoDeployment => deplState[meta[dom]] \notin {"pending_upload", "uploaded"}

=============================================================================
