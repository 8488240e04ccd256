# Formal models of the deployment pipeline

This directory holds TLA+ models of the pipeline that publishes a project's
static site, the TLC configurations that model-check them, and TLAPS proofs
of their main invariants.  The code modelled is the deploy worker in
`src/deployer/deployer/deployer.go`, together with the actors that share
its state, and the legacy pair that predates it: the deployment-creation
handler (`part_000`) and the deploy worker it feeds (`part_005`).

## 1. Inventory

### The system's parts and how they interact

| Part | Source | State it owns | Operations that change state |
|---|---|---|---|
| API server, deployment creation | `src/unnamed/part_000` (legacy `deployments.Create`) | `deployments` rows, the raw bundle in the object store | create row (`pending_upload`), upload raw bundle, mark `uploaded`, enqueue Deploy job, mark `pending_deploy` |
| Project controllers | not in `src/`; behaviour fixed by `projects_test.go`, `jsenvvars_test.go` | `projects.locked_at`, project settings | lock/unlock the project, enqueue a config-only Deploy job (`skip_webroot_upload`, maybe `skip_invalidation`) for the active deployment |
| Build worker | not in the repository | — | `pending_build` → `pending_deploy` plus a Deploy job, or → `failed` |
| Deploy worker (`deployer.Work`) | `src/deployer/deployer/deployer.go` 58–236 | reads `deployments`, `projects`, `domains`; writes the webroot, `meta.json`, the invalidation, the activation transaction | one step per database query, object-store call and broker call (see §3) |
| Legacy deploy worker | `src/unnamed/part_005` | the same | the same steps, without the state and lock checks; domains come from the job |
| Object store | `src/shared/s3client`, `src/pkg/filetransfer`, `src/unnamed/part_003` | `deployments/<prefix>/…` files, `domains/<name>/meta.json` | PUT (atomic per object), download |
| Job broker | (AMQP, outside the repository) | Deploy-job queue | enqueue, deliver, ack; a nack or an ack timeout redelivers the message |
| Edge invalidation | exchange `edges`, consumers outside the repository | edge caches of `meta.json` | publish one V1 message listing domain names |
| Route chain and project guard | `routes.go` 25–34, `middleware/requireproject.go` | — | `RequireToken` → `RequireProject` → `deployments.Create`; not modelled (§7) |
| OAuth clients, ACME, analytics, build scripts | `oauthclient.go`, `oauth_test.go`, `part_004`, `acmecert.go`, `part_002`, `docker-build`, `part_001`, `shared.go` | credentials, certificates | request/response code, no concurrency (not modelled, see §7) |

A deployment moves through `pending_upload → uploaded → (pending_build →)
pending_deploy → deployed`, or `failed`.  Several deploy workers consume the
one queue, so two Deploy jobs of one project may run at the same time.  The
queue delivers at least once: a message whose handler returns an error is
requeued, and a message whose ack times out is delivered again while the
first copy still runs.  The project controllers lock a project while they
change it, and enqueue a config-only Deploy job when the change affects
`meta.json` (force_https, the default domain, basic auth).

### What is hard in this code

These are the behaviours a unit test hardly reaches.  PROJECT.json lists
them as "hazards", each at its line:

* **Stale state.**  The lock check (`deployer.go:152`) reads the project row
  loaded at line 83, before the whole webroot upload.  A config-only job
  carries the deployment that was active when it was enqueued.
* **Interleaving.**  Two workers deploying one project interleave their
  per-domain `meta.json` writes and their commits.
* **Partial failure.**  An error part-way through the archive loop leaves a
  partial webroot.  An error part-way through the meta loop leaves some
  domains switched and some not.
* **Unreliable delivery.**  A duplicate delivery re-runs a job whose first
  copy has not committed yet.
* **Atomicity.**  The deployment state and the project's active pointer are
  written by one transaction (`deployer.go:195–211`).
* **Ordering.**  The legacy handler enqueues the job before the deployment
  leaves `uploaded` (`part_000:120–125`), and the legacy worker checks no
  state.
* **Liveness.**  A job refused for a lock is dropped.

## 2. Plan and status

Done:
* the deploy worker, its environment and the safety properties (`Pipeline`);
* the legacy handler composed with the legacy worker (`LegacyDeploy`);
* liveness under weak fairness of the workers (`LiveSpec`);
* the abstract state machine `Lifecycle`, with Pipeline proved to
  implement it;
* a theorem for every safety property of a passing run (section 6).

Still open, in order:
1. **EdgeCache**: edge nodes that cache `meta.json` and drop entries on an
   invalidation.  The property: once quiescent, no edge serves a pointer
   other than the stored one.  It targets config-only jobs with
   `skip_invalidation`.
2. **Project controllers** beyond locking and config jobs: domain
   add/remove and project deletion, as far as the tests fix them.

## 3. Modules and how they correspond to the code

* **`Deployer.tla`** holds the shared state and the deploy worker.
  * Constants:
    * `Deployments`: the deployments of one project.
    * `Workers`.
    * `Domains`.
    * `NFiles`: regular files per archive.
    * `NoDeployment`: a null id.
    * The bounds `MaxDeliveries` and `MaxFailures`.
  * State:
    * `deplState`: `deployments.state`.
    * `activeDeployment`: `projects.active_deployment_id`.
    * `lockedAt`: `projects.locked_at ≠ nil`.
    * `webroot`: the files under each prefix.
    * `meta`: the prefix each domain's `meta.json` names.
    * `broadcasts`: the invalidation messages published.
    * `queue`: a multiset of jobs.
  * Worker locals: `pc`, `job`, `sDepl` (the deployment state read at
    line 71), `sLocked` (the project row read at line 83), `nextFile`,
    `domainNames`, `todo`.
  * Actions (every guard is the code's early return, every assignment a
    primed variable):
    * `LoadDeployment` (58–80): dequeue; refuse `uploaded`/`pending_upload`.
    * `LoadProject` (80–122): refuse `deployed`, or go straight to the lock
      check when the upload is skipped.
    * `UploadFile` (124–149): one archive entry.
    * `EndOfArchive`/`CheckLock` (125–154): the lock check on the snapshot.
    * `ListDomains` (156–173).
    * `UploadMeta` (175–180): one domain.
    * `PublishInvalidation` (182–193).
    * `Commit` (195–236): the transaction, one atomic step.
    * `Fail`: any call returns an error, and the job is requeued.
    * `Redeliver`: ack timeout.
  * Errors follow the spec: `errUnexpectedState` and `ErrProjectLocked` drop
    the message (`ReturnTerminalError`), and every other error requeues it
    (`ReturnTransientError`).
* **`Pipeline.tla`** adds the other actors.  All but `UploadBundle` are
  modelled from the spec or the controller tests, because their code is not
  in `src/`:
  * `UploadBundle`, from `part_000` 55–107.
  * `RequestBuild`, `SkipBuild`, `BuildSucceeds`, `BuildFails`.
  * `ConfigChange`: a config-only job for the active deployment, with or
    without `skip_invalidation`, bounded by `MaxConfigJobs`.
  * `LockProject`/`UnlockProject`.
  * It also defines `Init`, `Next`, `Spec` and the properties.
  * `WorkerProgress`, `Fairness` and `LiveSpec`: weak fairness of each
    worker's progress steps (§5).
  * `Life`, an `INSTANCE` of `Lifecycle` under
    `state <- deplState, active <- activeDeployment`.
* **`Lifecycle.tla`** is the abstract specification: the spec's state table
  (§3 of spec.md) and the activation, with no workers, queue or store.
  * `Advance(d, s)` takes one edge of the table, or moves into `failed`.
  * `Activate(d)` moves a `pending_deploy` or `deployed` deployment to
    `deployed` and sets the pointer in the same step.
  * It has one edge the spec's table lacks, `uploaded → pending_deploy`.
    Projects with `skip_build` take it.
* **`LegacyDeploy.tla`** composes the legacy handler `deployments.Create`
  (`part_000`) with the legacy `deployer.Work` (`part_005`), which consumes
  the job it enqueues.  It is standalone: the legacy worker shares no code
  with `Deployer`.  Each request `d` creates deployment `d`; its user and
  body are chosen in `Init`.  `Bodies` is the body Create accepts or one it
  rejects before any write (not multipart, bad `Content-Length`, no
  `payload` part, or a malformed part, on which `part.FormName()` panics).
  * Handler: `Checks` (19–87: the ownership check and the body checks),
    `CreateRow` (88–92), `UploadRaw` (94–101), `MarkUploaded` (104–107),
    `EnqueueJob` (109–123), `MarkPendingDeploy` (125–133), one step per
    call in the code's order.  `RequestFails`: any call fails, the handler
    answers 500 and keeps what it wrote.  A failed `FindByName` is not
    followed by a `return` (28–30), but its nil project then gets the 404,
    so it writes nothing either.
  * Worker: `Receive` (a delivery), `Download` (40–71, possible only once
    the raw bundle exists), `UploadFile` (76–100), `EndOfArchive` (77–110),
    `UploadMeta` (112–117, one domain of the job), `Publish` (119–128),
    `Fail` (any error return; the message is requeued), `Redeliver`.
  * The worker reads no deployment row and checks no lock.
  * The handler sends the domain under the key `"domain"` and the worker
    reads `d.Domains`; the `messages` package that fixes the JSON tag is not
    in `src/`, so the model takes the job's domains to be `Domains`.
* **`MCPipeline.tla`** and **`MCLegacyDeploy.tla`** give TLC the model
  values and the sets.
* **`PipelineProofs.tla`** holds the TLAPS proofs of type correctness and
  `ActiveIsDeployed`.
* **`ContentProofs.tla`** extends it with the proof of `LiveContentComplete`.
* **`RefinementProofs.tla`** extends it with the proof that Pipeline
  implements Lifecycle.
* **`LegacyDeployProofs.tla`** proves `MetaComplete` of `LegacyDeploy`.

Data is abstracted to what the properties tell apart.  A file is a number in
`1..NFiles`, a prefix is its deployment, and `meta.json` is the deployment it
names.  JSON, gzip/tar and the HTTP layer are left out.

## 4. Runs

Every Pipeline run uses two deployments, two domains and 2 files per archive, with 4
deliveries and 1 config-only job.

* **`concurrent`** (pass, `MCPipelineConcurrent.cfg`): two workers, 2 failures.
  * Checks `TypeOK`, `ActiveIsDeployed` and `LiveContentComplete`.
  * 128,074 distinct states, about 10 s.
  * Every action fires: duplicate delivery while a copy runs, failures in
    every step, locks during uploads, config-only jobs before and after a
    newer deployment.
* **`lock_snapshot`** (violation, `MCPipelineLock.cfg`): one worker, checking
  `LockHaltsPublishing`.
  * TLC finds the project locked while the webroot uploads.
  * The check at line 152 reads the old row, so the worker goes on to
    publish.
* **`meta_race`** (violation, `MCPipelineRace.cfg`): two workers, no failures,
  checking `MetaMatchesActiveWhenQuiescent`.
  * w1 writes `meta.json` for d1 on every domain.
  * w2 writes d2 everywhere and commits.
  * w1 commits last.
  * With the queue empty and every worker idle, the project's active
    deployment is d1 while every domain serves d2.

The bounds are enough for the cases that matter:
* Two workers and two deployments give every two-actor interleaving.
* Two files make the archive loop pass through a strict prefix.
* Two domains make the meta loop pass through a strict subset.
* Four deliveries allow a duplicate of each of two jobs.
* Two failures allow a failure followed by a retry that fails again.

Symmetry over domains is sound: no action and no property distinguishes one
domain from another.  Deployments are symmetric as well, but the runs keep them
distinct so that counterexample traces name them.  Each mutant in
PROJECT.json breaks one property under the `concurrent` configuration:
* `UploadFilePastEnd` breaks `TypeOK`.
* `CommitPointerOnly` breaks `ActiveIsDeployed`.
* `EndOfArchiveEarly` breaks `LiveContentComplete`.

More runs:
* **`concurrent`** also checks `LifecycleRefined`.  Every step is a legal
  transition of the state machine, or an activation that moves state and
  pointer together.
* **`liveness`** (pass, `MCPipelineLive.cfg`, `LiveSpec`) checks
  `UnlockedPendingDeployed`, with 1 failure and no symmetry.  Symmetry is
  unsound for liveness.
  * The property: in a run where the project is never locked, every
    `pending_deploy` deployment is eventually `deployed`, or the broker
    reaches its delivery bound.
  * 137,642 distinct states, about 35 s.
* **`lock_liveness`** (violation, `MCPipelineLockLive.cfg`) checks
  `PendingEventuallyDeployed`, the same property without the lock
  hypothesis.
  * A lock drops the job (`ErrProjectLocked`), and the deployment stays
    `pending_deploy` for ever, with deliveries to spare.
* **`legacy_publish`** (pass, `MCLegacyPublish.cfg`, `LegacyDeploy`): two
  requests (the owner or another user, valid or invalid body), two legacy
  workers, one domain, 2 files, 3 deliveries and 1 failure.
  * Checks `LegacyTypeOK` and `MetaComplete`: no domain's `meta.json` names
    a webroot that is not complete, however a failed upload, a duplicate
    delivery and two workers on two deployments interleave.
  * 18,786 distinct states, about 2 s.  `CHECK_DEADLOCK FALSE`: once every
    request is answered and the queue is empty the server just waits.
* **`legacy_unready`** (violation, `MCLegacyUnready.cfg`): one valid
  request, one worker, no failures, checking `PublishOnlyReady` (spec §3: a
  consumer that observes `uploaded` or `pending_upload` must refuse to
  publish).  TLC finds the worker taking the job between the handler's
  enqueue and its `pending_deploy` write and pointing the domain at a
  deployment still `uploaded`.

Mutants added:
* `CommitStateOnly`, which leaves the pointer out of the transaction, breaks
  `LifecycleRefined` in `concurrent`.
* `AckOnError`, which acks a failed job instead of requeueing it, breaks
  `UnlockedPendingDeployed` in `liveness`.
* The legacy `EndOfArchiveEarly`, which leaves the archive loop one entry
  early, breaks `MetaComplete` in `legacy_publish`.
* The legacy `UploadFilePastEnd`, which reads one entry past the end of the
  archive, breaks `LegacyTypeOK` in `legacy_publish`.

### Findings

* **Lock snapshot (spec–code divergence).**  Spec §4.4 step 3 re-checks the
  lock so that a lock set mid-pipeline stops publishing.  The code checks a
  snapshot taken before the upload.
* **Meta race (code bug).**  Nothing orders two concurrent Deploy jobs of one
  project.  The one that writes `meta.json` first can commit last, and the
  domains and the active pointer then stay different until another deploy.
* **Unready deployment published (spec–code divergence, `legacy_unready`).**
  * The legacy Work loads no deployment row, so it cannot refuse an
    unready deployment as spec §3 requires.
  * `part_000` enqueues the job (line 120) before it writes
    `pending_deploy` (line 125), so the worker can publish a deployment
    still `uploaded`.
  * If the `pending_deploy` write then fails, the client gets 500 for a
    deployment that is live, and its row stays `uploaded`.
* **No retry after a lock (spec gap, `lock_liveness`).**  `ErrProjectLocked`
  is terminal (spec §4.4 step 3, §7), and scenario B leaves the deployment's
  state unchanged.  Nothing re-enqueues its job, so the deployment stays
  `pending_deploy` for ever, and the spec does not say who should retry it.

## 5. Fairness

`LiveSpec == Spec ∧ Fairness` assumes weak fairness of each worker's
progress steps (`WorkerProgress(w)`): delivery, loading, the two loops,
the invalidation and the commit.  A deploy worker is a process that loops
on the queue, and each of those steps is a call that returns, so a worker
that can take one does so eventually.

No fairness is assumed for the following, because none of them is
guaranteed to happen:
* failures and ack-timeout redeliveries (faults);
* users, the build worker and the project controllers (a user may never
  unlock a project).

The delivery bound `MaxDeliveries` is a bound of the model.  The liveness
properties allow it as an outcome (`deliveries = MaxDeliveries`), so that a
run which merely uses up the bound is not reported.

## 6. What is proved

`PipelineProofs.tla` and `ContentProofs.tla` prove, for every value of the constants, under
`ConstantsAssumption` and `PipelineAssumption` (`NoDeployment ∉ Deployments`,
`NFiles ≥ 1`, the bounds natural numbers):

* **`TypeCorrect`**: `Spec ⇒ □TypeOK`.
  * `TypeOK` is not inductive on its own.  A requeue writes `job[w]` back
    into the queue, so the proof uses `TypeInv = TypeOK ∧ WorkerJobs`: a busy
    worker holds a real job.
  * There is one lemma per kind of step (`FinishType`, `EnqueueType`) and
    one proof step per action.
  * The two lock flags are handled by a lemma of their own (`LockFrame`,
    `NextBoolTypes`).  Z3 is poor at membership of a Boolean variable in
    `BOOLEAN`, so Zenon proves those conjuncts and SMT the rest.
* **`ActiveDeployed`**: `Spec ⇒ □ActiveIsDeployed`.
  * It is inductive given `TypeInv`.
  * Only `Commit` writes the pointer, and it sets the state in the same step.
  * Every other writer of `deployments.state` starts from a state other than
    `deployed`.
* **`LiveContent`**: `Spec ⇒ □LiveContentComplete`.  TLC checked the
  inductive invariant `ContentInv` first.  It adds:
  * `QueuedConfigJobsComplete`: a queued config-only job names a complete
    webroot.
  * `UploadPrefixDone`: a worker in the archive loop has uploaded entries
    `1..nextFile-1`, and starts at 1.
  * `PublishingComplete`: a worker past the loop, or a config-only job
    loading its project, has a complete webroot.

  The argument:
  * Webroots only grow (`WebrootGrows`, `CompleteStable`).
  * A config-only job is enqueued only for the active deployment.
  * A failure or redelivery requeues a job that satisfies the same
    invariant (`BusyJobComplete`).

* **`Refinement`** (`RefinementProofs.tla`): `Spec ⇒ LifecycleRefined`,
  that is, Pipeline implements `Lifecycle!Spec` under
  `state <- deplState, active <- activeDeployment`.
  * `Init` maps to `Life!Init`.
  * Every step maps to an `Advance`, an `Activate` or a stutter.
  * `Commit` is a legal `Activate` only because the job's deployment is
    `pending_deploy` or `deployed`.  That needs the inductive invariant
    `RefInv = TypeInv ∧ ActiveIsDeployed ∧ JobsReady`.  `JobsReady` says
    every queued or held Deploy job names such a deployment.
  * `JobsReady` holds because jobs are enqueued only by `SkipBuild` and
    `BuildSucceeds` (which make the deployment `pending_deploy`), by
    `ConfigChange` (for the active, hence deployed, deployment), and by
    requeues of held jobs.  Also, no actor moves a deployment out of
    `pending_deploy`/`deployed` except to `deployed`.
  * TLC checked `RefInv` as an invariant of the `concurrent` instance
    before the proof.  The lemma `ReadyPreserved` states the frame
    condition once, and each action's step discharges its premises.

* **`LegacyMetaComplete`** (`LegacyDeployProofs.tla`):
  `LegacyDeploy!Spec ⇒ □MetaComplete`, under `LegacyAssumption`.  TLC checked
  the inductive invariant `LInv` on the `legacy_publish` instance first.
  `MetaComplete` alone is not inductive, since `UploadMeta` may point any
  domain at the worker's deployment.  `LInv` adds:
  * `BusyHasJob`: a busy worker holds a deployment;
  * `UploadPrefixDone`: a worker in the archive loop has uploaded entries
    `1..nextFile-1`, and starts at 1;
  * `PublishingComplete`: a worker in the meta loop or about to publish
    holds a complete webroot.

  There is one lemma per action.  Handler steps change neither webroots,
  `meta.json` nor workers; an upload only adds a file; `EndOfArchive` turns
  the full prefix into a complete webroot; `Finish` resets the worker.

Every safety property of a passing run is now stated by a theorem.  What is
only model-checked, and why:
* the violated properties;
* the liveness properties `UnlockedPendingDeployed` and
  `PendingEventuallyDeployed`.  TLAPS does not handle liveness under
  fairness or `ENABLED`;
* any recursive operator a later module uses.  No module here has one.

## 7. Not modelled

* **OAuth clients (`Authenticate`), token issuance, ACME certificates
  (`acmecert.go`), analytics and build scripts**: request/response or pure
  data code with no shared state.  Key generation, AES/base64 and the PEM
  loop of `DecryptedCerts` are conversions with no interleaving, so a model
  checker adds nothing over unit tests.  The spec (§1) also places ACME and
  credentials out of scope.
* **The route chain (`routes.go`, `RequireToken`, `RequireProject`)**: the
  current router names the path parameter `project_name`, while the legacy
  Create reads `name`, so the two belong to different versions and are not
  composed.  The middleware is a database lookup with no shared state.
* **Multipart uploads, regions, presigned URLs**: I/O detail below the
  "one PUT is atomic" abstraction.
* **The analytics `Track` call after the commit**: best-effort, and it
  changes no modelled state.
