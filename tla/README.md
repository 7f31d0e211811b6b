# WebOBS: formal specifications

This directory is the verification development kept beside the WebOBS sources
(`src/`, WebOBS v4.0): TLA+ modules translated from the code, TLC
configurations that check them on small instances, and TLAPS proofs of the
results that matter for every value of the constants.

* `<Component>.tla` models one component; its comments name the code.
* `EvidenceExports.tla`, `StudioSystem.tla`, `BrowserSync.tla`, `Access.tla` and
  `MediaSystem.tla` put several components side by side (section 2) and state properties
  of all of them.
* `MC<Name>.tla` and the `.cfg` files give the constants values for TLC; `MCArchiveQueue`
  puts two instances side by side itself.
* `<Name>Proofs.tla` holds the theorems about a component, or about what is composed;
  `ArchiveMediaProofs.tla` those about `ArchiveQueue` and about `MediaSystem`, which share
  no state and no lemma.
* `PROJECT.json` is the index: components, runs, the source lines every
  definition stands for, the hazards of the code and the properties that watch
  over them, a mutation of the code's logic for every property, and findings.

To check a run: `tlc -workers 2 -config <file>.cfg <module>.tla`, with the
module `PROJECT.json` names for the run. To check
proofs: `tlapm <Name>Proofs.tla`.

## 1. The system and its parts

WebOBS is a recorder and studio for network cameras: an OBS-based core process
(C++), Python services around it, a web client, native clients and a desktop
shell. A cluster has one Controller and recorder nodes.

| Part | State it keeps | Operations | Talks to | What is hard |
|---|---|---|---|---|
| Cluster controller (`cluster/cluster_service.py`) | nodes, recording_assignments, segment_locations, jobs, enrolment codes (SQLite) | enrol, heartbeat, assign, renew, revoke, accept catalog, job results | agents over HTTPS, the core | two clocks, lost requests and replies, revocation against renewals in flight |
| Node agent (`cluster/node_agent.py`) | fetched and accepted assignments, `assignments.json`, failure timer | loop of heartbeat, fetch, renew, install, upload | controller; the recorder through a file | partial failures inside one loop, restarts, the grace period |
| NVR recorders (`nvr/nvr_service.py`) | one worker per camera, segments under capture | start and finish captures, pre-event buffers | `assignments.json`, catalog | a decision taken once per segment |
| NVR segments (`nvr/nvr_service.py`) | segments table, media files on volumes, pins and leases | catalogue, play, lock, delete, retention, migration, scrub, reconciliation | recorders, exports, archive | file system and catalog change in separate steps; crashes; four kinds of users at once |
| Evidence exports (`nvr/evidence.py`) | export_jobs, exports, private directories, cancel events | submit, cancel, convert, publish, drain, recover | segments, authorization service | cancellation against publication; crash at any point; shutdown |
| Timeline coverage (`nvr/evidence.py`) | none | intervals and gaps of a query | catalog | boundaries |
| Events (`events/event_service.py`) | events, rules, zones, notification outbox, NVR timers | ingest, apply rules, deliver, expire, trigger recording | NVR, webhooks, MQTT | retries, two deliverers, timers racing triggers |
| Archive (`archive/s3_archive.py`) | queue of uploads, `archive_state` in the catalog | scan, claim, upload, retry, retrieve | NVR catalog, object store | two databases, crash between them |
| Backup and upgrade guard (`backup/`) | snapshot files, READY / PENDING marks | prepare, mark healthy, roll back | all services' files | rollback that is interrupted |
| Studio and Program (`core/src/studio_*`, `scene_*`) | Studio document with revision and history, Program scene with revision, two files | take, undo, redo, save, scene mutation, audio | OBS runtime, browsers | two documents, two files and a runtime that may each refuse; rollbacks; two mutexes |
| OBS runtime (`core/src/obs_scene_runtime.cpp`, `obs_engine.cpp`) | sources, prepared scenes, recovery timers | prepare, wait, commit, discard, recover | Studio, encoders | sources that never become ready |
| Control server (`core/src/control_server.cpp`, `web/src/sceneEvents.ts`) | WebSocket sessions with bounded queues | snapshot, join, broadcast | browsers | a snapshot older than the subscription, full queues, order |
| Authentication (`core/src/authentication.cpp`) | sessions, login attempts | login, refresh, revoke | control server | expiry against use |
| Camera registry (`camera/camera_registry.py`) | cameras, discovery, credentials, PTZ leases | discover, edit, move, rotate credentials | cameras, go2rtc | leases, slow devices |
| Client control v2 (`v2/client_control_service.py`) | clients, grants, drafts, leases, sync revisions | enrol, grant, publish, talk, synchronise | web and native clients | revisions from several devices |
| Analytics (`analytics/`, `web/src/analytics*.ts`) | jobs of one detector | schedule, infer, report | events | one job in flight, late answers |
| Web: preferences and synchronisation (`useMonitorPreferences.ts`, `localRuntime.ts`, `syncRuntime.ts`) | the view with its baseline, the offline outbox and its journal | edit, save, merge, poll, upload, resolve a conflict | the account's preferences, v2 | answers out of order, two windows, a page that closes, a crash between two stores |
| Web: Studio (`App.tsx`, `SceneCollection.tsx`) | the draft, the baseline it is compared with, undo | edit, arrange, save, take, load a profile | Studio | edits typed while a request is out, conflicts |
| Web: playback and sound (`whep.ts`, `audioTrackChannel.ts`, `directAudioMixer.ts`, `AudioWorkspace.tsx`) | peer, session, timers; the audio graph; the channels of a track | play, stop, retry, choose, mute | media servers | attempts that overlap, the browser's late answers, hidden pages |
| Web: wall, workspace, profiles (`monitorView.ts`, `WorkspaceShell.tsx`, `ConfigProfiles.tsx`) | large tiles, docks, account profiles | rotate, promote, lay out, choose | preferences | holds that end after another choice, debounced writes |
| Web: access (`LoginGate.tsx`, `browserEnrollment.ts`, `ClientsPanel.tsx`) | session, this browser's identity, the lists of clients | log in and out, authorise, approve, revoke | control server, v2 | two accounts in one browser, lost answers, a list read before the change |
| Native clients (`clients/`) | stream sessions, grants | open, retry, close | v2, media servers | late results of earlier attempts |
| Desktop shell (`desktop/src`) | child processes, settings, updates | start, supervise, stop, update | services | start and stop interleaved |
| Gateway, go2rtc, Docker, Android, scripts | processes | orchestration | external programs | none with protocol state |

`PROJECT.json` lists each part with its files and what is left out of it.

### What makes each part correct

* **Leases**: two nodes never record one camera at once beyond the accepted
  clock skew; a generation belongs to one node; what was revoked is not
  extended; recording follows the
  assignment.
* **Segments**: a segment nobody deleted stays where the catalog says it is;
  what is pinned, leased or locked stays; deletion is final; a finished file is
  where the catalog says, or it is a second copy that a migration left.
* **Exports**: publication is atomic and never follows a cancellation; nothing
  is left behind; the queue is bounded, drains, and serves everyone.
* **Studio**: a take, an undo or a redo changes Program, document and history
  together or not at all; what is on disk is what is live.
* **Events**: what is delivered is known as delivered; nothing is given up
  early; an event keeps recording alive for its whole length.
* **Archive**: whatever is marked uploaded is in the store; everything due is
  uploaded eventually.
* **Upgrade guard**: after a failed upgrade the old data is back, whenever the
  process died (not modelled).
* **Hub and browser**: a browser ends up with the current Program.
* **Playback and sound**: one peer per tile, no session left on the server,
  "live" only with a picture; nothing is heard twice or after its channel is gone;
  everything recovers once the faults are over.
* **Preferences and synchronisation**: an edit is kept until it is stored or the
  user gives it up; nothing is overwritten unseen; all windows converge.
* **Studio page**: "clean" means saved; nobody's edit is lost, neither the
  user's own nor another's; the draft stays a document that can be saved.
* **Access**: accounts of one browser are kept apart; the offline gate opens
  only to who was granted; a list never shows an answer older than a change.
* **Desktop shell**: services run on data of their version; a snapshot is taken
  of quiet data; every operation of the menu ends.

## 2. Modules

Where one run checks several modules, its MC module declares the variables of
each and says in `part` which of them a behaviour is of: the others rest in
their initial state. A behaviour of the sum is a behaviour of one part, so its
states add up and do not multiply, and nothing about one part depends on
another. The fairness of the sum is the fairness of each part: weak fairness of
the disjunction of one action of every part is, since `part` never changes, weak
fairness of the action of the part. A property of the sum is the conjunction of
the named properties of its parts; the tables below say which.

### RecordingLease: assignments across the cluster

`RecordingLease.tla` has the Controller's tables (`node`, `assignment`,
`locations`), each agent's loop (`pc`, `payload`, `accepted`,
`failureStarted`), the file between agent and recorder (`file`), the recorder
(`capture`, `local`) and the Controller's clock `now`; node clocks differ from
it by a constant `Skew[n]`. One Controller operation is one step, because
`ClusterStore` runs it under its lock in one SQLite transaction. The agent's
loop is one step per request, with the request or its reply lost
(`AgentHeartbeat`, `AgentFetch`, `AgentRenew`, `AgentInstall`, `AgentUpload`,
each with its `AgentError` branch that starts and ends the 120 s grace).
`StartCapture` and `EndCapture` are the recorder's worker loop; a capture reads
the assignment once. `PromoteRing` catalogues what an event camera has kept in its
pre-event ring; recording into that ring leaves nothing but files without a
generation and is no step of its own. A camera stands for a (camera, profile) pair.

What is checked:

| Property | Statement |
|---|---|
| `BelievedDeadlineCovered` | whatever deadline an agent believes in, the Controller's isolation deadline for that generation is no earlier |
| `NoStaleStart` | no capture starts under a generation that was replaced, beyond the accepted skew |
| `OneRecorderPerGeneration` | captures of one camera on two nodes carry different generations |
| `VerifiedFromOneNode` | nor do verified catalog entries of two nodes, however late a batch arrives (it says who recorded, not under which assignment) |
| `RevokedNeverExtended` | no renewal extends what a revocation fenced |

Bounds: two symmetric nodes, one camera and two generations are enough for a
move, a late renewal and a second move refused. Time advances in ticks. `lease_fencing` has exact clocks, lease plus grace of one
tick, three clock values and one fault (a lost request, a lost reply or an agent
restart at any point). `lease_capture` adds two event recorders, with two clock values
(which is one isolation period: a camera moves after a revocation or an expired
lease, with batches of the old node still under way), one fault, and two captures
and catalogued segments at a time. Its view (`NoHistory`) leaves out the
observations `movedAt` and `released`, which no step and no property of that run reads, and
the time a node was last seen, which matters only beyond `NODE_UNHEALTHY_SECONDS`.
For every skew, any number of faults and any length of time
`NoStaleStart` and `VerifiedFromOneNode` are theorems. The model also shows what no run lists: a capture
goes on after the grace period cleared the assignments (the assignment is read
once per segment); a recorder with the `event` policy records as generation
0 without any assignment; and its pre-event media is catalogued, and verified, under
the generation the recorder has when the event starts (`PromoteRing`), even if it was
recorded under none. With two cameras and a limit of one it shows a node
above its declared capacity: `renew` (cluster_service.py:1206) extends an active
assignment after its isolation deadline, when `_select_node` had stopped
counting it and had placed another camera there, although
`docs/release-notes-v2.3.md:12` says "overload is rejected explicitly".

Proof (`RecordingLeaseProofs.tla`): `BelievedDeadlineCovered` is not inductive.
`LeaseInv` adds that everything held anywhere (fetched rows, accepted rows, the
file, a capture) carries a generation that was issued (`HeldIssued`) and is held
by one node only (`HeldByOne`), positive generations, that the former holder's
deadline had passed when the camera moved (`FormerDeadlinePassed`), bounds of
the clocks, and that only nodes whose skew was accepted believe anything
(`BelieversInSkew`), and that a verified catalog entry names an issued generation
and, when it is the current one, its owner (`VerifiedIssued`). The assumption `SkewAssumption` (accepted skew is smaller
than lease plus grace, 5 < 150 in the code) is what the move needs.
`VerifiedFenced` follows from the last conjunct: an upload is accepted only from
the owner of the current generation, and the entries of an older one were
its owner's when it was current.

### ExportJobs: evidence exports

`ExportJobs.tla` has the tables `job` and `exports`, the private directory of
every export (`dir`), the segments the export reads (`deleted`, `locked`,
`pins`), the cancel events, the one cancel request that may hold `jobs.lock`
over its call to the authorization service (`cancelling`), and the life of the
process (`phase`). Locks are released between steps exactly where the code
releases them: `Claim`, `WorkerAuthorize`, `Pin`, `Prepare`, `Convert`,
`Publish` (one step: rename, exports row and job completion run under three
locks in one transaction), `Published`, `Cleanup`, `Record`, `Finish`. Exports
posted directly run the same steps on an HTTP thread without a job row.
`DrainBegin`, `DrainDone`, `DrainTimeout`, `Crash`, `RecoverClean`,
`RecoverMark` are shutdown and restart.

| Property | Statement |
|---|---|
| `PublicationConsistent` | a job is completed exactly when its export is published and its directory complete |
| `NoLeftovers` | a failed, cancelled or interrupted job leaves no directory |
| `NeverCompletedLate` | an ended or cancelled job is not completed by the export under way |
| `PublishedFromLiveSources` | what is published was made from segments that are not deleted |
| `QueueBounded`, `NothingAfterDrain` | the queue's limit and the drain hold through every race |
| `QueuedServed` (liveness) | a queued job does not wait for ever |
| `CancelEnds` (violated) | a cancelled job ends |

The table's invariants are checked by the run `exports` through `ExportInv`, the
inductive invariant of the proofs. Bounds: two jobs on a queue of one so that
one is refused, one direct export
against one export slot, one crash, one segment. The system really stops
(`CHECK_DEADLOCK FALSE`): after a drain nothing runs.
Statements on the catalog succeed: a database error while the worker claims a job or records a
failure (`evidence.py:224-229`, `245`) ends its thread until the service restarts, and is not modelled.

Fairness (`FairSpec`): weak fairness of a cancel request's own steps, of
recovery and of direct exporters, which run whenever they can; strong fairness
of the worker, because it takes `jobs.lock` in competition with any number of
cancels and Python's lock lets it through eventually.

Proof (`ExportJobsProofs.tla`): `ExportInv` relates every job's state to the
worker's task and program counter (`WorkerTask`, `TaskState`, `RunningIsTask`),
to what a pending cancel has read (`CancelView`), to its directory (`DirOwned`),
and says what recovery still has to do (`Recovering`). The queue bound needs
`Charged`: a pending cancel may bring an ended job back to `cancelling`, so that
job has to be counted while the cancel is pending.

### NvrSegments: media and catalog

`NvrSegments.tla` has the catalog rows, the media and partial files on the
mounted volumes (`media`, `partials`), the recorder's capture of each segment,
readers and playback leases, the holder of `reader_lock` between two steps of
one critical section (`holder`), the rows a maintenance pass has read (`scan`)
and the life of the process. File-system changes and catalog changes are
separate steps everywhere, so a crash can fall between them. The volumes are the
mounted ones: the default root takes part in neither choice nor migration when
others exist.

| Property | Statement |
|---|---|
| `NothingLost` | the location the catalog gives for a segment nobody deleted holds its media |
| `NoOrphans` | once reconciliation is over every finished file is of a segment with a row |
| `CopiesAccounted` | a file that is not where its row says is the copy a migration is making or about to remove, or one it has left behind (`strays`) |
| `ProtectedMediaStays` | no step removes media that is locked or in use |
| `PinnedPathStays` | the file a reader opened stays where it is |
| `DeletedIsFinal` (violated) | a deleted row stays deleted |

The first three are the run's invariant `CatalogMatchesVolumes`, together with what makes
them inductive, which TLC checks as well:

* `BornOnce`: only a segment whose capture was begun has files, a row or readers;
  a partial file is its segment's only file and has no row, and a segment without a
  row has at most one file;
* `DeletedIsGone`: what was deleted on purpose (`unlinked`) is not where the catalog
  says it was, whichever integrity a later pass writes over `deleted`;
* `HolderReady`: who holds `reader_lock` from one step to the next has done what the
  next step takes for granted (the unlink of a deletion, the copy of a migration, the
  switch of the catalog before the source is removed);
* `ScanCurrent`: the rows a pass has read are still rows, and those of a migration
  still on the volume it empties;
* `StartsIdle`: a starting process does nothing but reconcile.

What is left behind. A crash between copy and switch or between switch and unlink,
and an unlink whose error is suppressed (`nvr_service.py:1018-1023`), leave a second
copy. Nothing removes it: reconciliation ignores a file whose segment has a row, and
deletion removes only the file the row names, so the copy outlives its segment.
`CopiesAccounted` therefore does not say that there are no such copies, but that
there are no others. A crash during the copy itself also leaves a temporary
`.migrating` file, which no start looks at; it is never a finished file and is left out.

Proof (`NvrSegmentsProofs.tla`): `CatalogTheorem` is the invariant for any set of
segments, volumes, readers and number of crashes; `ProtectedTheorem` and
`PinnedTheorem` are the two action properties, which follow from it step by step:
an unlink happens only in the hold of the lock in which `_segment_active` and the
lock were looked at, or after the switch of a migration.

Bounds: two segments, two volumes, one reader, one crash; the segments are
symmetric. Two segments are enough because a pass treats its rows one by one
and shares only the lock.

### StudioProgram: Studio and Program

**Code.** `core/src/studio_controller.cpp`, `scene_controller.cpp`, `scene_mutation.cpp`,
`studio_document.cpp` (history, flattening), `studio_store.cpp`, `scene_store.cpp`; called by the
four request workers of `control_server.cpp`.

| State | Code |
|---|---|
| `program`, `sceneFile` | `SceneController::document_` (what the runtime shows) and `scene.json` |
| `document`, `studioFile` | `StudioController::document_` and `studio.json` |
| `history` | `StudioHistory`'s undo and redo stacks, in memory only |
| `op` | the Studio operation that holds `StudioController::mutex_`: the Program it has seen, the revision its replacement got, what it wants to become true, its next call |

| Actions | Code |
|---|---|
| `PutScene` | `PUT /api/v1/scene`: one `SceneController::replace`, atomic under the scene mutex |
| `BeginTake`, `BeginUndo`, `BeginRedo`, `BeginAudio` | the operations up to their first call that changes something |
| `Apply`, `Save`, `Rollback` | the calls they make: replacement of Program, save of the collection, replacement that rolls Program back |
| `SaveDocument` | `PUT /api/v1/studio` |
| `Crash` | process end; both files are loaded independently |

A Studio operation holds its own mutex throughout but takes the scene mutex anew for each call, so
`PutScene` may fall between any two of its steps. Each replacement can be rejected (plan or
runtime), fail before its rename, fail after its rename (directory `fsync`) or succeed; each save
likewise.

**Properties.** `RevisionsIdentify`: a change of Program or collection always carries a larger
revision, through failed saves and restarts, which is what `If-Match` relies on. `SucceedsTogether`: a
successful operation leaves its scene on air unless another client has replaced it since.
`OthersKept`: an operation never overwrites a scene another client put between its steps.
`HistoryBounded` and `TimelineKept`: undo and redo move along one line of states, bounded by the
capacity, and a failed operation leaves it alone.

**Runs.** `studio` (with `StudioEditor` and `StudioPage`, below): two scenes, two definitions, one kept state (so that trimming, undo and redo
all happen), three changes of each document, one restart, symmetric scenes and definitions; no
deadlock is possible because a replacement may always be rejected. Two things the model shows and no property forbids: an audio
change of the scene on air puts its saved, not yet taken, definition on air (`BeginAudio` flattens the
saved collection), although `docs/api-v1.md` says that saves do not change Program before a take. A rollback may itself fail (its result is
ignored); the new scene then stays on air, which `SucceedsTogether` and `OthersKept` allow for.

**Proofs.** `StudioInv` = types, `FilesAhead` (a file equals its document or is exactly one
revision ahead, which is why a restart never reuses a revision), `OpView` (what the operation has
applied is on air or something newer is) and `HistoriesBounded`, also for the history an operation
has prepared. `TimelineKept` (`TimelineNeverForks`) needs two more facts, `TimelineInv`: every kept
state has a smaller revision than the document, so that a push never finds the document already on
the stack and always drops what was undone; and the history an operation has prepared is one push, undo
or redo away from the history it will replace. The line is then compared position by position.

### EventOutbox: intake and notifications

`EventOutbox.tla` has the `events` table (for deduplication), the rules that
are cooling down, the `notification_outbox` table (`outbox`, one row per event
and rule), and what each thread inside `process_outbox` holds: the rows it has
selected (`batch`), the one it is delivering (`current`), what came of it
(`result`). `sent` counts what was written to destinations that had accepted the connection: a webhook
answers what it received, an MQTT publication of QoS 0 is acknowledged by nobody
(`event_service.py:427-430`, `462-467`), so of MQTT "delivered" says no more than that. Every connection is one
transaction, so `Ingest` (insert, rules, retention, trimming), `Select`,
`Record` and `Sweep` are one step each; `Deliver` lies between two
transactions, and an answer may be lost. `RecordFails` is an UPDATE the database
refuses, which ends that call of `process_outbox`; `Crash` ends all of them.
Times are reduced to what they are compared with: a row is due or not, its day
is over or not, a rule is cooling or not.

| Property | Statement |
|---|---|
| `OutboxBounded` | the table never exceeds its limit |
| `DroppedOnlyWhenFull` | a row leaves the table, or is not kept, only behind as many newer ones as the table holds |
| `DeliveredWasSent` | what is called delivered was written to its destination |
| `GivenUpForReason` | expired rows are over age or out of attempts, pending ones have an attempt left |
| `SentWithinLimit` | while only the loop processes the outbox, it sends at most eight times, and once more for each fault |
| `Settled` (liveness) | no row waits for ever |

Runs: `outbox` has two processors (the service's loop and a request to
`/notification-outbox/process`), two events, a table of one row that is trimmed
while it is being delivered, two attempts and one fault, and checks `OutboxInv`,
which holds the first, third and fourth row of the table. `SentWithinLimit` is about
behaviours in which no request has processed the outbox yet (`alone`); with two processors
it would not hold: both select the same row and count from what they have read.

**Proofs.** `OutboxInv` is inductive as checked. `LostOnlyWhenFull` (`DroppedOnlyWhenFull`): only intake's
trim removes rows, and a trim that drops one keeps exactly `MAX_OUTBOX` rows, none older.
`LoneWithinAttempts` proves `SentWithinLimit`. Its inductive
invariant `AloneInv` says that the other processors are idle while `alone`, and (`LoneInv`) that a row's count lags behind `sent` by at most the faults, and by one more
while its delivery is in flight; that the processor's view of a selected row is the row's while the row exists;
and that an event not yet stored has neither row nor deliveries, so that a trimmed row never comes back.

Fairness (`FairSpec`): a processor goes on (deliveries have timeouts, the loop
calls again a second later), and a day passes. Nothing is assumed about
destinations.

Proof (`EventOutboxProofs.tla`): `OutboxInv` adds `BelievedWasSent` (a delivery
not recorded yet was sent) and that a selected row had an attempt left; it
holds for every number of processors.

### ArchiveQueue: uploads to the object store

`ArchiveQueue.tla` has two databases: the recorder's catalog (`row`, and
`written`, the updates in its open transaction) and the queue's `jobs` table
(`job`, `due`); the rows the scan has read (`scanned`), the workers (`pc`,
`task`) and the bucket (`store`, by digest, since keys are content-addressed).
`ScanRead` and `Enqueue` are `scan`; `Claim`, `Put`, `Verify`, `Update`,
`Commit`, `Complete` and `Retry` are one pass of `worker`, split where another
thread, the recorder or a crash can come in. The workers share one catalog
connection and so one transaction: a commit writes the other worker's update, a
rollback (`CatalogError`) drops it. `WorkerDies` is an exception outside the try
block or inside its handler. `Catalogue` and `Delete` are the recorder.
Refusals and lost answers are the arguments of `Put` and
`Verify`. Retrieval only reads and is not modelled.

| Property | Statement |
|---|---|
| `UploadedIsStored` | what the catalog calls uploaded is in the bucket |
| `CompletedIsUploaded` | without database errors a completed job's segment is uploaded, whatever crashes happen |
| `QueueBounded` | the outstanding jobs stay within the limit |
| `OneUploader` | no segment is uploaded by two workers at once |
| `Archived` (liveness) | every segment that stays is uploaded, but for the cases below |

Runs: `archive` has three segments, two with the same content, a queue of two
(so one is refused) and one fault, a crash or a database error;
its second part (`Small`) has two segments and checks `Archived`
(`UploadedInTheEnd`). The invariants are parts of `ArchiveInv`.

Fairness (`FairSpec`): the scan's timer and the workers' loops run; `claim`
takes the job updated longest ago, so one that is due again and again is taken;
the bucket does not refuse or lose the same object for ever. The recorder,
crashes and errors are under no obligation.

`Archived` holds only with its exceptions, which are the interesting result.
`Hopeless` names the jobs that hold their place for ever: left in `uploading` by
a crash or a dead worker (nothing claims them, `enqueue` ignores them, the scan
goes on reading their rows); of a segment deleted before its upload (there is no
limit of attempts); and completed by an update that the other worker's rollback
took away (its row is still `local` but its job exists). Once the hopeless jobs
fill the queue or the scan's LIMIT, nothing else is archived. A segment whose
file no longer has its recorded content behaves like a deleted one.

Proof (`ArchiveMediaProofs.tla`): `ArchiveInv` adds that a busy worker's job is
in `uploading` (`TaskUploading`, which makes claims exclusive), that whatever
may still be committed has been verified (`VerifiedBefore`), and that without
errors an update is open or in the catalog until its job is completed
(`UpdateKept`). Any number of segments, workers, queue places and faults.

### Preferences and synchronisation (runs `sync`, `access`)

`BrowserSync.tla` (run `sync`) extends `MonitorPreferences` and has `BrowserAuthorization` as
an instance; `Access.tla` (run `access`) extends `DeviceSync` and has `ClientManagement`,
`ConfigProfiles`, `SourceControls` and `DesktopShell` as instances. The run and the proofs
are about the same specification, `AnySpec` of that module.

**MonitorPreferences ⇒ PreferenceStore.** `PreferenceStore.tla` is the promise:
the account's document gives each control a setting, and a step either records a
choice made in a browser or commits choices of one browser; a control never takes
a value nobody chose for it. `MonitorPreferences.tla` is how it is kept:
`page[p]` has the hook's refs (`latest`, `baseline`, `lastQueued`, `lastSaved`,
the generation), `saves[p]` the serialized saves of `localRuntime.ts`, `cache`
the private cache, `wire` the requests. `Choose`, `Persist`, `Put` (the server's
merge), `PutLost`, the answers, `Refresh`, `Hide`, `Clear`, `Unmount` and failed
reads are actions. Its property `PreferencesStore` is `PreferenceStore`'s specification
with `doc` and `chosen` mapped to themselves and `Browsers <- Pages`.

A user may set a control to a setting it had before (`SetBack`). The code does not keep
such a choice in two cases, both of which TLC shows in the model:

* put back to the baseline while the change is being saved, it is no change of the
  following save (`monitorPreferenceMerge.ts:9-41`), and the answer of the first save,
  merged into the view, brings back what the user undid (`useMonitorPreferences.ts:60-68`);
* a view that is again what it was when a read of the account began takes over what was
  read, although a save is under way (`useMonitorPreferences.ts:111`), so that the next
  save may carry an older setting.

`PreferencesStore`, `SettingsKept` and their theorems therefore hold up to the first
`SetBack` (history `setBack`) and claim nothing after it; `Converges` holds with it.

`Clear` leaves a page `Cleared`: `clearing.current` is set (`useMonitorPreferences.ts:95`)
and never reset, so that a page which stays mounted after its private state was cleared
(`browserEnrollment.ts:218`, `syncRuntime.ts:191`, `localRuntime.ts:942-953`) ignores its
user and the account until it is unmounted or reloaded (`Unmount`). `Converges` is about
the pages that are at work.

**SourceControls** has the same saves over the document as the tree it is:
statistics default, decoration and sound records of each source. The first
adjustment of a source writes a record; `SeedBaseline` puts the copied default
into the baseline, so that the copy does not count as an edit.

**DeviceSync.** `queue`, `state` and `layout` are the device's IndexedDB stores,
`draft[w]` what a window edits, `run[w]` the synchronisation run of a window
(prepare, post, acknowledge, pull, each a step), `server` the scenes on the
server. One transaction or one hold of the `sync-queue` lock is one step; a run
holds `sync-run`. Other devices edit the server, answers are lost, windows
reload, the journal may be gone, the device may be revoked. A deleted scene keeps its `body`
on the server (`client_control_service.py:1298-1304`), and a scene may be `unsafe`, which the
server refuses with the whole batch. A queued mutation has two
history fields: `seen`, the revision this browser had pulled when it was saved, and
`ahead`, explained below.

**ConfigProfiles.** The account's list of profiles and its selection are two
documents, each read and written whole by three callers (`op[l]`: panel,
selector, Studio save) with awaits between their steps, and by another device.

| Property | Conjunct | Statement |
|---|---|---|
| `EditsKept` (`access`) | `SavedEditsQueued` | a saved edit stays queued until the server accepted it or the user gave it up |
| | `PendingScenesShown` | the layout shows the device's own queued edits, whatever is pulled |
| `NoBlindUpload` (`access`) | | an upload replaces another device's live scene only if it was pulled before the edit, or the user chose so, or the edit was first queued `ahead` |
| `PreferencesStore` (`sync`) | | until a control is set back, `MonitorPreferences` implements `PreferenceStore` |
| `SettingsKept` (`sync`) | `NeverFallsBack` | on a page nobody left, until a control is set back, none returns to an older choice of its user |
| | `PreferenceInv`, `OrderInv` | what a page sends, caches and shows beyond its baseline is its own choices, and none of it older than what it replaces |
| `PagesAreHonest` (`access`) | `NoControlFallsBack` | once all is saved, no adjusted control has a value nobody gave it |
| | `OthersKept`, `SelectionExists`, `PanelCurrent` | a profile is what its last save made of it; the selected one exists; the panel shows it |
| | `ManagementInv`, `ProfilesInv`, `ControlsInv` | the invariants these rest on, below and under "Access" |
| `AccessSettles` (`access`) | `Uploaded`, `Converged` | what is queued is uploaded or waits for a choice, unless it is `Stuck`; all windows end with the server's scenes |
| `SyncedInTheEnd` (`sync`) | `Converges` | all pages at work end with the account's document |

Bounds: three scenes, a queue of three and requests of two (256 and 64 in the code), two windows,
two edits of which one foreign, one fault; two pages with two controls, two choices, one fault, one page left; two profiles with two
versions; two windows, two sources (one on both walls), three adjustments. Two
writers are what a merge needs; a third repeats the second. Fairness: runs
retry every 30 s and every request is bounded; pages' timers fire and requests
are served.

Left out: the audit queue, the server's restore, a grant of the device that is narrowed while edits
wait (which makes their scenes unsafe and filters the pulled ones, `_sync_state`), the
recovery hold of `useDeviceSync`, the expiry of the local records after seven days
(`LEASE_MS`) and the camera preferences queued beside the scenes; the one-time migration of local preferences
and bfcache; the backups of profiles.

**Proofs.** `MonitorPreferencesProofs.tla`: `StoreRefined` is the refinement, for any
pages, controls, choices and faults. It needs `PreferenceInv`: whatever travels in a
page's name (a save, a record of the cache, a request) differs from its base only by
settings chosen on that page (`SavesMine`, `CacheMine`, `WireMine`); a page's saves are
answered one after the other, each of another generation (`SavesInOrder`); and
`HookIsSound`: the view differs from the baseline, and from the save the hook waits
for, only by the page's own choices, and a view that equals what was saved or read
waits for no save. The last part is what `refresh` relies on when it applies a read
only if the view is still the one from before it (`useMonitorPreferences.ts:108-120`).
The merge on the server then changes a control only where view and base differ, which
is a commit of `PreferenceStore`. All this holds until a control is set back:
`NotSetBack` splits `Next` there. `PreferencesStoreTheorem` carries this over to `AnySpec`.

`SettingsKeptTheorem` (same module) proves `NeverFallsBack`. That is an order between
everything a page holds of one control, which `OrderInv` states for the choices `M` made on the
page (`Forward(M, x, y)`: where both `x` and `y` have one of them, `y`'s is no older):

* `AccountForward`: what was read or believed of the account is no newer than the account, and
  the account no newer than the view;
* `SavesForward`: the saves are in the order of the choices, behind the view, and where a save
  changes something it is no older than the account; `AnswerForward`: neither is its answer;
* `SavesOfBaseline`, `RequestOfHead`: all saves wait on one baseline, the hook for the newest,
  and the only request on the wire is that of the oldest;
* `ReadOvertaken`: an edit made since a read began shows, and if the view is still the one from
  before the read, the account has nothing newer of this page than the read found.

It is claimed while no page has been left (`hides = 0`): a save that `pagehide` aborts may be
executed after a newer one. TLC checks `OrderInv` in the run; the convergence of the pages
stays with TLC alone.

`AccessProofs.tla`: `EditsKeptTheorem` and `NoBlindUploadTheorem`. `EditsKept` is
its own inductive invariant; its `TypeOK` says what the stores and the runs hold:

* `RunsOK`: one run at a time in all windows, each in one of its stages, at a revision
  no older than the stored one;
* `PulledBy`: whatever content of another device a queue, a document, a draft or the
  layout holds was pulled by its revision, and `StateOK`: what another device wrote by
  that revision is among the pulled documents;
* `Founded`: the queue's base hides nothing newer than the writer of the edit had
  pulled, which is what `baseRevision` is for; `StillQueued` and `AnswerOK` carry this
  through a run: a batch stays queued until its answer, and what an answer accepts is
  this browser's or was known to it.

`PagesAreHonestTheorem` (same module) rests on one invariant per page. For the profiles it is
`ProfilesInv`: a selected profile that does not exist was lost to a write that began from an
older list, or its deletion is between its two writes (`SelectionFollows`); the newest reload of
the panel has still to read, or found what the account selects (`PanelFollows`). For the controls
of the sources it is `ControlsInv`, over the controls that change one way (`OneWay`: nobody put
them back and the source is not `late`): whatever follows another document keeps what it had set
(`Follows`, `Keeps`), so the account holds the control or a window has it still to save
(`NothingLost`); and every value in the account, a window or a save was given by somebody
(`Sound`). `late` marks the sources first adjusted while a save was out whose baseline, or
whose answer, had no record of them: either way the baseline ends without the copied default, and
the copy then counts as an edit. TLC needs four adjustments to show a control put back by it.

Beside the run, `EditsKept` and `NoBlindUpload` were checked on larger instances of
`DeviceSync` alone: three edits, two foreign and one fault completely (1.3 million
states).

The exception `ahead`: `acknowledgeQueue` moves the queue's base to the revision
of the answer (`syncRuntime.ts:105-107`) when all that is left was sent and accepted and
saved again meanwhile. Until the run's second pull, the base is then newer than the
pulled state, and a scene first queued in that window inherits it
(`syncRuntime.ts:76`), so that an edit of another device between the two revisions is
not a conflict for it. It takes a scene this browser did not hold while another
device had it, so in practice an identifier that returns or collides; the history field
marks exactly these edits and the property excepts no other. Deletions by another
device are outside the property: a scene deleted elsewhere and edited here comes back
after `DropUnknown` has rebased the queue, and one deleted elsewhere and sent as it was is no
conflict at all, because the server compares with the body the deletion kept
(`client_control_service.py:1254-1269`, 1290-1305).

The exception `Stuck` of `Uploaded`: the queue takes 256 mutations (`localRuntime.ts`,
`MAX_QUEUE`), but a run with more than 64 scenes among them ends before it posts anything
(`syncRuntime.ts:259-261`), and a batch with one scene the server calls invalid, unsafe or out of
scope is refused whole (`client_control_service.py:1288-1289`). Either way all that is queued stays
queued until the user saves something else, each run fails again, and since a run stores what it
pulled only at its end, the other devices' scenes do not reach this one meanwhile. The edits
themselves are kept (`SavedEditsQueued` has no such exception).

What the models show and no property forbids: a save aborted by `pagehide` may
be executed after the keep-alive one (`NeverFallsBack` excludes left pages); an
executed save whose answer is lost is retried with its old baseline; a first
record made on the wall of another scene loses its seeded baseline
(`useMonitorPreferences.ts:63`, against
`docs/monitor-view-and-analytics.md:92`); the header's profile selector has no
version guard (`WorkspaceShell.tsx:157-164`, unlike the panel's), so it may keep
showing an older selection; a failed write of a profile is not reported and a
failed read makes the next write start from this browser's cached list.

### StudioEditor and StudioPage: the browser's side of the Studio (run `studio`)

`StudioEditor.tla` has the collection the page edits (`studioDraft`), the open
scene a second time (`draft`), the baseline, and every operation of `App.tsx`
and `SceneCollection.tsx` on them: source and item changes, layers, drag,
alignment, grid, templates, copies, deletion, the source picker, import, discard.
`StudioPage.tla` has where the document comes from and goes to: the server's log
of revisions, undo and redo, the device layout with its queue, the account
profile, the requests under way (`request`, `loads[k]`), and a second operator.
There a document is its revision and the set of edits in it.

| Property | Conjunct | Statement |
|---|---|---|
| `DraftConsistent` (editor) | `DraftMirrors` | the two copies of the open scene agree after every operation |
| | `References`, `LayersContiguous` | no sequence of edits leaves a dangling or doubled reference, or a gap in the layers of a scene the picker did not rebuild |
| | `NestingKept` | only adding, retargeting or picking a nested source can nest scenes in a circle or more than two deep |
| | `LockedItemsStay` | no canvas operation moves an item that was locked when it began |
| `NobodysEditIsLost` (page) | `NoUnseenLoss` | a commit never removes another operator's edit the page has not shown |
| | `SaveKeepsTyping` | the answer to a save keeps what was typed meanwhile; that to a copy what was typed before the page looked at it |
| | `OnlyServerDocumentsSaved` | only a document that came from the server is saved to it |
| | `CleanMeansSaved` | a draft called saved is the server's content at the revision shown |
| | `PageInv` | what these rest on, below |

`StudioSystem.tla` puts both beside `StudioProgram`; the run and the proofs are about its
`AnySpec`. An edit counts as seen once any document that holds it was shown.

**Proof** (`StudioProgramProofs.tla`): `NobodysEditIsLostTheorem`, for any numbers of edits,
foreign commits, loads, actions and failures. A commit takes away what its document lacks, so it
is enough that a document which can be sent holds every foreign edit of the revision it names,
but for edits already seen (`Covered`), and that what the page edits has only seen ones (`Shown`).
`PageInv` says so of everything the page edits and keeps (`DocumentsCovered`), of what a request
carries and answers (`RequestCovered`) and of each load, which holds exactly what the server had
when it was read (`LoadsCovered`). `ModesTell` is about the modes: while each load ends before
the next save or load begins, a page in server mode has a baseline and a draft from the server,
which gives `OnlyServerDocumentsSaved` and, with `DocumentsCovered`, `CleanMeansSaved`. `DraftConsistent` is only
model-checked: the editor filters and renumbers sequences with `SelectSeq`, about which the
library has no lemmas the provers can use without induction.

Bounds: collections of two scenes with a nested one, a locked item, room for a
third scene and a fourth source, three edits; the page: two edits, one foreign
commit, one load, one action, one failure, which is what each conjunct needs to
be broken by its mutants. No fairness: these are safety properties.

`LayersContiguous` leaves out scenes rebuilt by the picker, which keeps the old
`zIndex` of the items it retains (`SceneCollection.tsx:58-62`); a scene that
cannot be saved is the result, against `docs/scene-schema-v1.md:48`. `DraftConsistent`
does not say that the server accepts a draft: besides those scenes it refuses nesting in a
circle or deeper than two (`studio_document.cpp:67-94`), which `AddSource` and `UpdateSource`
(`App.tsx:551`, `1502`) and the picker do not look for and `NestingKept` pins on them, and
scenes of different canvas sizes (`303-317`), which are not modelled.
`overlapped` marks a load that began while another load or save was out. Choosing a
profile drops unsaved edits; a profile's save that is answered after switching
back makes the profile active again. TAKE, undo and redo act on the server while a
local profile is loaded (`App.tsx:882`, `1105`, notice at `244`). The answer to
an action replaces what was typed meanwhile, and so does the last step of a copy with what is
typed while the mode is stored, after the page has looked (`App.tsx:362`, `366`, `367`). Abstract: a rotation is unbounded
(the page allows ±3600°, the server ±360°), group ids, and the dialogs, whose
copies are read and written in one step.

### Access and the desktop (runs `sync`, `access`)

**BrowserAuthorization** has the stored identity of this browser with its owner
and expiry, the offline copy of the Studio, the clock (which may be set back),
the gate's session, and each operation with the point it has reached (`check`,
`pairing`, `sync`, `logout`, `expiry`, `media`). Each reads the identity, awaits,
and goes on with what it read; the one deletion boundary
(`clearPrivateRuntimeState`) may fall between any two steps.

**ClientManagement** is the clients panel over `useManagementActions` and
`useManagementRefresh`: the phase and owner of each key, the requests still on
the wire although the page gave them up, the two lists with their generations,
the reconciliation of an unknown outcome, other administrators.

**DesktopShell** is the supervisor (`children`, `stopping`, `phase`), the boot
and the one operation as threads of awaits (`at`), and the disk (`version`,
`data`, `pending`, `installer`). Services exit at any time, steps fail, the power
is cut. `mishap` remembers three things the code lets happen and the properties except: an operation
asked for while the services still boot; a killed process that is not gone after 5 s and is
forgotten (`abandon`, `supervisor.mjs:180-182`); a record whose failed removal is ignored
(`giveUp`, `updates.mjs:112`). A boot may fail after the services are up (`BootFails`,
`main.mjs:192-208`): they run on behind the diagnostics page.

| Property | Conjunct | Statement |
|---|---|---|
| `AccountsKeptApart` (`sync`) | `AccountsApart`, `BrowserInv` | a signed-in account never works with another one's identity |
| | `OfflineNeedsGrant` | the workspace opens without the server only on a valid identity and copy |
| `PagesAreHonest` (`access`) | `NoLateEffect` | a request the page no longer calls unknown takes no effect later |
| | `ConfirmedStays`, `ManagementInv` | a confirmed approval is not undone by a list read before it |
| `DataMatchesServices` (`access`) | `SnapshotIsQuiet`, `ShellInv` | no service runs while data is snapshotted or moved, but after a `mishap` |
| | `BootRespectsData` | the boot starts no old version on newer data |
| | `RecordIsKnown` | no recovery record of a given-up update remains, unless its removal failed |
| `SyncedInTheEnd` (`sync`) | `OfflineEnds`, `GateDecides`, `RevocationLands` | an expired session ends; the gate decides; a revocation deletes the private data |
| `AccessSettles` (`access`) | `InProgress`, `CaughtUp` | nothing is in progress for ever; lists show the server |
| | `operating` | every operation of the menu ends |

Bounds: two accounts, one enrolment, a grant of one tick, two ticks, four acts,
two troubles; one enrolment and one client, two mutations, one foreign; two
services of which one holds a port, two versions, two operations, one trouble.
Fairness: requests end by their limits, timers fire, awaits end by time-out
(`supervisor.mjs` kills what does not exit). The boot and the operation of the desktop are
each fair on their own: two chains of awaits in one event loop do not starve each other.

**Proofs.** `AccountsKeptApartTheorem` (`MonitorPreferencesProofs.tla`), for any accounts,
enrolments and lives of a grant. `BrowserInv` adds to the types that a pairing or synchronisation
under way carries an identity (`TasksCarry`) and `OwnersKnown`: who is signed in is the account
whose data this is, and so is the owner of the stored identity and of each identity an operation
carries, unless it was deleted behind the operation's back (`stale`). Whoever the gate admits finds
nothing of another account, because admitting one first deletes the other's data; what an
operation carries over that deletion is stale. `OfflineNeedsGrant` follows from
`LoadOfflineStudio` alone, which is the only way offline.

`PagesAreHonestTheorem` (`AccessProofs.tla`) for the clients panel needs `ManagementInv`. A request
the page gave up may still take effect; that is harmless while its keys are locked
(`OpenLocked`). Locks are taken off by a check, which frees an enrolment and the device it was to
replace: `AwaitedAlone` says that no other request waits on that device, and `CheckTrue` that
what the check read as done is done. `RequestsKnown` and `KeysOwned` tie phases and owners to the
requests on the wire; `ConfirmedKnown` is what no later list undoes.

`DataMatchesServicesTheorem` (same module), for any list of services and any versions, from
`ShellInv`: `ThreadsOK` (which steps each thread takes, and that boot and operation exclude each
other unless there was a `mishap`), `RecordsOK` (the data is of the installed version or older, but while a record
says how to go back; what the application knows of the record, step by step) and
`ProcessesKnown` (whatever runs is among the children or still to be stopped). `updates` says that
the boot got as far as to set up the updates: only one that brought the services up does. It
shows the wall only after it removed the record, and the wall is where an update is asked for, so
none begins while another one is undecided.

`revived` marks the one way `AccountsApart` fails: a pairing answered after the
logout's deletion stores the deleted identity again
(`browserEnrollment.ts:218-219`, `248`, `localRuntime.ts:927-940`, against
`docs/local-first-pwa.md:38`).
Not covered by a property: services restarted by hand run
on newer data, which only the boot refuses (`main.mjs:124-127` against `189`); a stop after a
service crashed counts as failed (`supervisor.mjs:175`); a power cut between the two
renames of a recovery leaves no data directory. Failures of the renames and of the removal in a
recovery (`main.mjs:156-159`) are left out, but for the missing directory. The reconciliation
applies its lists without cancelling refreshes, and locks are the page's only.

### What a page plays and shows (run `media`)

**WhepPlayback** is one tile: attempts (`step[i]`: resolving, gathering, posting,
reading), of which an earlier one may still await something; the open peer, the
server's session, the four timers, the watchdog over presented frames, the hidden
tab. **AudioChannel** is the audio-only counterpart with its stall interval
counting packets. **AudioMixer** is the audio graph: `ops` is what the browser was asked
(resume, suspend) and which call waits for it. **AudioTracks** is which tracks of
which sources have channels, what the mixer attaches, and the probes.
**SceneEvents** is the control connection together with the core's hub (`wire`:
join, queue, close). **WorkspaceLayout** is the docks: the layout on screen, the
one the last effect saw, the one believed saved, the debounce and the chain of
writes. **MonitorWall** is which tiles are large: the operator, the rotation,
promotions by detections and sound, their holds and cooldowns.

| Property | Conjunct | Statement |
|---|---|---|
| `NothingLeftBehind` | `OnePeer`, `OneSocket` | one peer per tile, one socket per page, however attempts overlap |
| | `NoForgottenSession` (twice) | a session the server told of is in use or was deleted |
| | `NeverStuck` (three times) | whatever waits has a timer or a request that wakes it |
| | `NoStrayTrack`, `NeverTwice` | the mixer plays no track of a closed channel and no source twice |
| `ScreenIsTrue` | `LiveIsReal` | "live" has a peer that showed a frame and is watched |
| | `SettledIsCurrent` | a settled page shows the core's Program |
| | `SaysWhatItIs` | a settled mixer runs and measures exactly when enabled |
| | `Renderable`, `LastChangeSaved`, `NoSaveOnLoad` | a layout can be laid out, the last change is saved, loading saves nothing |
| | `HoldGivesBack` | a promotion gives back the large tiles it took |
| `RecoversInTheEnd` | `Recovers` (twice), `Reconnects`, `EndsAsWanted`, `ProbesEnd`, `Settles`, `EveryoneShown` | everything plays, reconnects, comes to rest; every source is shown in turn |

`MediaSystem.tla` puts the seven side by side; a behaviour is of one of them (`showing`), since
they share no state, and the others rest.

`NothingLeftBehind` is proved (`NothingLeftBehindTheorem`, in `ArchiveMediaProofs.tla`) for every
number of attempts, peers, sockets, scenes, tracks, revisions and faults. It is stated with the
invariant every step keeps, which adds to the conjuncts of the table what they rest on:

* `PlaybackInv` of a tile. `OnePeer` and `NoForgottenSession` alone are not inductive: a late
  attempt would replace the peer of a newer one. `Attempting` says that only the latest attempt
  has a request on its way, and that until it is answered no timer, stage or watchdog of an
  earlier one is left; `Watched` that whatever stage is reached, the timer or the watchdog of the
  next one runs, from which `NeverStuck` follows.
* `ChannelInv` of a channel: `Owned` ties the await under way to the peer in use or to none, and
  says that a channel without a peer waits to retry.
* `EventsInv` of the socket: `Sessions` says that a retry is armed only without a socket, a
  deadline only with one.
* `TracksInv` of the audio workspace: `Kept` says that a source without tracks is never known as
  available, so that the default choice is a track it has, and that the sound of the videos is
  what the last configuration of the mixer made of it.

The proof has a lemma for each of these (`PlaybackStep`, `ChannelStep`, `EventsStep`,
`TracksStep`) and under it one for each handler; `Sync`, the effect every change of the audio
workspace ends with, makes its half true whatever it finds (`SyncSafe`).

Bounds: three attempts per tile (names are reused), two faults, two acts; seven
attempts per channel for six faults; four acts on the mixer, three on the tracks
with one fault; two sockets, two revisions, two failures and a queue of two; two
changes of the layout; three sources, one act and one signal on the wall. To keep
the sum within minutes the run starts some parts in one of their initial states only
(the wall for the mixer, scene "one" for the tracks; low-power exactly with a pinned
source; a profile's layout only with the old kind of account record). Fairness: what is awaited ends, timers fire, and media flows unless it is
cut; users, faults and commits are under no obligation.

What the models show and no property forbids: a session joins the hub after its
first scene was read (`control_server.cpp:2758`), so `SettledIsCurrent` excepts
what was committed between; a hidden tab stalls without being seen
(`whep.ts:314`); a `disconnected` peer that recovered is torn down by its timer;
sessions whose answer was lost stay with the server; a channel may be "connected" without audio
(`audioTrackChannel.ts:152-157`). A projector
may become audible (`DirectPreview.tsx:579` against the comment at `622`); a reattached
element releases its tracks while their channels stay (`directAudioMixer.ts:378-389`);
an aborted probe in flight is shared with its successor (`sourceAudio.ts:61`). A hidden
dock is open again after a reload (`WorkspaceShell.tsx:46-59`, against
`workspace-shell.spec.ts:41-44`); an account profile replaces dock edits; a failed
account write counts as saved. Overlapping promotions
(`crossed`, `DirectPreview.tsx:739-742`) may leave other large tiles than those chosen.

Not modelled: HLS and MJPEG, resolving and posting without a limit of their own, bfcache,
autoplay refused again and again, the speaker's volume.

### ExportSubmission and ArchivePage: the archive in the browser (run `exports`)

`ExportSubmission.tla` is the page that submits, recovers and cancels jobs:
`page` has the hook's refs, `stored` the tab's session storage, `late` requests
the page gave up that may still arrive; the service is reduced to its jobs and to the
cancellation that has read its job and not yet written it (`cancelling`), which may write over a
failure recorded between (run `export_cancel`): `reopened` remembers it, and what is said of such
a job may go backwards. Any 4xx is a refusal, also of a recovery whose first attempt was accepted;
the page then forgets the request (`useNvrExportJobs.ts:109`), so `known` means that a job or a
refusal was seen. A list may leave jobs out or be refused when the account lost a right
(`withheld`). The session may fail to be read, which ends the page (line 92), and only a page in
view polls (line 93). A full session storage (line 51) and the 50 jobs a list holds are not modelled.
`ArchivePage.tla` is the timeline: its queries (aborted ones too), `holders`, the
runs of the lease effect with their rounds of renewals, the service's `leases`
with the time they have left, retention, and the deletion of the segment shown.

| Property | Conjunct | Statement |
|---|---|---|
| `SubmissionKept` | `UncertainIsKept` | a submission of unknown outcome stays in the tab's storage |
| | `NeverBackwards` | a job never returns on the page to a state it has left, unless it was reopened or withheld |
| `WatchingIsSafe` | `NoForgottenLease` | a lease the service counts is held by a run that gives it back, unless an answer was lost |
| | `ShownIsLatest` | the timeline shown answers the latest query, of the selection shown |
| | `WatchedIsKept` | nothing deletes what a visible page shows and protects |
| | `OwnLeaseYields` | the page's deletion is not refused because of its own lease |
| `SeenInTheEnd` | `AcceptedIsShown`, `ProtectsInTheEnd` | a page in view whose session was read comes to show every accepted job; a visible page protects what it shows |

`SubmissionKept` is proved (`SubmissionsKept`, in `ExportJobsProofs.tla`) for every set of
requests and any number of faults and reloads. Its invariant `SubmissionInv` says besides
types that the stored request is one whose outcome has not been seen (`PendingUnknown`), that what the
page, a list or an answer says of a job is not ahead of the service (`JobsTold`), that a submission under way
is of the stored request, a cancellation of a job shown running, and no list read beside an action of its
generation (`ActionSound`), and that a list of the page's generation says all that the page shows (`ListCurrent`).

`WatchingIsSafe` is proved as well (`WatchingSafe`), for every set of cameras, cursors and lease
ids and any number of moves and faults. `NoForgottenLease` and the deletions' properties are
not inductive: that a lease is given back depends on what the run that holds it goes through.
`WatchInv` therefore says of each run (`RunSound`) that a lease is either of the last round, of
the one under way or to be given back; that a round not yet settled has asked for each segment
of the run or has its lease; and that a sure run has for each segment a lease that outlives the
round to come. Of the runs together (`RunsOK`) it says that no lease is held by two, so that
giving one back takes nothing from another, and that exactly the newest run of an open page is
open, for what is under the cursor. `ActionOK` says that a deletion is sent when the run it
waits for holds nothing more, `QueriesOK` that a query which still counts is the latest. A run
is followed through the three steps of `Advance` by lemmas of its own (`RunSettled`,
`RunEnded`, `RunStopped`); each action then changes one run (`OneRunMoves`), only the newest
(`NewestChanges`), or renders another page (`Renders`). The proof needs leases that last for
two renewals or more (`Life > 1`; the code's 40 s against 20 s): with one, a lease would end
while the round that replaces it is on its way.

Bounds: two requests, one fault, one leave (or hidden tab); one camera
and an empty cursor position beside it, leases of two rounds, two moves, one fault.
Fairness: timers fire and requests end within their limit, which is taken to be
shorter than the round of 20 s.

Shown and not forbidden: a failed renewal gives the valid lease back
(`NvrTimeline.tsx:99-100`), leaving the segment unprotected until the next
round; returning to a page whose round is still being given back waits for the next
timer (against `docs/timeline-evidence.md:29`); a run still giving back may make the
deletion conflict. The comment at `NvrExportPanel.tsx:9-12` warns of duplicates,
which the service's look-up of the request id excludes. Left out: another account
in the same tab, revoked permission, a failing session storage, the limit of
fifty rows, closing the tab.

## 3. The runs

| Run | Instance | What it shows | About |
|---|---|---|---|
| `lease_fencing`, `lease_capture` | `RecordingLease` | leases and captures | 40 s, 80 s |
| `exports` | `EvidenceExports`: `ExportJobs` + `ExportSubmission` + `ArchivePage` | jobs, their page, the timeline page | 125 s |
| `export_cancel` | `ExportJobs` | disagreement: a cancelled job may stay `cancelling` | 5 s |
| `segments` | `NvrSegments` | catalog and volumes | 30 s |
| `segments_deleted` | `NvrSegments` | disagreement: a deleted row returns | 5 s |
| `studio` | `StudioSystem`: `StudioProgram` + `StudioEditor` + `StudioPage` | the Studio on both sides | 110 s |
| `outbox` | `EventOutbox` | notifications | 50 s |
| `archive` | `ArchiveQueue` twice | uploads | 40 s |
| `sync` | `BrowserSync`: `MonitorPreferences` + `BrowserAuthorization` | what an account's browsers keep | 128 s |
| `access` | `Access`: `DeviceSync` + `ClientManagement` + `ConfigProfiles` + `SourceControls` + `DesktopShell` | offline edits, shared pages, the desktop | 124 s |
| `media` | `MediaSystem`: `WhepPlayback` + `AudioChannel` + `AudioMixer` + `AudioTracks` + `SceneEvents` + `WorkspaceLayout` + `MonitorWall` | what a page plays and shows | 118 s |

The modules meet at these places: `ExportJobs` sees segments as pinned, locked
or deleted, `ArchiveQueue` as verified or deleted, `RecordingLease` as catalog
entries with a generation, `ArchivePage` as leased; `NvrSegments` is the detailed
model of what they abstract. `StudioPage` sees of `StudioProgram` the log of
revisions, `StudioEditor` what one draft contains.

Hidden deadlocks: `CHECK_DEADLOCK FALSE` is set where the system may stop, which
is where users may do nothing more and every bounded counter is used up.

### What is not modelled, and what would come next

* The timers that keep an event recording alive (`event_service.py:187-209`): the
  start of a recording has no order against the end posted before it (`:197`).
* The upgrade guard's rollback, interrupted between two files
  (`preupgrade_guard.py:181`).
* A renewal that revives an assignment placement had stopped counting
  (`cluster_service.py:1206`) is shown under `RecordingLease`; no property forbids it.
* Grants' signatures, publication and talk leases of client control v2, the
  camera registry, the native clients, the analytics scheduler.
* Media work, parsing, cryptography and presentation: without protocol state.
* A maintenance thread that an OSError ends for good (nvr_service.py:950), and the
  temporary file of an interrupted migration (nvr_service.py:1013).

`PROJECT.json` says for every component what is modelled and what is not. The result
worth proving next is `ScreenIsTrue`: `LiveIsReal` follows closely the invariant of the tile,
the others need an inductive invariant of their own.

## 4. What is proved and what is only checked

Proved by TLAPS, for every value of the constants within their assumptions
(listed in `PROJECT.json`):

| Module | Results |
|---|---|
| `RecordingLeaseProofs` | `LeaseInvariant`; deadlines covered, stale starts, generations and verified entries fenced, revocation final |
| `ExportJobsProofs` | `ExportInvariant`; atomic publication, nothing left, queue bound, drain, cancellation, live sources; `SubmissionsKept`, about the page that submits; `WatchingSafe`, about the timeline |
| `StudioProgramProofs` | `StudioInvariant`; history bound, revisions, others' scenes kept, success is on air, one timeline; `NobodysEditIsLostTheorem`, about the page; `ServerKept`: the server's results beside editor and page |
| `EventOutboxProofs` | `OutboxInvariant`; outbox bound, delivered means sent, nothing given up early, dropped only when full, a lone processor's limit |
| `ArchiveMediaProofs` | `ArchiveInvariant`; uploaded means stored, queue bound, exclusive uploads, completion catalogued; `NothingLeftBehindTheorem`, about what a page plays |
| `NvrSegmentsProofs` | `CatalogTheorem`: catalog and volumes agree; `ProtectedTheorem`, `PinnedTheorem` |
| `MonitorPreferencesProofs` | `PreferenceInvariant`; `PreferencesStoreTheorem`: `MonitorPreferences` implements `PreferenceStore`; `SettingsKeptTheorem`; `AccountsKeptApartTheorem` |
| `AccessProofs` | `EditsKeptTheorem`, `NoBlindUploadTheorem` (`DeviceSync`); `PagesAreHonestTheorem` (`ClientManagement`, `ConfigProfiles`, `SourceControls`); `DataMatchesServicesTheorem` (`DesktopShell`); `DevicesKept`: the composition keeps what holds of the devices |

The assumptions about constants are those of the modules: bounds are natural numbers, names that
stand for nothing are told apart from the rest (`PageAssumption`, `AccessAssumption`,
`BrowserAssumption`, `RequestAssumption`, `WatchAssumption`, `MediaAssumption`), a playback lease lasts for two renewals
or more, a grant has a life and the clock a range of at least one tick.

Only model-checked:

* the liveness properties (`QueuedServed`, `SeenInTheEnd`, `Settled`, `UploadedInTheEnd`,
  `SyncedInTheEnd`, `AccessSettles`, `RecoversInTheEnd`): liveness under fairness and ENABLED are
  beyond the prover;
* `DraftConsistent`: the editor's collections are sequences filtered by `SelectSeq`, a recursive
  operator without lemmas the provers can use;
* `ScreenIsTrue`: what a settled mixer, layout, wall or page shows is checked on every state of the
  run, and no inductive invariant is stated for it yet.

The two runs that show a disagreement between code and documentation
(`export_cancel`, `segments_deleted`) are counterexamples by nature.

Every counter that the code leaves unbounded is bounded by a constant named
`Max...` in the guards; the proofs hold for every value of those constants.
