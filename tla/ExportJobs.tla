----------------------------- MODULE ExportJobs -----------------------------
(***************************************************************************)
(* Evidence exports of the NVR service (nvr/evidence.py and the parts of   *)
(* nvr/nvr_service.py it relies on): the persistent job table with its one *)
(* worker thread, exports run directly by an HTTP thread, cancellation,    *)
(* shutdown and restart.                                                   *)
(*                                                                         *)
(* jobs.lock, reader_lock and catalog.lock are released between the steps  *)
(* below exactly where the code releases them.  Only cancel keeps          *)
(* jobs.lock from one step to the next: it holds the lock while it reads   *)
(* the job, asks the authorization service and writes the row.             *)
(*                                                                         *)
(* Abstractions: a job stands for its (owner, requestId) pair and its row  *)
(* id; requests that are refused before they change anything are not       *)
(* steps; the conversion of all cameras is one step that ends in a         *)
(* complete directory or in an error; removing a directory succeeds.       *)
(***************************************************************************)
EXTENDS Naturals, FiniteSets

CONSTANTS
    Jobs,            \* (owner, requestId) pairs
    Direct,          \* exports posted to /exports: one HTTP thread each
    Worker,          \* model value: the job worker thread
    None,            \* model value: no job
    Segments,        \* recorded segments in the requested range
    Locking,         \* exports whose request asks for evidence locks
    MAX_OUTSTANDING, \* 8
    EXPORT_SLOTS,    \* 2
    MaxCrashes       \* bound on restarts

Exporters == {Worker} \cup Direct
Exports == Jobs \cup Direct

ASSUME ExportsAssumption ==
    /\ Jobs \cap Exporters = {}
    /\ Worker \notin Direct
    /\ None \notin Jobs /\ None \notin Direct
    /\ Locking \subseteq Exports
    /\ IsFiniteSet(Jobs) /\ IsFiniteSet(Direct)
    /\ MAX_OUTSTANDING \in Nat /\ EXPORT_SLOTS \in Nat /\ MaxCrashes \in Nat

VARIABLES
    job,        \* export_jobs table: state and insertion order of each job
    exports,    \* exports table: the published ones
    dir,        \* the export's private directory
    deleted,    \* segments whose row is deleted
    locked,     \* segments under an evidence lock
    event,      \* cancel_events
    cancelling, \* the cancel request that holds jobs.lock
    accepting,  \* ExportJobs.accepting
    stop,       \* ExportJobs.stop
    phase,      \* life of the process
    pc,         \* next step of every export thread
    task,       \* the worker's current job
    pins,       \* segments pinned by every export thread
    crashes     \* bound: restarts so far

tables == <<job, exports, dir, deleted, locked>>
control == <<accepting, stop, phase, crashes>>
threads == <<pc, task, pins>>
vars == <<job, exports, dir, deleted, locked, event, cancelling, accepting, stop, phase, pc, task, pins, crashes>>

-----------------------------------------------------------------------------
ACTIVE == {"queued", "running", "cancelling"}
JobStates == ACTIVE \cup {"absent", "completed", "cancelled", "failed", "interrupted"}
JobRow == [state : JobStates, created : Nat]
Dirs == {"none", "partial", "complete"}
Steps == {"idle", "authorize", "pin", "prepare", "convert", "publish",
          "published", "cleanup", "record", "finish", "done"}
Phases == {"serving", "draining", "exiting", "stopped", "recovering"}
\* cancel: no request, or the state it has read and its next statement.
CancelRequest ==
    [job : Jobs, seen : ACTIVE, step : {"authorize", "write"}]
NoCancel == [job |-> None, seen |-> "none", step |-> "none"]

LockFree == cancelling = NoCancel
\* Handlers in flight and the worker keep running while the server drains.
Running == phase \in {"serving", "draining", "exiting", "stopped"}
ActiveJobs == {j \in Jobs : job[j].state \in ACTIVE}
Outstanding == Cardinality(ActiveJobs)
Inserted == {j \in Jobs : job[j].state # "absent"}

Init ==
    /\ job = [j \in Jobs |-> [state |-> "absent", created |-> 0]]
    /\ exports = {}
    /\ dir = [e \in Exports |-> "none"]
    /\ deleted = {}
    /\ locked = {}
    /\ event = [j \in Jobs |-> "none"]
    /\ cancelling = NoCancel
    /\ accepting = TRUE
    /\ stop = FALSE
    /\ phase = "serving"
    /\ pc = [p \in Exporters |-> "idle"]
    /\ task = None
    /\ pins = [p \in Exporters |-> {}]
    /\ crashes = 0

-----------------------------------------------------------------------------
(* Requests.                                                               *)

\* Mutants: a full queue takes one more; a draining queue takes jobs.
AdmitsOneMore == accepting /\ Outstanding <= MAX_OUTSTANDING
AdmitsWhileDraining == Outstanding < MAX_OUTSTANDING

Admits == accepting /\ Outstanding < MAX_OUTSTANDING

\* A second submission under the same requestId finds the row and changes
\* nothing, whatever range it asks for.
Submit(j) ==
    /\ Running
    /\ LockFree
    /\ job[j].state = "absent"
    /\ Admits
    /\ job' = [job EXCEPT ![j] = [state |-> "queued",
                                  created |-> Cardinality(Inserted)]]
    /\ UNCHANGED <<exports, dir, deleted, locked, event, cancelling, control, threads>>

\* cancel takes jobs.lock and reads the row; a finished job is left alone.
CancelRead(j) ==
    /\ Running
    /\ LockFree
    /\ job[j].state \in ACTIVE
    /\ cancelling' = [job |-> j, seen |-> job[j].state, step |-> "authorize"]
    /\ UNCHANGED <<tables, event, control, threads>>

\* get() asks the authorization service; a refusal releases the lock.
CancelRefused ==
    /\ Running
    /\ cancelling.step = "authorize"
    /\ cancelling' = NoCancel
    /\ UNCHANGED <<tables, event, control, threads>>

CancelSignal ==
    /\ Running
    /\ cancelling.step = "authorize"
    /\ cancelling' = [cancelling EXCEPT !.step = "write"]
    /\ event' = [event EXCEPT ![cancelling.job] =
                    IF @ = "none" THEN @ ELSE "set"]
    /\ UNCHANGED <<tables, control, threads>>

\* The row is written from the state that was read.
CancelWrite ==
    /\ Running
    /\ cancelling.step = "write"
    /\ job' = [job EXCEPT ![cancelling.job].state =
                  IF cancelling.seen = "queued" THEN "cancelled"
                  ELSE "cancelling"]
    /\ cancelling' = NoCancel
    /\ UNCHANGED <<exports, dir, deleted, locked, event, control, threads>>

\* Mutant: an export's pins do not keep its sources.
DeletableIfUnlocked(s) == s \notin deleted /\ s \notin locked

\* delete_segment and apply_retention, under reader_lock.
Deletable(s) == /\ s \notin deleted
                /\ s \notin locked
                /\ \A p \in Exporters : s \notin pins[p]

DeleteSegment(s) ==
    /\ Running
    /\ Deletable(s)
    /\ deleted' = deleted \cup {s}
    /\ UNCHANGED <<job, exports, dir, locked, event, cancelling, control, threads>>

\* set_lock: an administrator adds or lifts an evidence lock.
SetLock(s, value) ==
    /\ Running
    /\ s \notin deleted
    /\ locked' = IF value THEN locked \cup {s} ELSE locked \ {s}
    /\ UNCHANGED <<job, exports, dir, deleted, event, cancelling, control, threads>>

-----------------------------------------------------------------------------
(* The worker claims a job; an HTTP thread exports directly.               *)

Oldest(j) == /\ job[j].state = "queued"
             /\ \A i \in Jobs : job[i].state = "queued"
                                => job[j].created <= job[i].created

Claim(j) ==
    /\ Running
    /\ ~stop
    /\ pc[Worker] = "idle"
    /\ LockFree
    /\ Oldest(j)
    /\ job' = [job EXCEPT ![j].state = "running"]
    /\ event' = [event EXCEPT ![j] = "clear"]
    /\ task' = j
    /\ pc' = [pc EXCEPT ![Worker] = "authorize"]
    /\ UNCHANGED <<exports, dir, deleted, locked, cancelling, control, pins>>

\* export_operation: a slot is taken without waiting and kept to the end.
InSlot(p) == pc[p] \in {"pin", "prepare", "convert", "publish", "published",
                        "cleanup"}
SlotFree == Cardinality({p \in Exporters : InSlot(p)}) < EXPORT_SLOTS

WorkerAuthorize(granted) ==
    /\ Running
    /\ pc[Worker] = "authorize"
    /\ pc' = [pc EXCEPT ![Worker] =
                 IF granted /\ SlotFree THEN "pin" ELSE "record"]
    /\ UNCHANGED <<tables, event, cancelling, control, task, pins>>

DirectBegin(d) ==
    /\ Running
    /\ pc[d] = "idle"
    /\ SlotFree
    /\ pc' = [pc EXCEPT ![d] = "pin"]
    /\ UNCHANGED <<tables, event, cancelling, control, task, pins>>

-----------------------------------------------------------------------------
(* export_evidence, run by thread p for the export Id(p).                  *)

Id(p) == IF p = Worker THEN task ELSE p
\* check_cancel: direct exports have no event.
Cancelled(p) == p = Worker /\ event[task] = "set"

\* Every source row is read and pinned under one hold of reader_lock; an
\* empty, too long or gapped range is refused.
Pin(p, acceptable) ==
    /\ Running
    /\ pc[p] = "pin"
    /\ IF acceptable /\ Segments \ deleted # {}
       THEN /\ pins' = [pins EXCEPT ![p] = Segments \ deleted]
            /\ pc' = [pc EXCEPT ![p] = "prepare"]
       ELSE /\ pc' = [pc EXCEPT ![p] = "cleanup"]
            /\ UNCHANGED pins
    /\ UNCHANGED <<tables, event, cancelling, control, task>>

\* Free space is compared with the reserve, then the directory is created.
Prepare(p, space) ==
    /\ Running
    /\ pc[p] = "prepare"
    /\ IF space /\ ~Cancelled(p)
       THEN /\ dir' = [dir EXCEPT ![Id(p)] = "partial"]
            /\ pc' = [pc EXCEPT ![p] = "convert"]
       ELSE /\ pc' = [pc EXCEPT ![p] = "cleanup"]
            /\ UNCHANGED dir
    /\ UNCHANGED <<job, exports, deleted, locked, event, cancelling, control, task, pins>>

\* Digest check, ffmpeg, probe and manifest of every camera: any of them may
\* fail, a source that is gone certainly does, cancellation is polled.
Convert(p, converted) ==
    /\ Running
    /\ pc[p] = "convert"
    /\ IF converted /\ ~Cancelled(p) /\ pins[p] \cap deleted = {}
       THEN /\ dir' = [dir EXCEPT ![Id(p)] = "complete"]
            /\ pc' = [pc EXCEPT ![p] = "publish"]
       ELSE /\ pc' = [pc EXCEPT ![p] = "cleanup"]
            /\ UNCHANGED dir
    /\ UNCHANGED <<job, exports, deleted, locked, event, cancelling, control, task, pins>>

\* Mutant: the last look at the cancel event is forgotten.
PublishableUnchecked(p) == p \in Exporters
Publishable(p) == ~Cancelled(p)

\* Source locks, the exports row and the job result are one transaction
\* under jobs.lock, reader_lock and catalog.lock.
Publish(p, committed) ==
    /\ Running
    /\ pc[p] = "publish"
    /\ LockFree
    /\ IF committed /\ Publishable(p)
       THEN /\ locked' = IF Id(p) \in Locking THEN locked \cup pins[p]
                         ELSE locked
            /\ exports' = exports \cup {Id(p)}
            /\ job' = IF p = Worker
                      THEN [job EXCEPT ![task].state = "completed"] ELSE job
            /\ pc' = [pc EXCEPT ![p] = "published"]
       ELSE /\ pc' = [pc EXCEPT ![p] = "cleanup"]
            /\ UNCHANGED <<locked, exports, job>>
    /\ UNCHANGED <<dir, deleted, event, cancelling, control, task, pins>>

\* The audit line may fail after the commit; the directory then stays.
Published(p, audited) ==
    /\ Running
    /\ pc[p] = "published"
    /\ pins' = [pins EXCEPT ![p] = {}]
    /\ pc' = [pc EXCEPT ![p] = IF p # Worker THEN "done"
                               ELSE IF audited THEN "finish" ELSE "record"]
    /\ UNCHANGED <<tables, event, cancelling, control, task>>

\* Pins are released, then remove_unpublished.
Cleanup(p) ==
    /\ Running
    /\ pc[p] = "cleanup"
    /\ pins' = [pins EXCEPT ![p] = {}]
    /\ dir' = [dir EXCEPT ![Id(p)] = "none"]
    /\ pc' = [pc EXCEPT ![p] = IF p = Worker THEN "record" ELSE "done"]
    /\ UNCHANGED <<job, exports, deleted, locked, event, cancelling, control, task>>

\* Mutant: the UPDATE has no AND state!='completed'.
RecordableAlways(j) == job[j].state \in JobStates
Recordable(j) == job[j].state # "completed"

\* Mutant: a final state no other code knows.
FailureStateMisspelt(j) == IF event[j] = "set" THEN "canceled" ELSE "failed"
FailureState(j) == IF event[j] = "set" THEN "cancelled" ELSE "failed"

\* The worker's except clause: jobs.lock is not taken.
Record ==
    /\ Running
    /\ pc[Worker] = "record"
    /\ job' = IF Recordable(task)
              THEN [job EXCEPT ![task].state = FailureState(task)]
              ELSE job
    /\ pc' = [pc EXCEPT ![Worker] = "finish"]
    /\ UNCHANGED <<exports, dir, deleted, locked, event, cancelling, control, task, pins>>

Finish ==
    /\ Running
    /\ pc[Worker] = "finish"
    /\ LockFree
    /\ event' = [event EXCEPT ![task] = "none"]
    /\ task' = None
    /\ pc' = [pc EXCEPT ![Worker] = "idle"]
    /\ UNCHANGED <<tables, cancelling, control, pins>>

-----------------------------------------------------------------------------
(* Shutdown, crash and restart.                                            *)

DrainBegin ==
    /\ phase = "serving"
    /\ LockFree
    /\ accepting' = FALSE
    /\ phase' = "draining"
    /\ UNCHANGED <<tables, event, cancelling, stop, crashes, threads>>

DrainDone ==
    /\ phase = "draining"
    /\ Outstanding = 0
    /\ stop' = TRUE
    /\ phase' = "stopped"
    /\ UNCHANGED <<tables, event, cancelling, accepting, crashes, threads>>

\* The deadline passed: jobs are accepted again and shutdown raises.
DrainTimeout ==
    /\ phase = "draining"
    /\ Outstanding > 0
    /\ accepting' = TRUE
    /\ phase' = "exiting"
    /\ UNCHANGED <<tables, event, cancelling, stop, crashes, threads>>

\* The process ends at any point; tables and directories survive.
Crash ==
    /\ Running
    /\ crashes < MaxCrashes
    /\ crashes' = crashes + 1
    /\ phase' = "recovering"
    /\ accepting' = TRUE
    /\ stop' = FALSE
    /\ cancelling' = NoCancel
    /\ event' = [j \in Jobs |-> "none"]
    /\ task' = None
    /\ pins' = [p \in Exporters |-> {}]
    /\ pc' = [p \in Exporters |->
                IF p = Worker \/ pc[p] = "idle" THEN "idle" ELSE "done"]
    /\ UNCHANGED tables

\* ExportJobs.__init__: directories of unpublished active jobs go first.
RecoverClean(j) ==
    /\ phase = "recovering"
    /\ job[j].state \in ACTIVE
    /\ j \notin exports
    /\ dir[j] # "none"
    /\ dir' = [dir EXCEPT ![j] = "none"]
    /\ UNCHANGED <<job, exports, deleted, locked, event, cancelling, control, threads>>

\* Mutant: only the directory of a running job is looked for.
RemovedIfRunning(j) == job[j].state = "running" => dir[j] = "none"
Removed(j) == j \in exports \/ dir[j] = "none"

RecoverMark ==
    /\ phase = "recovering"
    /\ \A j \in ActiveJobs : Removed(j)
    /\ job' = [j \in Jobs |-> IF job[j].state \in ACTIVE
                              THEN [job[j] EXCEPT !.state = "interrupted"]
                              ELSE job[j]]
    /\ phase' = "serving"
    /\ UNCHANGED <<exports, dir, deleted, locked, event, cancelling, accepting, stop, crashes, threads>>

-----------------------------------------------------------------------------
ExporterStep(p) ==
    \/ \E ok \in BOOLEAN : \/ Pin(p, ok) \/ Prepare(p, ok) \/ Convert(p, ok)
                           \/ Publish(p, ok) \/ Published(p, ok)
    \/ Cleanup(p)
WorkerStep ==
    \/ \E j \in Jobs : Claim(j)
    \/ \E ok \in BOOLEAN : WorkerAuthorize(ok)
    \/ ExporterStep(Worker)
    \/ Record
    \/ Finish
CancelStep == CancelRefused \/ CancelSignal \/ CancelWrite
RecoverStep == (\E j \in Jobs : RecoverClean(j)) \/ RecoverMark

Next ==
    \/ \E j \in Jobs : Submit(j) \/ CancelRead(j)
    \/ CancelStep
    \/ \E s \in Segments : \/ DeleteSegment(s)
                           \/ \E value \in BOOLEAN : SetLock(s, value)
    \/ WorkerStep
    \/ \E d \in Direct : DirectBegin(d) \/ ExporterStep(d)
    \/ DrainBegin \/ DrainDone \/ DrainTimeout
    \/ Crash
    \/ RecoverStep

Spec == Init /\ [][Next]_vars

\* Every conversion has a five-minute deadline, every authorization call a
\* two-second one and the worker polls its queue every second; a service
\* that is restarted runs its constructor to the end.  Fairness of the worker
\* is strong because it competes with cancel requests for jobs.lock.
Fairness ==
    /\ SF_vars(WorkerStep)
    /\ WF_vars(CancelStep)
    /\ WF_vars(RecoverStep)
    /\ \A d \in Direct : WF_vars(ExporterStep(d))

FairSpec == Spec /\ Fairness

-----------------------------------------------------------------------------
(* Properties.                                                             *)

TypeOK ==
    /\ job \in [Jobs -> JobRow]
    /\ exports \subseteq Exports
    /\ dir \in [Exports -> Dirs]
    /\ deleted \subseteq Segments
    /\ locked \subseteq Segments
    /\ event \in [Jobs -> {"none", "clear", "set"}]
    /\ cancelling \in CancelRequest \cup {NoCancel}
    /\ accepting \in BOOLEAN
    /\ stop \in BOOLEAN
    /\ phase \in Phases
    /\ pc \in [Exporters -> Steps]
    /\ task \in Jobs \cup {None}
    /\ pins \in [Exporters -> SUBSET Segments]
    /\ crashes \in Nat

\* At every moment, crashes included, a job reports completed exactly when
\* its exports row is there, and whatever the exports table offers for
\* download is a finished directory.
PublicationConsistent ==
    /\ \A j \in Jobs : job[j].state = "completed" <=> j \in exports
    /\ \A e \in exports : dir[e] = "complete"

\* A job that ended without a result has left no directory behind, however
\* failure, cancellation, shutdown and restart met.
NoLeftovers ==
    \A j \in Jobs :
        job[j].state \in {"cancelled", "failed", "interrupted"}
        => dir[j] = "none"

\* A job whose cancellation has been written, or that has ended, is never
\* completed afterwards by the export that was under way.
NeverCompletedLate ==
    [][\A j \in Jobs :
          job[j].state \in {"cancelling", "cancelled", "failed", "interrupted"}
          => job'[j].state # "completed"]_vars

\* What is published was made from segments that are still there.
PublishedFromLiveSources ==
    [][\A p \in Exporters :
          pc[p] = "publish" /\ pc'[p] = "published"
          => pins[p] # {} /\ pins[p] \cap deleted = {}]_vars

\* No interleaving of submissions, failures and cancellations leaves more
\* jobs outstanding than the queue admits.
QueueBounded == Outstanding <= MAX_OUTSTANDING

\* Once drain has stopped the worker, no job waits for it or believes to be
\* running.
NothingAfterDrain ==
    stop => \A j \in Jobs : job[j].state \notin {"queued", "running"}

\* A queued job does not wait for ever: it is run, cancelled or interrupted
\* by a restart.
QueuedServed ==
    \A j \in Jobs : job[j].state = "queued" ~> job[j].state # "queued"

-----------------------------------------------------------------------------
(* The inductive invariant behind the safety properties.                   *)

Exporting == {"authorize", "pin", "prepare", "convert", "publish", "cleanup"}

WorkerTask ==
    /\ pc[Worker] # "done"
    /\ pc[Worker] = "idle" <=> task = None
    /\ \A j \in Jobs : event[j] # "none" <=> j = task

\* An unpublished export is not in the table; a cancelled one has its event
\* set, so that it cannot be published.
TaskState ==
    /\ pc[Worker] \in Exporting =>
         /\ task \notin exports
         /\ \/ job[task].state = "running"
            \/ job[task].state = "cancelling" /\ event[task] = "set"
    /\ pc[Worker] = "published" => task \in exports
    /\ pc[Worker] = "record" => job[task].state \notin {"absent", "queued"}
    /\ \A p \in Direct :
         pc[p] \in Exporting \cup {"idle"} => p \notin exports
    /\ \A p \in Exporters : pc[p] = "publish" => dir[Id(p)] = "complete"

\* A running job is the worker's own, except while the process recovers.
RunningIsTask ==
    \A j \in Jobs : job[j].state = "running" =>
        \/ phase = "recovering"
        \/ j = task /\ pc[Worker] \in Exporting \cup {"record"}

\* The cancel request that holds jobs.lock: what it read still tells a
\* waiting job from a started one.
CancelView ==
    ~LockFree =>
        /\ cancelling.seen = "queued" =>
             job[cancelling.job].state = "queued"
        /\ cancelling.seen # "queued" =>
             job[cancelling.job].state \in
                {"running", "cancelling", "failed", "cancelled"}
        /\ cancelling.step = "write" /\ cancelling.job = task =>
             event[task] = "set"

\* A directory belongs to a published export, to the job being exported, or
\* to a job that the constructor is about to clean up.
DirOwned ==
    \A j \in Jobs : dir[j] # "none" =>
        \/ j \in exports
        \/ j = task /\ pc[Worker] \in {"convert", "publish", "cleanup"}
        \/ phase = "recovering" /\ job[j].state \in ACTIVE

Recovering ==
    phase = "recovering" =>
        task = None /\ LockFree /\ \A p \in Exporters : pc[p] \in {"idle", "done"}

PinsHeld ==
    \A p \in Exporters :
        /\ pins[p] \cap deleted = {}
        /\ pc[p] \in {"prepare", "convert", "publish"} => pins[p] # {}

Stopping ==
    /\ phase \in {"draining", "stopped"} => ~accepting
    /\ stop => phase = "stopped"

\* The job of a pending cancel counts as outstanding: its row may have left
\* ACTIVE and is about to be put back.
Charged == ActiveJobs \cup (IF LockFree THEN {} ELSE {cancelling.job})

ExportInv ==
    /\ TypeOK
    /\ WorkerTask
    /\ TaskState
    /\ RunningIsTask
    /\ CancelView
    /\ DirOwned
    /\ Recovering
    /\ PinsHeld
    /\ Stopping
    /\ NothingAfterDrain
    /\ PublicationConsistent
    /\ Cardinality(Charged) <= MAX_OUTSTANDING

-----------------------------------------------------------------------------
(* What the tests expect and the code does not keep.                       *)

\* A cancelled job reaches a final state.  (cancel writes the row from a
\* state read before the worker's failure was recorded.)
CancelEnds ==
    \A j \in Jobs : job[j].state = "cancelling" ~> job[j].state \notin ACTIVE
=============================================================================
