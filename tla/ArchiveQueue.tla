---------------------------- MODULE ArchiveQueue ----------------------------
(* The S3 archive service (services/archive/s3_archive.py): a scan of the   *)
(* recorder's catalog fills a queue in a database of its own, two workers   *)
(* upload segments to content-addressed keys, verify them and write the     *)
(* result to both databases.                                                *)
(*                                                                         *)
(* Each queue operation is one transaction under the queue's lock.  The    *)
(* catalog has one connection for all threads, hence one transaction, which *)
(* whoever ends it ends for the others too.  A job's next_attempt_at is    *)
(* reduced to whether it is due.  Segments are numbered by rowid.          *)
EXTENDS Naturals, FiniteSets

CONSTANTS
    Segments,       \* a set of numbers
    Digest,         \* the content, hence the object key, of each segment
    Workers,        \* two in the code
    MAX_QUEUE,      \* 4096
    MaxFaults,      \* bound: ends of the process and database errors
    None

ASSUME ArchiveAssumption ==
    /\ IsFiniteSet(Segments) /\ Segments \subseteq Nat
    /\ None \notin Segments
    /\ MAX_QUEUE \in Nat \ {0}
    /\ MaxFaults \in Nat

VARIABLES
    row,        \* catalog: "absent" or the integrity, and archive_state
    written,    \* segments updated in the catalog's open transaction
    job,        \* the queue's jobs table
    due,        \* jobs whose next_attempt_at has come
    scanned,    \* rows the scan has read and not yet offered to the queue
    pc,         \* where each worker is
    task,       \* the segment it works on
    store,      \* keys under which the bucket has the right object
    crashes,
    errors

catalogVars == <<row, written>>
queueVars == <<job, due>>
workerVars == <<pc, task>>
vars == <<row, written, job, due, scanned, pc, task, store, crashes, errors>>

Row == [integrity : {"absent", "verified", "deleted"}, archive : {"local", "uploaded"}]
\* One more crash or error is within the bound.
Faulty == crashes + errors < MaxFaults

JobState == {"none", "queued", "retry", "uploading", "completed"}

Init ==
    /\ row = [s \in Segments |-> [integrity |-> "absent", archive |-> "local"]]
    /\ written = {}
    /\ job = [s \in Segments |-> "none"]
    /\ due = Segments
    /\ scanned = {}
    /\ pc = [w \in Workers |-> "idle"]
    /\ task = [w \in Workers |-> None]
    /\ store = {}
    /\ crashes = 0
    /\ errors = 0

-----------------------------------------------------------------------------
(* The recorder: segments appear and are deleted, whatever the archive does. *)

Catalogue(s) ==
    /\ row[s].integrity = "absent"
    /\ \A r \in Segments : r < s => row[r].integrity # "absent"
    /\ row' = [row EXCEPT ![s].integrity = "verified"]
    /\ UNCHANGED <<written, queueVars, scanned, workerVars, store, crashes, errors>>

\* Deleted, or found missing: the file is gone.
Delete(s) ==
    /\ row[s].integrity = "verified"
    /\ row' = [row EXCEPT ![s].integrity = "deleted"]
    /\ UNCHANGED <<written, queueVars, scanned, workerVars, store, crashes, errors>>

-----------------------------------------------------------------------------
(* The scan.                                                               *)

\* Read through the shared connection: uncommitted updates are seen.
Local == {s \in Segments : /\ row[s].archive = "local" /\ s \notin written
                           /\ row[s].integrity = "verified"}

\* The first MAX_QUEUE rows, whether or not the queue has them already.
ScanRead ==
    /\ scanned = {}
    /\ scanned' = {s \in Local : Cardinality({r \in Local : r < s}) < MAX_QUEUE}
    /\ UNCHANGED <<catalogVars, queueVars, workerVars, store, crashes, errors>>

Outstanding == {s \in Segments : job[s] \in {"queued", "retry", "uploading"}}
Waiting == {s \in Segments : job[s] \in {"queued", "retry"}}

RoomByWaiting == Cardinality(Waiting) < MAX_QUEUE
Room == Cardinality(Outstanding) < MAX_QUEUE

\* enqueue: a segment that has a job keeps it (INSERT OR IGNORE).
Enqueue(s) ==
    /\ s \in scanned
    /\ scanned' = scanned \ {s}
    /\ IF Room /\ job[s] = "none"
       THEN /\ job' = [job EXCEPT ![s] = "queued"]
            /\ due' = due \cup {s}
       ELSE UNCHANGED queueVars
    /\ UNCHANGED <<catalogVars, workerVars, store, crashes, errors>>

-----------------------------------------------------------------------------
(* A worker.                                                               *)

Goto(w, place) == pc' = [pc EXCEPT ![w] = place]
Rest(w) == /\ pc' = [pc EXCEPT ![w] = "idle"]
           /\ task' = [task EXCEPT ![w] = None]

ClaimableQueued == {s \in Segments : job[s] = "queued" /\ s \in due}
ClaimableOrStuck == {s \in Segments : job[s] \in {"queued", "retry", "uploading"} /\ s \in due}
Claimable == {s \in Segments : job[s] \in {"queued", "retry"} /\ s \in due}

Claim(w, s) ==
    /\ pc[w] = "idle"
    /\ s \in Claimable
    /\ job' = [job EXCEPT ![s] = "uploading"]
    /\ task' = [task EXCEPT ![w] = s]
    /\ Goto(w, "claimed")
    /\ UNCHANGED <<due, catalogVars, scanned, store, crashes, errors>>

\* The first half of upload_verified.  The file is gone, or moved, or has
\* another size; or it is sent, and the bucket may or may not store it and may
\* or may not say so.
Put(w, stored, answered) ==
    /\ pc[w] = "claimed"
    /\ stored \/ answered => row[task[w]].integrity = "verified"
    /\ store' = IF stored THEN store \cup {Digest[task[w]]} ELSE store
    /\ Goto(w, IF answered THEN "verify" ELSE "failed")
    /\ UNCHANGED <<catalogVars, queueVars, task, scanned, crashes, errors>>

ConfirmedUnseen(w) == TRUE

\* The second half: HEAD must report the digest and the size.
Confirmed(w) == Digest[task[w]] \in store

Verify(w, answered) ==
    /\ pc[w] = "verify"
    /\ Goto(w, IF answered /\ Confirmed(w) THEN "update" ELSE "failed")
    /\ UNCHANGED <<catalogVars, queueVars, task, scanned, store, crashes, errors>>

\* UPDATE segments, inside the transaction of the shared connection.
Update(w) ==
    /\ pc[w] = "update"
    /\ written' = written \cup {task[w]}
    /\ Goto(w, "commit")
    /\ UNCHANGED <<row, queueVars, task, scanned, store, crashes, errors>>

CommittedOddly ==
    [s \in Segments |-> IF s \in written THEN [row[s] EXCEPT !.archive = "archived"]
                        ELSE row[s]]

\* COMMIT writes whatever the transaction holds by now; nothing, if the other
\* worker has ended it.
Committed ==
    [s \in Segments |-> IF s \in written THEN [row[s] EXCEPT !.archive = "uploaded"]
                        ELSE row[s]]

CommitForgotten(w) ==
    /\ pc[w] = "commit"
    /\ Goto(w, "complete")
    /\ UNCHANGED <<row, written, queueVars, task, scanned, store, crashes, errors>>

Commit(w) ==
    /\ pc[w] = "commit"
    /\ row' = Committed
    /\ written' = {}
    /\ Goto(w, "complete")
    /\ UNCHANGED <<queueVars, task, scanned, store, crashes, errors>>

\* The catalog refuses the UPDATE or the COMMIT (the disk is full): the
\* rollback takes the other worker's update with it.
CatalogError(w) ==
    /\ pc[w] \in {"update", "commit"}
    /\ Faulty
    /\ errors' = errors + 1
    /\ written' = {}
    /\ Goto(w, "failed")
    /\ UNCHANGED <<row, queueVars, task, scanned, store, crashes>>

Complete(w) ==
    /\ pc[w] = "complete"
    /\ job' = [job EXCEPT ![task[w]] = "completed"]
    /\ Rest(w)
    /\ UNCHANGED <<due, catalogVars, scanned, store, crashes, errors>>

\* complete raises: what has been uploaded is retried.
CompleteError(w) ==
    /\ pc[w] = "complete"
    /\ Faulty
    /\ errors' = errors + 1
    /\ Goto(w, "failed")
    /\ UNCHANGED <<catalogVars, queueVars, task, scanned, store, crashes>>

\* retry: the job waits between 5 seconds and 5 minutes.
Retry(w) ==
    /\ pc[w] = "failed"
    /\ job' = [job EXCEPT ![task[w]] = "retry"]
    /\ due' = due \ {task[w]}
    /\ Rest(w)
    /\ UNCHANGED <<catalogVars, scanned, store, crashes, errors>>

\* The catalog cannot be read, outside the try, or retry itself raises: the
\* thread ends and nobody starts another.
WorkerDies(w) ==
    /\ pc[w] \in {"claimed", "failed"}
    /\ Faulty
    /\ errors' = errors + 1
    /\ pc' = [pc EXCEPT ![w] = "dead"]
    /\ task' = [task EXCEPT ![w] = None]
    /\ UNCHANGED <<catalogVars, queueVars, scanned, store, crashes>>

BackoffEnds(s) ==
    /\ s \notin due
    /\ due' = due \cup {s}
    /\ UNCHANGED <<job, catalogVars, scanned, workerVars, store, crashes, errors>>

\* The process ends and starts again: both databases are left, the open
\* transaction is not.
Crash ==
    /\ Faulty
    /\ crashes' = crashes + 1
    /\ written' = {}
    /\ scanned' = {}
    /\ pc' = [w \in Workers |-> "idle"]
    /\ task' = [w \in Workers |-> None]
    /\ UNCHANGED <<row, queueVars, store, errors>>

Work(w) ==
    \/ \E stored, answered \in BOOLEAN : Put(w, stored, answered)
    \/ \E answered \in BOOLEAN : Verify(w, answered)
    \/ Update(w)
    \/ Commit(w)
    \/ Complete(w)
    \/ Retry(w)

Next ==
    \/ \E s \in Segments : \/ Catalogue(s)
                           \/ Delete(s)
                           \/ Enqueue(s)
                           \/ BackoffEnds(s)
    \/ ScanRead
    \/ \E w \in Workers :
          \/ \E s \in Segments : Claim(w, s)
          \/ Work(w)
          \/ CatalogError(w)
          \/ CompleteError(w)
          \/ WorkerDies(w)
    \/ Crash

Spec == Init /\ [][Next]_vars

\* The scan runs every ten seconds and the workers every second; requests time
\* out after sixty seconds.  claim takes the job that was updated longest ago,
\* so a job that is due again and again is taken (strong fairness of its
\* claim).  The bucket does not refuse or lose a segment's object for ever.
FairSpec ==
    /\ Spec
    /\ WF_vars(ScanRead)
    /\ WF_vars(\E s \in Segments : Enqueue(s))
    /\ \A w \in Workers : WF_vars(Work(w))
    /\ \A s \in Segments :
          /\ WF_vars(BackoffEnds(s))
          /\ SF_vars(\E w \in Workers : Claim(w, s))
          /\ SF_vars(\E w \in Workers : task[w] = s /\ Put(w, TRUE, TRUE))
          /\ SF_vars(\E w \in Workers : task[w] = s /\ Verify(w, TRUE))

-----------------------------------------------------------------------------
(* Properties.                                                             *)

TypeOK ==
    /\ row \in [Segments -> Row]
    /\ written \subseteq Segments
    /\ job \in [Segments -> JobState]
    /\ due \subseteq Segments
    /\ scanned \subseteq Segments
    /\ pc \in [Workers -> {"idle", "claimed", "verify", "update", "commit",
                           "complete", "failed", "dead"}]
    /\ task \in [Workers -> Segments \cup {None}]
    /\ store \subseteq {Digest[s] : s \in Segments}
    /\ crashes \in 0..MaxFaults
    /\ errors \in 0..MaxFaults
    /\ crashes + errors <= MaxFaults

\* A segment marked uploaded can be retrieved: the recorder and the controller
\* issue tickets for it.  Lost answers, crashes and a transaction
\* shared by two workers never mark a segment whose object the bucket lacks.
UploadedIsStored ==
    \A s \in Segments : row[s].archive = "uploaded" => Digest[s] \in store

\* The queue never holds more than its limit, the jobs under way included.
QueueBounded == Cardinality(Outstanding) <= MAX_QUEUE

Busy(w) == pc[w] \notin {"idle", "dead"}

\* A segment is uploaded by one worker at a time.
OneUploader ==
    \A v, w \in Workers : Busy(v) /\ Busy(w) /\ task[v] = task[w] => v = w

\* A finished job has reached the catalog, and scan will not miss it: whatever
\* crash falls between the two databases, completed means uploaded.  (A
\* database error in one worker's transaction can take the other's away.)
CompletedIsUploaded ==
    errors = 0 =>
        \A s \in Segments : job[s] = "completed" => row[s].archive = "uploaded"

-----------------------------------------------------------------------------
(* The inductive invariant behind these.                                   *)

\* A worker's segment has its job in uploading for as long as it works on it.
TaskUploading ==
    \A w \in Workers :
        IF Busy(w) THEN task[w] \in Segments /\ job[task[w]] = "uploading"
        ELSE task[w] = None

\* What is about to be marked uploaded has been verified.
VerifiedBefore ==
    /\ \A s \in written : Digest[s] \in store
    /\ \A w \in Workers : pc[w] \in {"update", "commit", "complete"}
                          => Digest[task[w]] \in store

\* Without errors an update is open until it is in the catalog, whichever
\* worker commits it.
UpdateKept ==
    errors = 0 =>
        \A w \in Workers :
            /\ pc[w] = "commit" => \/ task[w] \in written
                                   \/ row[task[w]].archive = "uploaded"
            /\ pc[w] = "complete" => row[task[w]].archive = "uploaded"

ArchiveInv == /\ TypeOK /\ UploadedIsStored /\ QueueBounded /\ OneUploader
              /\ CompletedIsUploaded /\ TaskUploading /\ VerifiedBefore /\ UpdateKept

-----------------------------------------------------------------------------
(* Liveness.                                                               *)

\* Left in uploading by a crash or a dead worker: nothing claims the job, and
\* scan finds its segment but does not queue it again.
Stranded(s) == job[s] = "uploading" /\ \A w \in Workers : task[w] # s

\* What stays for ever in the queue, or among the rows scan reads: a stranded
\* job; a job of a segment deleted before it was uploaded (every attempt
\* fails); a job completed by an update that was lost with the other worker's.
Hopeless ==
    {s \in Segments :
        \/ Stranded(s)
        \/ s \in Outstanding /\ row[s].integrity = "deleted"
        \/ job[s] = "completed" /\ row[s].archive = "local"}

\* Every segment that stays is uploaded in the end, through refusals, lost
\* answers, crashes and errors, unless it is hopeless itself, hopeless ones are
\* as many as the queue and scan's limit, or no worker is left.
Archived ==
    \A s \in Segments :
        row[s].integrity = "verified" /\ row[s].archive = "local" ~>
            \/ row[s].archive = "uploaded"
            \/ row[s].integrity = "deleted"
            \/ s \in Hopeless
            \/ Cardinality(Hopeless) >= MAX_QUEUE
            \/ \A w \in Workers : pc[w] = "dead"
=============================================================================
